-------------------------- MODULE SshFanOut_proofs --------------------------
(***************************************************************************)
(* Proofs about SshFanOut, for any cluster, pool and number of stops: that *)
(* start_worker_processes keeps its contract, and the type invariant. The  *)
(* inductive invariant says what a call knows at each of its stages.       *)
(***************************************************************************)
EXTENDS SshFanOut, TLAPS

\* Before its pool a call has no threads and no failures.
NothingYet ==
  \A c \in Calls : pc[c] \in {"before", "write"} =>
    failures[c] = {} /\ \A n \in Nodes : ssh[c][n] = "none"

\* Threads are at work only while their call waits for them.
ThreadsInPool ==
  \A c \in Calls : \A n \in Nodes :
    ssh[c][n] \in {"queued", "ssh", "rmon"} => pc[c] = "pool"

\* The script of the start is complete, or somebody has deleted it.
StartScript == pc[Start] = "pool" => script["start"] # "empty"

\* Only a thread that is past start-worker.sh has launched its worker; without
\* the monitor, one that has ended and did not fail has.
LaunchedByThreads ==
  \A n \in Nodes :
    /\ n \in launched => ssh[Start][n] \in {"rmon", "ended"}
    /\ ssh[Start][n] = "rmon" => monitored
    /\ ~monitored /\ ssh[Start][n] = "ended" /\ n \notin failures[Start] => n \in launched

IInv == TypeOK /\ NothingYet /\ ThreadsInPool /\ StartScript /\ LaunchedByThreads

\* The script of a call that has no other of its kind is there until it ends.
SoloScript ==
  \A c \in Calls :
    pc[c] = "pool" /\ (\A d \in Calls \ {c} : Kind(d) = Kind(c) => pc[d] = "before")
      => script[Kind(c)] = "full" \/ emptied

\* A stop begins only when the start is over, and without the monitor there is
\* nothing of it.
StopsAlone ==
  /\ \A c \in Stops : pc[c] # "before" => ~AtWork(Start)
  /\ ~monitored => named = {}
  /\ \A c \in Calls : \A n \in Nodes : ssh[c][n] = "rmon" => monitored

\* What the stop that began last has done, and why nothing undoes it: only itself
\* leaves its script empty, and its threads run it complete or fail.
BeganLast(d) ==
  /\ pc[d] # "before"
  /\ script["stop"] = "empty" => pc[d] = "write"
  /\ \A n \in Nodes :
       ssh[d][n] = "ended" /\ n \notin failures[d]
         => n \notin named /\ (monitored \/ n \notin workers)

LastStop == (\E c \in Stops : pc[c] # "before") => \E d \in Stops : BeganLast(d)

\* A call that has returned has had no failure, and all its threads have ended.
ReturnedGood ==
  \A c \in Calls : pc[c] = "returned" =>
    failures[c] = {} /\ \A n \in Nodes : ssh[c][n] = "ended"

StopInv == SoloScript /\ StopsAlone /\ LastStop /\ ReturnedGood

-----------------------------------------------------------------------------
\* The sets and tuples that the definitions are made of.
USE DEF Calls, Over, files, nodes

\* No call has begun.
LEMMA InitInvariant == Init => IInv
  <1> SUFFICES ASSUME Init PROVE IInv
    OBVIOUS
  <1> USE FanOutAssumption
  <1>1. TypeOK
    BY DEF Init, TypeOK
  <1>2. NothingYet /\ ThreadsInPool
    BY DEF Init, NothingYet, ThreadsInPool
  <1>3. StartScript /\ LaunchedByThreads
    BY DEF Init, StartScript, LaunchedByThreads
  <1> QED
    BY <1>1, <1>2, <1>3 DEF IInv

\* One case per action, and in it one step per part of the invariant.
LEMMA NextInvariant == IInv /\ [Next]_vars => IInv'
  <1> SUFFICES ASSUME IInv, [Next]_vars PROVE IInv'
    OBVIOUS
  <1> USE FanOutAssumption DEF IInv
  <1>1. ASSUME NEW c \in Calls, Begin(c) PROVE IInv'
    <2>1. TypeOK'
      BY <1>1 DEF Begin, MayBegin, Kind, AtWork, TypeOK, NothingYet
    <2>2. NothingYet'
      BY <1>1 DEF Begin, MayBegin, Kind, AtWork, TypeOK, NothingYet
    <2>3. ThreadsInPool'
      BY <1>1 DEF Begin, MayBegin, Kind, AtWork, TypeOK, ThreadsInPool
    <2>4. StartScript'
      BY <1>1 DEF Begin, MayBegin, Kind, AtWork, TypeOK, StartScript
    <2>5. LaunchedByThreads'
      BY <1>1 DEF Begin, MayBegin, Kind, AtWork, TypeOK, NothingYet, ThreadsInPool,
         StartScript, LaunchedByThreads
    <2> QED
      BY <2>1, <2>2, <2>3, <2>4, <2>5
  <1>2. ASSUME NEW c \in Calls, Submit(c) PROVE IInv'
    <2>1. TypeOK'
      BY <1>2 DEF Submit, Kind, TypeOK, NothingYet
    <2>2. NothingYet'
      BY <1>2 DEF Submit, Kind, TypeOK, NothingYet
    <2>3. ThreadsInPool'
      BY <1>2 DEF Submit, Kind, TypeOK, ThreadsInPool
    <2>4. StartScript'
      BY <1>2 DEF Submit, Kind, TypeOK, StartScript
    <2>5. LaunchedByThreads'
      BY <1>2 DEF Submit, Kind, TypeOK, NothingYet, ThreadsInPool, StartScript,
         LaunchedByThreads
    <2> QED
      BY <2>1, <2>2, <2>3, <2>4, <2>5
  <1>3. ASSUME NEW c \in Calls, ChmodFails(c) PROVE IInv'
    <2>1. TypeOK'
      BY <1>3 DEF ChmodFails, Kind, TypeOK, NothingYet
    <2>2. NothingYet'
      BY <1>3 DEF ChmodFails, Kind, TypeOK, NothingYet
    <2>3. ThreadsInPool'
      BY <1>3 DEF ChmodFails, Kind, TypeOK, ThreadsInPool
    <2>4. StartScript'
      BY <1>3 DEF ChmodFails, Kind, TypeOK, StartScript
    <2>5. LaunchedByThreads'
      BY <1>3 DEF ChmodFails, Kind, TypeOK, NothingYet, ThreadsInPool, StartScript,
         LaunchedByThreads
    <2> QED
      BY <2>1, <2>2, <2>3, <2>4, <2>5
  <1>4. ASSUME NEW c \in Calls, NEW n \in Nodes, Connect(c, n) PROVE IInv'
    <2>1. TypeOK'
      BY <1>4 DEF Connect, Thread, TypeOK, NothingYet
    <2>2. NothingYet'
      BY <1>4 DEF Connect, Thread, TypeOK, NothingYet
    <2>3. ThreadsInPool'
      BY <1>4 DEF Connect, Thread, TypeOK, ThreadsInPool
    <2>4. StartScript'
      BY <1>4 DEF Connect, Thread, TypeOK, StartScript
    <2>5. LaunchedByThreads'
      BY <1>4 DEF Connect, Thread, TypeOK, NothingYet, ThreadsInPool, StartScript,
         LaunchedByThreads
    <2> QED
      BY <2>1, <2>2, <2>3, <2>4, <2>5
  <1>5. ASSUME NEW c \in Calls, NEW n \in Nodes, NotRun(c, n) PROVE IInv'
    <2>1. TypeOK'
      BY <1>5 DEF NotRun, Thread, Fails, TypeOK, NothingYet
    <2>2. NothingYet'
      BY <1>5 DEF NotRun, Thread, Fails, TypeOK, NothingYet
    <2>3. ThreadsInPool'
      BY <1>5 DEF NotRun, Thread, Fails, TypeOK, ThreadsInPool
    <2>4. StartScript'
      BY <1>5 DEF NotRun, Thread, Fails, TypeOK, StartScript
    <2>5. LaunchedByThreads'
      BY <1>5 DEF NotRun, Thread, Fails, TypeOK, NothingYet, ThreadsInPool, StartScript,
         LaunchedByThreads
    <2> QED
      BY <2>1, <2>2, <2>3, <2>4, <2>5
  <1>6. ASSUME NEW c \in Calls, NEW n \in Nodes, RunNothing(c, n) PROVE IInv'
    <2>1. TypeOK'
      BY <1>6 DEF RunNothing, Thread, Kind, TypeOK, NothingYet
    <2>2. NothingYet'
      BY <1>6 DEF RunNothing, Thread, Kind, TypeOK, NothingYet
    <2>3. ThreadsInPool'
      BY <1>6 DEF RunNothing, Thread, Kind, TypeOK, ThreadsInPool
    <2>4. StartScript'
      BY <1>6 DEF RunNothing, Thread, Kind, TypeOK, StartScript
    <2>5. LaunchedByThreads'
      BY <1>6 DEF RunNothing, Thread, Kind, TypeOK, NothingYet, ThreadsInPool,
         StartScript, LaunchedByThreads
    <2> QED
      BY <2>1, <2>2, <2>3, <2>4, <2>5
  <1>7. ASSUME NEW n \in Nodes, StartWorker(n) PROVE IInv'
    <2>1. TypeOK'
      BY <1>7 DEF StartWorker, Thread, Fails, WorkerCommandRan, TypeOK, NothingYet
    <2>2. NothingYet'
      BY <1>7 DEF StartWorker, Thread, Fails, WorkerCommandRan, TypeOK, NothingYet
    <2>3. ThreadsInPool'
      BY <1>7 DEF StartWorker, Thread, Fails, WorkerCommandRan, TypeOK, ThreadsInPool
    <2>4. StartScript'
      BY <1>7 DEF StartWorker, Thread, Fails, WorkerCommandRan, TypeOK, StartScript
    <2>5. LaunchedByThreads'
      BY <1>7 DEF StartWorker, Thread, Fails, WorkerCommandRan, TypeOK, NothingYet,
         ThreadsInPool, StartScript, LaunchedByThreads
    <2> QED
      BY <2>1, <2>2, <2>3, <2>4, <2>5
  <1>8. ASSUME NEW c \in Calls, NEW n \in Nodes, StopWorker(c, n) PROVE IInv'
    <2>1. TypeOK'
      BY <1>8 DEF StopWorker, Thread, Fails, WorkerCommandRan, TypeOK, NothingYet
    <2>2. NothingYet'
      BY <1>8 DEF StopWorker, Thread, Fails, WorkerCommandRan, TypeOK, NothingYet
    <2>3. ThreadsInPool'
      BY <1>8 DEF StopWorker, Thread, Fails, WorkerCommandRan, TypeOK, ThreadsInPool
    <2>4. StartScript'
      BY <1>8 DEF StopWorker, Thread, Fails, WorkerCommandRan, TypeOK, StartScript
    <2>5. LaunchedByThreads'
      BY <1>8 DEF StopWorker, Thread, Fails, WorkerCommandRan, TypeOK, NothingYet,
         ThreadsInPool, StartScript, LaunchedByThreads
    <2> QED
      BY <2>1, <2>2, <2>3, <2>4, <2>5
  <1>9. ASSUME NEW n \in Nodes, StartRmon(n) PROVE IInv'
    <2>1. TypeOK'
      BY <1>9 DEF StartRmon, Thread, TypeOK, NothingYet
    <2>2. NothingYet'
      BY <1>9 DEF StartRmon, Thread, TypeOK, NothingYet
    <2>3. ThreadsInPool'
      BY <1>9 DEF StartRmon, Thread, TypeOK, ThreadsInPool
    <2>4. StartScript'
      BY <1>9 DEF StartRmon, Thread, TypeOK, StartScript
    <2>5. LaunchedByThreads'
      BY <1>9 DEF StartRmon, Thread, TypeOK, NothingYet, ThreadsInPool, StartScript,
         LaunchedByThreads
    <2> QED
      BY <2>1, <2>2, <2>3, <2>4, <2>5
  <1>10. ASSUME NEW c \in Calls, NEW n \in Nodes, StopRmon(c, n) PROVE IInv'
    <2>1. TypeOK'
      BY <1>10 DEF StopRmon, Thread, TypeOK, NothingYet
    <2>2. NothingYet'
      BY <1>10 DEF StopRmon, Thread, TypeOK, NothingYet
    <2>3. ThreadsInPool'
      BY <1>10 DEF StopRmon, Thread, TypeOK, ThreadsInPool
    <2>4. StartScript'
      BY <1>10 DEF StopRmon, Thread, TypeOK, StartScript
    <2>5. LaunchedByThreads'
      BY <1>10 DEF StopRmon, Thread, TypeOK, NothingYet, ThreadsInPool, StartScript,
         LaunchedByThreads
    <2> QED
      BY <2>1, <2>2, <2>3, <2>4, <2>5
  <1>11. ASSUME NEW c \in Calls, Finish(c) PROVE IInv'
    <2>1. TypeOK'
      BY <1>11 DEF Finish, Drained, Result, Kind, TypeOK, NothingYet
    <2>2. NothingYet'
      BY <1>11 DEF Finish, Drained, Result, Kind, TypeOK, NothingYet
    <2>3. ThreadsInPool'
      BY <1>11 DEF Finish, Drained, Result, Kind, TypeOK, ThreadsInPool
    <2>4. StartScript'
      BY <1>11 DEF Finish, Drained, Result, Kind, TypeOK, StartScript
    <2>5. LaunchedByThreads'
      BY <1>11 DEF Finish, Drained, Result, Kind, TypeOK, NothingYet, ThreadsInPool,
         StartScript, LaunchedByThreads
    <2> QED
      BY <2>1, <2>2, <2>3, <2>4, <2>5
  <1>12. CASE EmptyConfDir
    <2>1. TypeOK'
      BY <1>12 DEF EmptyConfDir, TypeOK, NothingYet
    <2>2. NothingYet'
      BY <1>12 DEF EmptyConfDir, TypeOK, NothingYet
    <2>3. ThreadsInPool'
      BY <1>12 DEF EmptyConfDir, TypeOK, ThreadsInPool
    <2>4. StartScript'
      BY <1>12 DEF EmptyConfDir, TypeOK, StartScript
    <2>5. LaunchedByThreads'
      BY <1>12 DEF EmptyConfDir, TypeOK, NothingYet, ThreadsInPool, StartScript,
         LaunchedByThreads
    <2> QED
      BY <2>1, <2>2, <2>3, <2>4, <2>5
  <1>13. CASE UNCHANGED vars
    <2>1. TypeOK' /\ NothingYet' /\ ThreadsInPool'
      BY <1>13 DEF vars, TypeOK, NothingYet, ThreadsInPool
    <2>2. StartScript' /\ LaunchedByThreads'
      BY <1>13 DEF vars, StartScript, LaunchedByThreads
    <2> QED
      BY <2>1, <2>2
  <1> QED
    BY <1>1, <1>2, <1>3, <1>4, <1>5, <1>6, <1>7, <1>8, <1>9, <1>10, <1>11, <1>12, <1>13
       DEF Next, CallStep, ThreadStep, Done

\* The invariant holds in every reachable state, and the rest follows from it.
THEOREM Invariance == Spec => []IInv
  <1>1. Spec => Init /\ [][Next]_vars
    BY DEF Spec
  <1> QED
    BY <1>1, InitInvariant, NextInvariant, PTL

\* Every reachable state is well typed, and failed nodes are not tried again.
THEOREM TypeCorrect == Spec => []TypeOK
  <1>1. IInv => TypeOK
    BY DEF IInv
  <1> QED
    BY <1>1, Invariance, PTL

-----------------------------------------------------------------------------
(* The refinement *)

\* At first nothing is launched.
LEMMA InitRefines == Init => Contract!Init
  BY FanOutAssumption DEF Init, Contract!Init

\* Every step launches one worker, begins or ends the start, or shows nothing.
LEMMA NextRefines == IInv /\ [Next]_vars => [Contract!Next]_(Contract!vars)
  <1> SUFFICES ASSUME IInv, [Next]_vars PROVE [Contract!Next]_(Contract!vars)
    OBVIOUS
  <1> USE FanOutAssumption DEF IInv, Contract!vars
  <1>1. ASSUME NEW c \in Calls, Begin(c)
        PROVE  [Contract!Next]_(Contract!vars)
    <2>1. CASE c = Start
      BY <1>1, <2>1 DEF Begin, MayBegin, Kind, AtWork, TypeOK, Contract!Next,
         Contract!Begin
    <2>2. CASE c # Start
      BY <1>1, <2>2 DEF Begin, MayBegin, Kind, AtWork, TypeOK
    <2> QED
      BY <2>1, <2>2
  <1>2. ASSUME NEW c \in Calls, Submit(c)
        PROVE  [Contract!Next]_(Contract!vars)
    BY <1>2 DEF Submit, Kind, TypeOK
  <1>3. ASSUME NEW c \in Calls, ChmodFails(c)
        PROVE  [Contract!Next]_(Contract!vars)
    <2>1. CASE c = Start
      BY <1>3, <2>1 DEF ChmodFails, Kind, TypeOK, Contract!Next, Contract!Raise
    <2>2. CASE c # Start
      BY <1>3, <2>2 DEF ChmodFails, Kind, TypeOK
    <2> QED
      BY <2>1, <2>2
  <1>4. ASSUME NEW c \in Calls, NEW n \in Nodes, Connect(c, n)
        PROVE  [Contract!Next]_(Contract!vars)
    BY <1>4 DEF Connect, Thread, TypeOK
  <1>5. ASSUME NEW c \in Calls, NEW n \in Nodes, NotRun(c, n)
        PROVE  [Contract!Next]_(Contract!vars)
    BY <1>5 DEF NotRun, Thread, Fails, TypeOK
  <1>6. ASSUME NEW c \in Calls, NEW n \in Nodes, RunNothing(c, n)
        PROVE  [Contract!Next]_(Contract!vars)
    BY <1>6 DEF RunNothing, Thread, Kind, TypeOK
  <1>7. ASSUME NEW n \in Nodes, StartWorker(n)
        PROVE  [Contract!Next]_(Contract!vars)
    <2>1. pc[Start] = "pool"
      BY <1>7 DEF StartWorker, ThreadsInPool, TypeOK
    <2>2. n \notin launched
      BY <1>7 DEF StartWorker, LaunchedByThreads
    <2>3. CASE launched' = launched \cup {n}
      BY <1>7, <2>1, <2>2, <2>3 DEF StartWorker, Contract!Next, Contract!Launch
    <2>4. CASE launched' = launched
      BY <1>7, <2>4 DEF StartWorker
    <2> QED
      BY <1>7, <2>3, <2>4 DEF StartWorker
  <1>8. ASSUME NEW c \in Calls, NEW n \in Nodes, StopWorker(c, n)
        PROVE  [Contract!Next]_(Contract!vars)
    BY <1>8 DEF StopWorker, Thread, Fails, WorkerCommandRan, TypeOK
  <1>9. ASSUME NEW n \in Nodes, StartRmon(n)
        PROVE  [Contract!Next]_(Contract!vars)
    BY <1>9 DEF StartRmon, Thread, TypeOK
  <1>10. ASSUME NEW c \in Calls, NEW n \in Nodes, StopRmon(c, n)
        PROVE  [Contract!Next]_(Contract!vars)
    BY <1>10 DEF StopRmon, Thread, TypeOK
  <1>11. ASSUME NEW c \in Calls, Finish(c)
        PROVE  [Contract!Next]_(Contract!vars)
    <2>1. CASE c = Start /\ pc'[Start] = "returned"
      <3>1. failures[Start] = {} /\ Drained(Start)
        BY <1>11, <2>1 DEF Finish, Result, TypeOK
      <3>2. monitored \/ launched = Nodes
        BY <3>1 DEF Drained, LaunchedByThreads, TypeOK
      <3> QED
        BY <1>11, <2>1, <3>2 DEF Finish, TypeOK, Contract!Next, Contract!Return
    <2>2. CASE c = Start /\ pc'[Start] # "returned"
      <3>1. pc[Start] = "pool" /\ pc'[Start] \in {"failed", "raised"}
        BY <1>11, <2>2 DEF Finish, Result, TypeOK
      <3> QED
        BY <1>11, <2>2, <3>1 DEF Finish, Contract!Next, Contract!Raise
    <2>3. CASE c # Start
      BY <1>11, <2>3 DEF Finish, TypeOK
    <2> QED
      BY <2>1, <2>2, <2>3
  <1>12. CASE EmptyConfDir
    BY <1>12 DEF EmptyConfDir, TypeOK
  <1>13. CASE UNCHANGED vars
    BY <1>13 DEF vars
  <1> QED
    BY <1>1, <1>2, <1>3, <1>4, <1>5, <1>6, <1>7, <1>8, <1>9, <1>10, <1>11, <1>12, <1>13
       DEF Next, CallStep, ThreadStep, Done

\* start_worker_processes keeps its contract, for any number of nodes, whatever
\* fails, and whatever other calls and commands do to its script: it returns only
\* when it has launched every worker (unless the monitor masks a failure), and
\* launches none once it has returned or raised.
THEOREM StartKeepsItsContract == Spec => ImplementsContract
  <1>1. Spec => Init /\ [][Next]_vars
    BY DEF Spec
  <1> QED
    BY <1>1, InitRefines, NextRefines, Invariance, PTL DEF ImplementsContract,
       Contract!Spec

-----------------------------------------------------------------------------
(* Stops that overlap *)

\* At first no stop has begun.
LEMMA InitStop == Init => StopInv
  <1> SUFFICES ASSUME Init PROVE StopInv
    OBVIOUS
  <1> USE FanOutAssumption
  <1>1. SoloScript /\ LastStop /\ ReturnedGood
    BY DEF Init, SoloScript, LastStop, ReturnedGood
  <1>2. StopsAlone
    BY DEF Init, StopsAlone, AtWork
  <1> QED
    BY <1>1, <1>2 DEF StopInv

\* The stop that began last stays the witness until another begins.
LEMMA NextStop == IInv /\ StopInv /\ [Next]_vars => StopInv'
  <1> SUFFICES ASSUME IInv, StopInv, [Next]_vars PROVE StopInv'
    OBVIOUS
  <1> USE FanOutAssumption DEF IInv, StopInv
  <1>1. ASSUME NEW c \in Calls, Begin(c) PROVE StopInv'
    <2>1. SoloScript'
      BY <1>1 DEF Begin, MayBegin, Kind, AtWork, SoloScript, TypeOK
    <2>2. StopsAlone'
      BY <1>1 DEF Begin, MayBegin, Kind, AtWork, StopsAlone, TypeOK, ThreadsInPool
    <2>3. ReturnedGood'
      BY <1>1 DEF Begin, MayBegin, Kind, AtWork, ReturnedGood, TypeOK, ThreadsInPool
    <2>4. LastStop'
      <3>1. CASE c \in Stops
        <4>1. BeganLast(c)'
          BY <1>1, <3>1 DEF Begin, MayBegin, Kind, AtWork, BeganLast, TypeOK, NothingYet
        <4> QED
          BY <3>1, <4>1 DEF LastStop
      <3>2. CASE c = Start
        BY <1>1, <3>2 DEF Begin, MayBegin, Kind, AtWork, LastStop, TypeOK
      <3> QED
        BY <3>1, <3>2
    <2> QED
      BY <2>1, <2>2, <2>3, <2>4
  <1>2. ASSUME NEW c \in Calls, Submit(c) PROVE StopInv'
    <2>1. SoloScript'
      BY <1>2 DEF Submit, Kind, SoloScript, TypeOK
    <2>2. StopsAlone'
      BY <1>2 DEF Submit, Kind, StopsAlone, TypeOK, AtWork, ThreadsInPool
    <2>3. ReturnedGood'
      BY <1>2 DEF Submit, Kind, ReturnedGood, TypeOK, ThreadsInPool
    <2>4. LastStop'
      <3>1. SUFFICES ASSUME \E e \in Stops : pc[e] # "before" PROVE LastStop'
        BY <1>2 DEF Submit, Kind, LastStop, TypeOK
      <3>2. PICK e \in Stops : BeganLast(e)
        BY <3>1 DEF LastStop
      <3>3. BeganLast(e)'
        BY <1>2, <3>2 DEF Submit, Kind, BeganLast, TypeOK, ThreadsInPool, StopsAlone,
           AtWork
      <3> QED
        BY <3>3 DEF LastStop
    <2> QED
      BY <2>1, <2>2, <2>3, <2>4
  <1>3. ASSUME NEW c \in Calls, ChmodFails(c) PROVE StopInv'
    <2>1. SoloScript'
      BY <1>3 DEF ChmodFails, Kind, SoloScript, TypeOK
    <2>2. StopsAlone'
      BY <1>3 DEF ChmodFails, Kind, StopsAlone, TypeOK, AtWork, ThreadsInPool
    <2>3. ReturnedGood'
      BY <1>3 DEF ChmodFails, Kind, ReturnedGood, TypeOK, ThreadsInPool
    <2>4. LastStop'
      <3>1. SUFFICES ASSUME \E e \in Stops : pc[e] # "before" PROVE LastStop'
        BY <1>3 DEF ChmodFails, Kind, LastStop, TypeOK
      <3>2. PICK e \in Stops : BeganLast(e)
        BY <3>1 DEF LastStop
      <3>3. BeganLast(e)'
        BY <1>3, <3>2 DEF ChmodFails, Kind, BeganLast, TypeOK, ThreadsInPool,
           StopsAlone, AtWork
      <3> QED
        BY <3>3 DEF LastStop
    <2> QED
      BY <2>1, <2>2, <2>3, <2>4
  <1>4. ASSUME NEW c \in Calls, NEW n \in Nodes, Connect(c, n) PROVE StopInv'
    <2>1. SoloScript'
      BY <1>4 DEF Connect, Thread, SoloScript, Kind, TypeOK
    <2>2. StopsAlone'
      BY <1>4 DEF Connect, Thread, StopsAlone, TypeOK, AtWork, ThreadsInPool
    <2>3. ReturnedGood'
      BY <1>4 DEF Connect, Thread, ReturnedGood, TypeOK, ThreadsInPool
    <2>4. LastStop'
      <3>1. SUFFICES ASSUME \E e \in Stops : pc[e] # "before" PROVE LastStop'
        BY <1>4 DEF Connect, Thread, LastStop, TypeOK
      <3>2. PICK e \in Stops : BeganLast(e)
        BY <3>1 DEF LastStop
      <3>3. BeganLast(e)'
        BY <1>4, <3>2 DEF Connect, Thread, BeganLast, TypeOK, ThreadsInPool, StopsAlone,
           AtWork
      <3> QED
        BY <3>3 DEF LastStop
    <2> QED
      BY <2>1, <2>2, <2>3, <2>4
  <1>5. ASSUME NEW c \in Calls, NEW n \in Nodes, NotRun(c, n) PROVE StopInv'
    <2>1. SoloScript'
      BY <1>5 DEF NotRun, Thread, Fails, SoloScript, Kind, TypeOK
    <2>2. StopsAlone'
      BY <1>5 DEF NotRun, Thread, Fails, StopsAlone, TypeOK, AtWork, ThreadsInPool
    <2>3. ReturnedGood'
      BY <1>5 DEF NotRun, Thread, Fails, ReturnedGood, TypeOK, ThreadsInPool
    <2>4. LastStop'
      <3>1. SUFFICES ASSUME \E e \in Stops : pc[e] # "before" PROVE LastStop'
        BY <1>5 DEF NotRun, Thread, Fails, LastStop, TypeOK
      <3>2. PICK e \in Stops : BeganLast(e)
        BY <3>1 DEF LastStop
      <3>3. BeganLast(e)'
        BY <1>5, <3>2 DEF NotRun, Thread, Fails, BeganLast, TypeOK, ThreadsInPool,
           StopsAlone, AtWork
      <3> QED
        BY <3>3 DEF LastStop
    <2> QED
      BY <2>1, <2>2, <2>3, <2>4
  <1>6. ASSUME NEW c \in Calls, NEW n \in Nodes, RunNothing(c, n) PROVE StopInv'
    <2>1. SoloScript'
      BY <1>6 DEF RunNothing, Thread, Kind, SoloScript, TypeOK
    <2>2. StopsAlone'
      BY <1>6 DEF RunNothing, Thread, Kind, StopsAlone, TypeOK, AtWork, ThreadsInPool
    <2>3. ReturnedGood'
      BY <1>6 DEF RunNothing, Thread, Kind, ReturnedGood, TypeOK, ThreadsInPool
    <2>4. LastStop'
      <3>1. SUFFICES ASSUME \E e \in Stops : pc[e] # "before" PROVE LastStop'
        BY <1>6 DEF RunNothing, Thread, Kind, LastStop, TypeOK
      <3>2. PICK e \in Stops : BeganLast(e)
        BY <3>1 DEF LastStop
      <3>3. BeganLast(e)'
        BY <1>6, <3>2 DEF RunNothing, Thread, Kind, BeganLast, TypeOK, ThreadsInPool,
           StopsAlone, AtWork
      <3> QED
        BY <3>3 DEF LastStop
    <2> QED
      BY <2>1, <2>2, <2>3, <2>4
  <1>7. ASSUME NEW n \in Nodes, StartWorker(n) PROVE StopInv'
    <2>1. SoloScript'
      BY <1>7 DEF StartWorker, Thread, Fails, WorkerCommandRan, SoloScript, Kind, TypeOK
    <2>2. StopsAlone'
      <3>1. pc' = pc /\ monitored' = monitored /\ named' = named
        BY <1>7 DEF StartWorker
      <3>2. (Thread(Start, n, "rmon") /\ monitored) \/ Thread(Start, n, "ended")
        BY <1>7 DEF StartWorker, WorkerCommandRan
      <3> QED
        BY <3>1, <3>2 DEF Thread, StopsAlone, TypeOK, AtWork
    <2>3. ReturnedGood'
      BY <1>7 DEF StartWorker, Thread, Fails, WorkerCommandRan, ReturnedGood, TypeOK,
         ThreadsInPool
    <2>4. LastStop'
      <3>1. SUFFICES ASSUME \E e \in Stops : pc[e] # "before" PROVE LastStop'
        BY <1>7 DEF StartWorker, Thread, Fails, WorkerCommandRan, LastStop, TypeOK
      <3>2. PICK e \in Stops : BeganLast(e)
        BY <3>1 DEF LastStop
      <3>3. BeganLast(e)'
        BY <1>7, <3>2 DEF StartWorker, Thread, Fails, WorkerCommandRan, BeganLast,
           TypeOK, ThreadsInPool, StopsAlone, AtWork
      <3> QED
        BY <3>3 DEF LastStop
    <2> QED
      BY <2>1, <2>2, <2>3, <2>4
  <1>8. ASSUME NEW c \in Calls, NEW n \in Nodes, StopWorker(c, n) PROVE StopInv'
    <2>1. SoloScript'
      BY <1>8 DEF StopWorker, Thread, Fails, WorkerCommandRan, SoloScript, Kind, TypeOK
    <2>2. StopsAlone'
      <3>1. pc' = pc /\ monitored' = monitored /\ named' = named
        BY <1>8 DEF StopWorker
      <3>2. (Thread(c, n, "rmon") /\ monitored) \/ Thread(c, n, "ended")
        BY <1>8 DEF StopWorker, WorkerCommandRan
      <3> QED
        BY <3>1, <3>2 DEF Thread, StopsAlone, TypeOK, AtWork
    <2>3. ReturnedGood'
      BY <1>8 DEF StopWorker, Thread, Fails, WorkerCommandRan, ReturnedGood, TypeOK,
         ThreadsInPool
    <2>4. LastStop'
      <3>1. SUFFICES ASSUME \E e \in Stops : pc[e] # "before" PROVE LastStop'
        BY <1>8 DEF StopWorker, Thread, Fails, WorkerCommandRan, LastStop, TypeOK
      <3>2. PICK e \in Stops : BeganLast(e)
        BY <3>1 DEF LastStop
      <3>3. ASSUME NEW k \in Nodes, ssh'[e][k] = "ended", k \notin failures'[e]
            PROVE  k \notin named' /\ (monitored' \/ k \notin workers')
        <4>1. CASE e = c /\ k = n
          <5>1. ~monitored /\ named = {}
            BY <1>8, <3>3, <4>1 DEF StopWorker, Thread, WorkerCommandRan, StopsAlone,
               TypeOK
          <5>2. workers' = workers \ {n}
            BY <1>8, <3>3, <4>1, <5>1 DEF StopWorker, WorkerCommandRan, Fails, TypeOK
          <5> QED
            BY <1>8, <4>1, <5>1, <5>2 DEF StopWorker
        <4>2. CASE ~(e = c /\ k = n)
          <5>1. ssh[e][k] = "ended" /\ k \notin failures[e]
            BY <1>8, <3>3, <4>2 DEF StopWorker, Thread, WorkerCommandRan, Fails, TypeOK
          <5>2. workers' \subseteq workers /\ UNCHANGED <<named, monitored>>
            BY <1>8 DEF StopWorker
          <5> QED
            BY <3>2, <5>1, <5>2 DEF BeganLast
        <4> QED
          BY <4>1, <4>2
      <3>4. BeganLast(e)'
        BY <1>8, <3>2, <3>3 DEF StopWorker, BeganLast
      <3> QED
        BY <3>4 DEF LastStop
    <2> QED
      BY <2>1, <2>2, <2>3, <2>4
  <1>9. ASSUME NEW n \in Nodes, StartRmon(n) PROVE StopInv'
    <2>1. SoloScript'
      BY <1>9 DEF StartRmon, Thread, SoloScript, Kind, TypeOK
    <2>2. StopsAlone'
      BY <1>9 DEF StartRmon, Thread, StopsAlone, TypeOK, AtWork, ThreadsInPool
    <2>3. ReturnedGood'
      BY <1>9 DEF StartRmon, Thread, ReturnedGood, TypeOK, ThreadsInPool
    <2>4. LastStop'
      <3>1. SUFFICES ASSUME \E e \in Stops : pc[e] # "before" PROVE LastStop'
        BY <1>9 DEF StartRmon, Thread, LastStop, TypeOK
      <3>2. PICK e \in Stops : BeganLast(e)
        BY <3>1 DEF LastStop
      <3>3. BeganLast(e)'
        BY <1>9, <3>2 DEF StartRmon, Thread, BeganLast, TypeOK, ThreadsInPool,
           StopsAlone, AtWork
      <3> QED
        BY <3>3 DEF LastStop
    <2> QED
      BY <2>1, <2>2, <2>3, <2>4
  <1>10. ASSUME NEW c \in Calls, NEW n \in Nodes, StopRmon(c, n) PROVE StopInv'
    <2>1. SoloScript'
      BY <1>10 DEF StopRmon, Thread, SoloScript, Kind, TypeOK
    <2>2. StopsAlone'
      BY <1>10 DEF StopRmon, Thread, StopsAlone, TypeOK, AtWork, ThreadsInPool
    <2>3. ReturnedGood'
      BY <1>10 DEF StopRmon, Thread, ReturnedGood, TypeOK, ThreadsInPool
    <2>4. LastStop'
      <3>1. SUFFICES ASSUME \E e \in Stops : pc[e] # "before" PROVE LastStop'
        BY <1>10 DEF StopRmon, Thread, LastStop, TypeOK
      <3>2. PICK e \in Stops : BeganLast(e)
        BY <3>1 DEF LastStop
      <3>3. BeganLast(e)'
        BY <1>10, <3>2 DEF StopRmon, Thread, BeganLast, TypeOK, ThreadsInPool,
           StopsAlone, AtWork
      <3> QED
        BY <3>3 DEF LastStop
    <2> QED
      BY <2>1, <2>2, <2>3, <2>4
  <1>11. ASSUME NEW c \in Calls, Finish(c) PROVE StopInv'
    <2>1. SoloScript'
      BY <1>11 DEF Finish, Drained, Result, Kind, SoloScript, TypeOK
    <2>2. StopsAlone'
      BY <1>11 DEF Finish, Drained, Result, Kind, StopsAlone, TypeOK, AtWork,
         ThreadsInPool
    <2>3. ReturnedGood'
      BY <1>11 DEF Finish, Drained, Result, Kind, ReturnedGood, TypeOK, ThreadsInPool
    <2>4. LastStop'
      <3>1. SUFFICES ASSUME \E e \in Stops : pc[e] # "before" PROVE LastStop'
        BY <1>11 DEF Finish, Drained, Result, Kind, LastStop, TypeOK
      <3>2. PICK e \in Stops : BeganLast(e)
        BY <3>1 DEF LastStop
      <3>3. BeganLast(e)'
        BY <1>11, <3>2 DEF Finish, Drained, Result, Kind, BeganLast, TypeOK,
           ThreadsInPool, StopsAlone, AtWork
      <3> QED
        BY <3>3 DEF LastStop
    <2> QED
      BY <2>1, <2>2, <2>3, <2>4
  <1>12. CASE EmptyConfDir
    <2>1. SoloScript'
      BY <1>12 DEF EmptyConfDir, SoloScript, Kind, TypeOK
    <2>2. StopsAlone'
      BY <1>12 DEF EmptyConfDir, StopsAlone, TypeOK, AtWork, ThreadsInPool
    <2>3. ReturnedGood'
      BY <1>12 DEF EmptyConfDir, ReturnedGood, TypeOK, ThreadsInPool
    <2>4. LastStop'
      <3>1. SUFFICES ASSUME \E e \in Stops : pc[e] # "before" PROVE LastStop'
        BY <1>12 DEF EmptyConfDir, LastStop, TypeOK
      <3>2. PICK e \in Stops : BeganLast(e)
        BY <3>1 DEF LastStop
      <3>3. BeganLast(e)'
        BY <1>12, <3>2 DEF EmptyConfDir, BeganLast, TypeOK, ThreadsInPool, StopsAlone,
           AtWork
      <3> QED
        BY <3>3 DEF LastStop
    <2> QED
      BY <2>1, <2>2, <2>3, <2>4
  <1>13. CASE UNCHANGED vars
    BY <1>13 DEF vars, SoloScript, StopsAlone, LastStop, BeganLast, ReturnedGood, Kind,
       AtWork
  <1> QED
    BY <1>1, <1>2, <1>3, <1>4, <1>5, <1>6, <1>7, <1>8, <1>9, <1>10, <1>11, <1>12, <1>13
       DEF Next, CallStep, ThreadStep, Done

\* What the stops know of each other holds in every reachable state.
THEOREM StopInvariance == Spec => []StopInv
  <1>1. Spec => Init /\ [][Next]_vars
    BY DEF Spec
  <1> QED
    BY <1>1, Invariance, InitStop, NextStop, PTL

\* The script of a call that nobody disturbs is there until its last ssh ended.
THEOREM ScriptsStay == Spec => []ScriptStays
  <1>1. IInv /\ StopInv => ScriptStays
    BY DEF IInv, StopInv, TypeOK, ThreadsInPool, SoloScript, ScriptStays
  <1> QED
    BY <1>1, Invariance, StopInvariance, PTL

\* However many stops overlap, on however many nodes: when all have returned 0,
\* nothing is left that they were to stop.
THEOREM StopsStopAll ==
  ASSUME Stops # {}
  PROVE  Spec => []GoodStopsStopAll
  <1>1. IInv /\ StopInv => GoodStopsStopAll
    <2> SUFFICES ASSUME IInv, StopInv, \A c \in Stops : pc[c] = "returned"
                 PROVE  named = {} /\ (workers = {} \/ monitored)
      BY DEF GoodStopsStopAll
    <2>1. PICK d \in Stops : BeganLast(d)
      BY Stops # {} DEF StopInv, LastStop
    <2>2. failures[d] = {} /\ \A n \in Nodes : ssh[d][n] = "ended"
      BY DEF StopInv, ReturnedGood
    <2> QED
      BY <2>1, <2>2 DEF BeganLast, IInv, TypeOK
  <1> QED
    BY <1>1, Invariance, StopInvariance, PTL
=============================================================================

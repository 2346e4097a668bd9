------------------------- MODULE ReplayPoolProofs -------------------------
(***************************************************************************)
(* Proofs about the worker pool for every number of workers, connections,  *)
(* permits and failures.                                                   *)
(***************************************************************************)
EXTENDS ReplayPool, FiniteSetTheorems, TLAPS

\* What a worker has in its hands when it starts a thread is a connection,
\* and main has not put all of them while it is still putting connections.
Handover ==
  /\ \A w \in Workers : pc[w] = "spawn" => held[w] \in Jobs
  /\ main = "starting" => put = 0
  /\ main = "jobs" => put < NumJobs

TypeInv == TypeOK /\ Handover

---------------------------------------------------------------------------
(* Frames: what the steps of a kind leave alone.                           *)

\* A step of a connection thread, or its failure: the thread existed before
\* and exists after, and neither main, the queue nor a worker changes.
ThreadMoves(j) ==
  /\ thread[j] \notin {"none", "over"} /\ pc[owner[j]] # "killed"
  /\ \E to \in ThreadStates \ {"none"} : thread' = [thread EXCEPT ![j] = to]
  /\ UNCHANGED <<main, put, remaining, queue, pc, held, polled, owner, collected>>

LEMMA ThreadFrame ==
  ASSUME NEW j \in Jobs, ThreadStep(j) \/ PrepareRaises(j) \/ CloseRaises(j)
  PROVE  ThreadMoves(j)
BY DEF ThreadStep, ThreadMoves, PrepareRaises, CloseRaises, Prepare, Connect,
       ConnectFails, ReadNum, WriteInc, Execute, Close, WriteDec, Release, Step,
       ThreadStates, mainVars, workerVars

---------------------------------------------------------------------------
(* Type correctness.                                                       *)

LEMMA InitTypeInv == Init => TypeInv
BY PoolAssumption
   DEF Init, TypeInv, TypeOK, Handover, Jobs, Stop, MainPhases, WorkerStates, ThreadStates

LEMMA MainTypeInv ==
  ASSUME TypeInv, MainStep \/ Sample \/ Interrupt
  PROVE  TypeInv'
<1> USE PoolAssumption DEF TypeInv, TypeOK, Handover, Jobs, Stop, mainVars,
        workerVars, threadVars
<1>1. ASSUME NEW w \in Workers, StartWorker(w) PROVE TypeInv'
  BY <1>1 DEF StartWorker, MainPhases, WorkerStates
<1>2. CASE PutJob
  <2>1. put' \in Jobs
    BY <1>2 DEF PutJob
  <2>2. queue' \in Seq(Jobs \cup {Stop})
    BY <1>2, <2>1 DEF PutJob
  <2>3. QED
    BY <1>2, <2>1, <2>2 DEF PutJob, MainPhases
<1>3. CASE PutStop
  BY <1>3 DEF PutStop, MainPhases
<1>4. CASE GiveUp
  BY <1>4 DEF GiveUp, MainPhases
<1>5. CASE Finish
  BY <1>5 DEF Finish, MainPhases
<1>6. CASE Sample
  BY <1>6 DEF Sample
<1>7. CASE Interrupt
  BY <1>7 DEF Interrupt, MainPhases, WorkerStates
<1>8. QED
  BY <1>1, <1>2, <1>3, <1>4, <1>5, <1>6, <1>7 DEF MainStep

LEMMA WorkerTypeInv ==
  ASSUME TypeInv, NEW w \in Workers, WorkerStep(w) \/ SpawnRaises(w) \/ Kill(w)
  PROVE  TypeInv'
<1> USE PoolAssumption DEF TypeInv, TypeOK, Handover, Stop, mainVars,
        workerVars, threadVars, Goto, WorkerStates, Throttled
<1>1. CASE Acquire(w)
  BY <1>1 DEF Acquire
<1>2. CASE GetJob(w)
  <2>1. Head(queue) \in Jobs /\ Tail(queue) \in Seq(Jobs \cup {Stop})
    BY <1>2 DEF GetJob
  <2>2. QED
    BY <1>2, <2>1 DEF GetJob
<1>3. CASE GetStop(w)
  BY <1>3 DEF GetStop
<1>4. CASE GetEmpty(w)
  <2>1. /\ pc' = [pc EXCEPT ![w] = "acquire"] \/ pc' = [pc EXCEPT ![w] = "join"]
        /\ sem' = (IF Throttled THEN sem + 1 ELSE sem)
        /\ polled' = [polled EXCEPT ![w] = TRUE]
        /\ UNCHANGED <<mainVars, queue, num, peak, held, owner, collected,
                       threadVars, faults>>
    BY <1>4, Zenon DEF GetEmpty
  <2>2. QED
    BY <2>1
<1>5. CASE Spawn(w)
  BY <1>5 DEF Spawn, ThreadStates
<1>6. CASE SpawnRaises(w)
  BY <1>6 DEF SpawnRaises
<1>7. CASE Reap(w)
  BY <1>7 DEF Reap, Pending
<1>8. CASE Join(w)
  BY <1>8 DEF Join, Pending
<1>9. CASE Return(w)
  BY <1>9 DEF Return
<1>10. CASE Kill(w)
  BY <1>10 DEF Kill
<1>11. QED
  BY <1>1, <1>2, <1>3, <1>4, <1>5, <1>6, <1>7, <1>8, <1>9, <1>10 DEF WorkerStep

LEMMA ThreadTypeInv ==
  ASSUME TypeInv, NEW j \in Jobs, ThreadStep(j) \/ PrepareRaises(j) \/ CloseRaises(j)
  PROVE  TypeInv'
<1> USE PoolAssumption DEF TypeInv, TypeOK, Handover, mainVars, workerVars, Step,
        ThreadStates, Throttled
<1>1. CASE Prepare(j)
  BY <1>1 DEF Prepare
<1>2. CASE Connect(j)
  BY <1>2 DEF Connect
<1>3. CASE ConnectFails(j)
  BY <1>3 DEF ConnectFails
<1>4. CASE ReadNum(j)
  BY <1>4 DEF ReadNum
<1>5. CASE WriteInc(j)
  BY <1>5 DEF WriteInc
<1>6. CASE Execute(j)
  BY <1>6 DEF Execute
<1>7. CASE Close(j)
  BY <1>7 DEF Close
<1>8. CASE WriteDec(j)
  BY <1>8 DEF WriteDec
<1>9. CASE Release(j)
  BY <1>9 DEF Release
<1>10. CASE PrepareRaises(j)
  BY <1>10 DEF PrepareRaises
<1>11. CASE CloseRaises(j)
  BY <1>11 DEF CloseRaises
<1>12. QED
  BY <1>1, <1>2, <1>3, <1>4, <1>5, <1>6, <1>7, <1>8, <1>9, <1>10, <1>11 DEF ThreadStep

LEMMA NextTypeInv == TypeInv /\ [Next]_vars => TypeInv'
<1>1. CASE UNCHANGED vars
  BY <1>1 DEF vars, mainVars, workerVars, threadVars, TypeInv, TypeOK, Handover
<1>2. CASE Next
  BY <1>2, MainTypeInv, WorkerTypeInv, ThreadTypeInv DEF Next, Fault
<1>3. QED
  BY <1>1, <1>2

\* Every variable of the pool keeps its type, for any number of workers,
\* connections and permits (start_replay, replay_worker, ConnectionThread).
THEOREM TypeCorrect == Spec => []TypeOK
<1>1. TypeInv => TypeOK
  BY DEF TypeInv
<1>2. QED
  BY <1>1, InitTypeInv, NextTypeInv, PTL DEF Spec

---------------------------------------------------------------------------
(* Permits and the connection limit.                                       *)

LEMMA HoldersFinite ==
  /\ IsFiniteSet(WorkerHolders) /\ Cardinality(WorkerHolders) \in Nat
  /\ IsFiniteSet(ThreadHolders) /\ Cardinality(ThreadHolders) \in Nat
<1>1. IsFiniteSet(Workers) /\ IsFiniteSet(Jobs)
  BY PoolAssumption, FS_Interval DEF Jobs
<1>2. WorkerHolders \in SUBSET Workers /\ ThreadHolders \in SUBSET Jobs
  BY DEF WorkerHolders, ThreadHolders
<1>3. IsFiniteSet(WorkerHolders) /\ IsFiniteSet(ThreadHolders)
  BY <1>1, <1>2, FS_Subset
<1>4. QED
  BY <1>3, FS_CardinalityType

LEMMA AtMostOneMore ==
  ASSUME NEW S, NEW x, IsFiniteSet(S), NEW T \in SUBSET (S \cup {x})
  PROVE  Cardinality(T) \in Nat /\ Cardinality(T) <= Cardinality(S) + 1
<1>1. IsFiniteSet(S \cup {x}) /\ Cardinality(S) \in Nat
  BY FS_AddElement, FS_CardinalityType
<1>2. Cardinality(S \cup {x}) <= Cardinality(S) + 1 /\ Cardinality(S \cup {x}) \in Nat
  BY <1>1, FS_AddElement, FS_CardinalityType
<1>3. Cardinality(T) \in Nat /\ Cardinality(T) <= Cardinality(S \cup {x})
  BY <1>1, FS_Subset, FS_CardinalityType
<1>4. QED
  BY <1>1, <1>2, <1>3

\* Losing permits or holders never breaks the accounting.
LEMMA PermitsShrink ==
  ASSUME TypeOK, PermitAccounting, sem' \in Nat, sem' <= sem,
         WorkerHolders' \subseteq WorkerHolders, ThreadHolders' \subseteq ThreadHolders
  PROVE  PermitAccounting'
<1>1. /\ Cardinality(WorkerHolders') \in Nat
      /\ Cardinality(WorkerHolders') <= Cardinality(WorkerHolders)
      /\ Cardinality(ThreadHolders') \in Nat
      /\ Cardinality(ThreadHolders') <= Cardinality(ThreadHolders)
  BY HoldersFinite, FS_Subset, FS_CardinalityType
<1>2. QED
  BY <1>1, HoldersFinite, PoolAssumption DEF PermitAccounting, TypeOK, Throttled

LEMMA WorkerPermits ==
  ASSUME TypeInv, TypeInv', PermitAccounting,
         NEW w \in Workers, WorkerStep(w) \/ SpawnRaises(w) \/ Kill(w)
  PROVE  PermitAccounting'
<1> USE DEF TypeInv, TypeOK, Goto, WorkerStates, workerVars, threadVars
<1>a. Cardinality(WorkerHolders \ {w}) = IF w \in WorkerHolders
        THEN Cardinality(WorkerHolders) - 1 ELSE Cardinality(WorkerHolders)
  BY HoldersFinite, FS_RemoveElement
<1>1. CASE Acquire(w)
  <2>1. WorkerHolders' = WorkerHolders \cup {w} /\ w \notin WorkerHolders
        /\ ThreadHolders' = ThreadHolders
    BY <1>1 DEF Acquire, WorkerHolders, ThreadHolders
  <2>2. Cardinality(WorkerHolders') = Cardinality(WorkerHolders) + 1
    BY <2>1, HoldersFinite, FS_AddElement
  <2>3. Throttled => sem' = sem - 1
    BY <1>1 DEF Acquire
  <2>4. QED
    BY <2>1, <2>2, <2>3, HoldersFinite DEF PermitAccounting, Throttled
<1>2. CASE GetEmpty(w)
  <2>1. /\ pc[w] = "get" /\ (pc'[w] = "acquire" \/ pc'[w] = "join")
        /\ pc' = [pc EXCEPT ![w] = pc'[w]]
        /\ thread' = thread
    BY <1>2, Zenon DEF GetEmpty
  <2>2. WorkerHolders' = WorkerHolders \ {w} /\ w \in WorkerHolders
        /\ ThreadHolders' = ThreadHolders
    BY <2>1 DEF WorkerHolders, ThreadHolders
  <2>3. Throttled => sem' = sem + 1
    BY <1>2, Zenon DEF GetEmpty
  <2>4. QED
    BY <1>a, <2>2, <2>3, HoldersFinite DEF PermitAccounting, Throttled
<1>3. CASE Spawn(w)
  <2>1. held[w] \in Jobs
    BY <1>3 DEF Spawn, Handover
  <2>2. WorkerHolders' = WorkerHolders \ {w} /\ w \in WorkerHolders
        /\ ThreadHolders' \subseteq ThreadHolders \cup {held[w]}
    BY <1>3, <2>1 DEF Spawn, WorkerHolders, ThreadHolders
  <2>3. /\ Cardinality(ThreadHolders') \in Nat
        /\ Cardinality(ThreadHolders') <= Cardinality(ThreadHolders) + 1
    BY <2>2, HoldersFinite, AtMostOneMore
  <2>4. sem' = sem
    BY <1>3 DEF Spawn
  <2>5. Cardinality(WorkerHolders') = Cardinality(WorkerHolders) - 1
    BY <1>a, <2>2
  <2>6. sem \in Nat
    OBVIOUS
  <2> HIDE DEF TypeInv, TypeOK, workerVars, threadVars
  <2>7. QED
    BY <2>3, <2>4, <2>5, <2>6, HoldersFinite, PoolAssumption
    DEF PermitAccounting, Throttled
<1>4. CASE GetJob(w) \/ GetStop(w) \/ SpawnRaises(w) \/ Reap(w) \/ Join(w)
           \/ Return(w) \/ Kill(w)
  <2>1. sem' = sem /\ thread' = thread
        /\ (pc' = pc \/ pc' = [pc EXCEPT ![w] = pc'[w]])
        /\ (pc'[w] \in {"get", "spawn"} => pc[w] \in {"get", "spawn"})
    BY <1>4 DEF GetJob, GetStop, SpawnRaises, Reap, Join, Return, Kill
  <2>2. WorkerHolders' \subseteq WorkerHolders /\ ThreadHolders' \subseteq ThreadHolders
    BY <2>1 DEF WorkerHolders, ThreadHolders
  <2>3. QED
    BY <2>1, <2>2, PermitsShrink
<1>5. QED
  BY <1>1, <1>2, <1>3, <1>4 DEF WorkerStep

LEMMA ThreadPermits ==
  ASSUME TypeInv, TypeInv', PermitAccounting, NEW j \in Jobs,
         ThreadStep(j) \/ PrepareRaises(j) \/ CloseRaises(j)
  PROVE  PermitAccounting'
<1> USE DEF TypeInv, TypeOK
<1>1. pc' = pc /\ thread[j] \notin {"none", "over"}
      /\ thread' = [thread EXCEPT ![j] = thread'[j]]
  BY ThreadFrame DEF ThreadMoves
<1>2. WorkerHolders' = WorkerHolders /\ j \in ThreadHolders
      /\ ThreadHolders' \subseteq ThreadHolders
  BY <1>1 DEF WorkerHolders, ThreadHolders
<1>3. CASE Release(j)
  <2>1. thread'[j] = "over"
    BY <1>3 DEF Release, Step
  <2>2. ThreadHolders' = ThreadHolders \ {j}
    BY <1>1, <2>1 DEF ThreadHolders
  <2>3. Cardinality(ThreadHolders') = Cardinality(ThreadHolders) - 1
    BY <1>2, <2>2, HoldersFinite, FS_RemoveElement
  <2>4. Throttled => sem' = sem + 1
    BY <1>3 DEF Release
  <2>5. QED
    BY <1>2, <2>3, <2>4, HoldersFinite DEF PermitAccounting, Throttled
<1>4. CASE ~Release(j)
  <2>1. sem' = sem
    BY <1>4 DEF ThreadStep, PrepareRaises, CloseRaises, Prepare, Connect, ConnectFails,
                ReadNum, WriteInc, Execute, Close, WriteDec
  <2>2. QED
    BY <1>2, <2>1, PermitsShrink
<1>5. QED
  BY <1>3, <1>4

LEMMA InitPermits == Init => PermitAccounting
<1> SUFFICES ASSUME Init PROVE PermitAccounting
  OBVIOUS
<1>1. WorkerHolders = {} /\ ThreadHolders = {} /\ sem = Limit
  BY DEF Init, WorkerHolders, ThreadHolders
<1>2. QED
  BY <1>1, FS_EmptySet, PoolAssumption DEF PermitAccounting

LEMMA NextPermits ==
  TypeInv /\ TypeInv' /\ PermitAccounting /\ [Next]_vars => PermitAccounting'
<1> SUFFICES ASSUME TypeInv, TypeInv', PermitAccounting, [Next]_vars
             PROVE  PermitAccounting'
  OBVIOUS
<1>1. CASE UNCHANGED vars \/ MainStep \/ Sample \/ Interrupt
  <2>1. /\ sem' = sem /\ thread' = thread
        /\ \A w \in Workers : pc'[w] \in {"get", "spawn"} => pc[w] \in {"get", "spawn"}
    BY <1>1 DEF vars, workerVars, threadVars, MainStep, StartWorker, PutJob, PutStop,
                GiveUp, Finish, Sample, Interrupt, TypeInv, TypeOK
  <2>2. WorkerHolders' \subseteq WorkerHolders /\ ThreadHolders' \subseteq ThreadHolders
    BY <2>1 DEF WorkerHolders, ThreadHolders
  <2>3. QED
    BY <2>1, <2>2, PermitsShrink DEF TypeInv, TypeOK
<1>2. QED
  BY <1>1, WorkerPermits, ThreadPermits DEF Next, Fault

\* Whatever the interleaving and whatever fails, the free permits of the
\* semaphore and those held by workers and threads are at most the limit.
THEOREM PermitsNeverMadeUp == Spec => []PermitAccounting
BY InitTypeInv, NextTypeInv, InitPermits, NextPermits, PTL DEF Spec

\* The throttle works: limit_concurrent_connections bounds the number of
\* database connections open at any time, over all worker processes.
THEOREM LimitHolds == Spec => []ConcurrencyLimit
<1>1. TypeInv /\ PermitAccounting => ConcurrencyLimit
  <2> SUFFICES ASSUME TypeInv, PermitAccounting, Throttled
               PROVE  Cardinality(Open) <= Limit
    BY DEF ConcurrencyLimit
  <2>1. Open \in SUBSET ThreadHolders
    BY DEF Open, OpenStates, ThreadHolders
  <2>2. Cardinality(Open) \in Nat /\ Cardinality(Open) <= Cardinality(ThreadHolders)
    BY <2>1, HoldersFinite, FS_Subset, FS_CardinalityType
  <2>3. QED
    BY <2>2, HoldersFinite, PoolAssumption DEF PermitAccounting, TypeInv, TypeOK
<1>2. QED
  BY <1>1, InitTypeInv, NextTypeInv, InitPermits, NextPermits, PTL DEF Spec

---------------------------------------------------------------------------
(* One place per job; nothing after the end.                               *)

\* A thread belongs to a worker that was started.
Owned ==
  \A j \in Jobs : thread[j] # "none" => owner[j] \in Workers /\ pc[owner[j]] # "off"

\* A connection is closed after its transactions were replayed, and was
\* replayed if it is being closed.
RanLate ==
  /\ \A j \in ran : thread[j] \in {"close", "dec", "decWrite", "release", "over"}
  /\ \A j \in Jobs : thread[j] = "close" => j \in ran

PlaceInv == JobInOnePlace /\ Owned /\ RanLate

\* The abstract replay of the refinement mapping.
Opened == {j \in Jobs : thread[j] \in OpenStates} \cup ran

LEMMA InitPlace == Init => PlaceInv
BY DEF Init, PlaceInv, JobInOnePlace, Queued, HeldBy, Owned, RanLate, Stop, Jobs

LEMMA MainPlace ==
  ASSUME TypeInv, PlaceInv, MainStep \/ Sample \/ Interrupt
  PROVE  PlaceInv'
<1> USE DEF PlaceInv, mainVars, workerVars, threadVars
<1>1. Owned'
  BY DEF Owned, MainStep, StartWorker, PutJob, PutStop, GiveUp, Finish, Sample,
         Interrupt, TypeInv, TypeOK
<1>2. RanLate'
  BY DEF RanLate, MainStep, StartWorker, PutJob, PutStop, GiveUp, Finish, Sample, Interrupt
<1>3. JobInOnePlace'
  <2>1. CASE PutJob
    <3>1. /\ put' = put + 1 /\ queue' = Append(queue, put + 1)
          /\ put \in Nat /\ queue \in Seq(Jobs \cup {Stop})
          /\ UNCHANGED <<held, thread>>
      BY <2>1 DEF PutJob, TypeInv, TypeOK
    <3>2. /\ DOMAIN queue' = DOMAIN queue \cup {Len(queue) + 1}
          /\ queue'[Len(queue) + 1] = put + 1
          /\ Len(queue) + 1 \notin DOMAIN queue
          /\ \A i \in DOMAIN queue : queue'[i] = queue[i]
      BY <3>1
    <3>3. \A j \in Jobs : j <= put => j # put + 1 /\ j <= put'
      BY <3>1 DEF Jobs
    <3>4. \A j \in Jobs : HeldBy(j)' = HeldBy(j)
      BY <3>1 DEF HeldBy
    <3>5. \A j \in Jobs : Queued(j)' <=> Queued(j) \/ j = put + 1
      BY <3>2 DEF Queued
    <3>6. put + 1 <= put'
      BY <3>1
    <3>7. QED
      <4> SUFFICES ASSUME NEW j \in Jobs
          PROVE  /\ Queued(j)' => HeldBy(j)' = {} /\ thread'[j] = "none" /\ j <= put'
                 /\ \A v, w \in HeldBy(j)' : v = w
                 /\ HeldBy(j)' # {} => thread'[j] = "none" /\ j <= put'
                 /\ thread'[j] # "none" => j <= put'
                 /\ \A i, k \in DOMAIN queue' :
                      queue'[i] = j /\ queue'[k] = j => i = k
        BY DEF JobInOnePlace
      <4>1. CASE j = put + 1
        <5>1. ~(j <= put)
          BY <4>1, <3>1 DEF Jobs
        <5>2. ~Queued(j) /\ HeldBy(j) = {} /\ thread[j] = "none"
          BY <5>1 DEF JobInOnePlace
        <5>3. \A i \in DOMAIN queue : queue[i] # j
          BY <5>2 DEF Queued
        <5>4. QED
          BY <5>2, <5>3, <4>1, <3>1, <3>2, <3>4, <3>6
      <4>2. CASE j # put + 1
        BY <4>2, <3>1, <3>2, <3>3, <3>4, <3>5 DEF JobInOnePlace
      <4>3. QED
        BY <4>1, <4>2
  <2>2. CASE PutStop
    <3>1. /\ put' = put + 1 /\ queue' = Append(queue, Stop)
          /\ put \in Nat /\ queue \in Seq(Jobs \cup {Stop})
          /\ UNCHANGED <<held, thread>>
      BY <2>2 DEF PutStop, TypeInv, TypeOK
    <3>2. /\ DOMAIN queue' = DOMAIN queue \cup {Len(queue) + 1}
          /\ queue'[Len(queue) + 1] = Stop
          /\ \A i \in DOMAIN queue : queue'[i] = queue[i]
      BY <3>1
    <3>3. \A j \in Jobs : j # Stop /\ (j <= put => j <= put')
      BY <3>1 DEF Jobs, Stop
    <3>4. \A j \in Jobs : HeldBy(j)' = HeldBy(j) /\ (Queued(j)' <=> Queued(j))
      BY <3>1, <3>2, <3>3 DEF HeldBy, Queued
    <3>5. QED
      BY <3>1, <3>2, <3>3, <3>4 DEF JobInOnePlace
  <2>3. CASE Finish
    BY <2>3 DEF Finish, JobInOnePlace, Queued, HeldBy
  <2>4. CASE Sample \/ Interrupt \/ GiveUp \/ \E w \in Workers : StartWorker(w)
    <3>1. UNCHANGED <<put, queue, held, thread>>
      BY <2>4 DEF Sample, Interrupt, GiveUp, StartWorker
    <3>2. QED
      BY <3>1 DEF JobInOnePlace, Queued, HeldBy
  <2>5. QED
    BY <2>1, <2>2, <2>3, <2>4 DEF MainStep
<1>4. QED
  BY <1>1, <1>2, <1>3

LEMMA WorkerPlace ==
  ASSUME TypeInv, PlaceInv, NEW w \in Workers, WorkerStep(w) \/ SpawnRaises(w) \/ Kill(w)
  PROVE  PlaceInv'
<1> USE DEF PlaceInv
<1>1. CASE GetJob(w)
  <2>1. /\ queue # <<>> /\ Head(queue) # Stop /\ queue \in Seq(Jobs \cup {Stop})
        /\ queue' = Tail(queue) /\ held' = [held EXCEPT ![w] = Head(queue)]
        /\ held \in [Workers -> Jobs \cup {Stop}]
        /\ pc \in [Workers -> WorkerStates] /\ pc' = [pc EXCEPT ![w] = "spawn"]
        /\ UNCHANGED <<put, owner, thread, ran>>
    BY <1>1 DEF GetJob, Goto, TypeInv, TypeOK, mainVars, threadVars
  <2>2. /\ 1 \in DOMAIN queue /\ queue[1] = Head(queue) /\ Head(queue) \in Jobs
        /\ \A i \in DOMAIN queue' : i + 1 \in DOMAIN queue /\ i + 1 # 1
                                    /\ queue'[i] = queue[i + 1] /\ i \in Nat
    BY <2>1
  <2>3. \A j \in Jobs : Queued(j)' => Queued(j) /\ j # Head(queue)
    BY <2>2 DEF Queued, JobInOnePlace
  <2>4. \A j \in Jobs : HeldBy(j)' \subseteq HeldBy(j) \cup {w}
                        /\ (j # Head(queue) => HeldBy(j)' \subseteq HeldBy(j))
    BY <2>1 DEF HeldBy
  <2>5. Queued(Head(queue))
    BY <2>2 DEF Queued
  <2>6. HeldBy(Head(queue)) = {} /\ thread[Head(queue)] = "none" /\ Head(queue) <= put
    BY <2>2, <2>5 DEF JobInOnePlace
  <2>7. \A j \in Jobs : \A i, k \in DOMAIN queue' :
          queue'[i] = j /\ queue'[k] = j => i = k
    <3> SUFFICES ASSUME NEW j \in Jobs, NEW i \in DOMAIN queue', NEW k \in DOMAIN queue',
                        queue'[i] = j, queue'[k] = j
                 PROVE  i = k
      OBVIOUS
    <3>1. i + 1 = k + 1
      BY <2>2 DEF JobInOnePlace
    <3>2. QED
      BY <3>1, <2>2
  <2>8. JobInOnePlace'
    <3> SUFFICES ASSUME NEW j \in Jobs
        PROVE  /\ Queued(j)' => HeldBy(j)' = {} /\ thread'[j] = "none" /\ j <= put'
               /\ \A u, v \in HeldBy(j)' : u = v
               /\ HeldBy(j)' # {} => thread'[j] = "none" /\ j <= put'
               /\ thread'[j] # "none" => j <= put'
      BY <2>7 DEF JobInOnePlace
    <3>1. CASE j = Head(queue)
      BY <3>1, <2>1, <2>3, <2>4, <2>6
    <3>2. CASE j # Head(queue)
      BY <3>2, <2>1, <2>3, <2>4 DEF JobInOnePlace
    <3>3. QED
      BY <3>1, <3>2
  <2>9. Owned' /\ RanLate'
    BY <2>1 DEF Owned, RanLate
  <2>10. QED
    BY <2>8, <2>9
<1>2. CASE GetStop(w)
  <2>1. /\ queue # <<>> /\ queue \in Seq(Jobs \cup {Stop})
        /\ queue' = Tail(queue)
        /\ pc \in [Workers -> WorkerStates] /\ pc' = [pc EXCEPT ![w] = "join"]
        /\ UNCHANGED <<put, owner, thread, ran, held>>
    BY <1>2 DEF GetStop, Goto, TypeInv, TypeOK, mainVars, threadVars
  <2>2. \A i \in DOMAIN queue' : i + 1 \in DOMAIN queue
                                 /\ queue'[i] = queue[i + 1] /\ i \in Nat
    BY <2>1
  <2>3. \A j \in Jobs : HeldBy(j)' = HeldBy(j) /\ (Queued(j)' => Queued(j))
    BY <2>1, <2>2 DEF HeldBy, Queued
  <2>4. \A j \in Jobs : \A i, k \in DOMAIN queue' :
          queue'[i] = j /\ queue'[k] = j => i = k
    <3> SUFFICES ASSUME NEW j \in Jobs, NEW i \in DOMAIN queue', NEW k \in DOMAIN queue',
                        queue'[i] = j, queue'[k] = j
                 PROVE  i = k
      OBVIOUS
    <3>1. i + 1 = k + 1
      BY <2>2 DEF JobInOnePlace
    <3>2. QED
      BY <3>1, <2>2
  <2>5. JobInOnePlace'
    BY <2>1, <2>3, <2>4 DEF JobInOnePlace
  <2>6. Owned' /\ RanLate'
    BY <2>1 DEF Owned, RanLate
  <2>7. QED
    BY <2>5, <2>6
<1>3. CASE Spawn(w)
  <2>1. /\ held[w] \in Jobs /\ w \in HeldBy(held[w])
        /\ thread' = [thread EXCEPT ![held[w]] = "setup"]
        /\ owner' = [owner EXCEPT ![held[w]] = w]
        /\ held' = [held EXCEPT ![w] = Stop]
        /\ held \in [Workers -> Jobs \cup {Stop}]
        /\ pc \in [Workers -> WorkerStates] /\ pc' = [pc EXCEPT ![w] = "reap"]
        /\ thread \in [Jobs -> ThreadStates] /\ owner \in [Jobs -> Workers \cup {NoWorker}]
        /\ UNCHANGED <<put, queue, ran>> /\ ran \subseteq Jobs
    BY <1>3 DEF Spawn, Goto, TypeInv, TypeOK, Handover, HeldBy, mainVars
  <2>2. thread[held[w]] = "none" /\ ~Queued(held[w]) /\ held[w] <= put
        /\ \A v \in HeldBy(held[w]) : v = w
    BY <2>1 DEF JobInOnePlace
  <2>3. \A j \in Jobs : j # Stop /\ (Queued(j)' <=> Queued(j))
    BY <2>1 DEF Queued, Jobs, Stop
  <2>4. \A j \in Jobs : HeldBy(j)' = HeldBy(j) \ {w}
    BY <2>1, <2>3 DEF HeldBy
  <2>5. JobInOnePlace'
    <3> SUFFICES ASSUME NEW j \in Jobs
        PROVE  /\ Queued(j)' => HeldBy(j)' = {} /\ thread'[j] = "none" /\ j <= put'
               /\ \A u, v \in HeldBy(j)' : u = v
               /\ HeldBy(j)' # {} => thread'[j] = "none" /\ j <= put'
               /\ thread'[j] # "none" => j <= put'
               /\ \A i, k \in DOMAIN queue' : queue'[i] = j /\ queue'[k] = j => i = k
      BY DEF JobInOnePlace
    <3>1. CASE j = held[w]
      BY <3>1, <2>1, <2>2, <2>3, <2>4 DEF JobInOnePlace
    <3>2. CASE j # held[w]
      BY <3>2, <2>1, <2>3, <2>4 DEF JobInOnePlace
    <3>3. QED
      BY <3>1, <3>2
  <2>6. Owned'
    BY <2>1 DEF Owned
  <2>7. RanLate'
    BY <2>1, <2>2 DEF RanLate
  <2>8. QED
    BY <2>5, <2>6, <2>7
<1>4. CASE Acquire(w) \/ GetEmpty(w) \/ SpawnRaises(w) \/ Reap(w) \/ Join(w)
           \/ Return(w) \/ Kill(w)
  <2>1. /\ UNCHANGED <<put, queue, owner, thread, ran>>
        /\ held' = held \/ held' = [held EXCEPT ![w] = Stop]
    BY <1>4 DEF Acquire, GetEmpty, SpawnRaises, Reap, Join, Return, Kill, mainVars, threadVars
  <2>2. pc' = pc \/ \E to \in WorkerStates \ {"off"} : pc' = [pc EXCEPT ![w] = to]
    BY <1>4 DEF Acquire, GetEmpty, SpawnRaises, Reap, Join, Return, Kill, Goto, WorkerStates
  <2>3. held \in [Workers -> Jobs \cup {Stop}] /\ pc \in [Workers -> WorkerStates]
    BY DEF TypeInv, TypeOK
  <2>4. \A j \in Jobs : HeldBy(j)' \subseteq HeldBy(j) /\ (Queued(j)' <=> Queued(j))
    BY <2>1, <2>3 DEF HeldBy, Queued, Jobs, Stop
  <2>5. JobInOnePlace'
    BY <2>1, <2>4 DEF JobInOnePlace
  <2>6. Owned' /\ RanLate'
    BY <2>1, <2>2, <2>3 DEF Owned, RanLate
  <2>7. QED
    BY <2>5, <2>6
<1>5. QED
  BY <1>1, <1>2, <1>3, <1>4 DEF WorkerStep

LEMMA ThreadPlace ==
  ASSUME TypeInv, PlaceInv, NEW j \in Jobs,
         ThreadStep(j) \/ PrepareRaises(j) \/ CloseRaises(j)
  PROVE  PlaceInv'
<1> USE DEF PlaceInv
<1>1. ThreadMoves(j) /\ thread \in [Jobs -> ThreadStates]
  BY ThreadFrame DEF TypeInv, TypeOK
<1>2. JobInOnePlace'
  BY <1>1 DEF JobInOnePlace, ThreadMoves, Queued, HeldBy
<1>3. Owned'
  BY <1>1 DEF Owned, ThreadMoves
<1>4. RanLate'
  BY <1>1 DEF RanLate, TypeInv, TypeOK, ThreadStep, PrepareRaises, CloseRaises, Prepare,
       Connect, ConnectFails, ReadNum, WriteInc, Execute, Close, WriteDec, Release, Step
<1>5. QED
  BY <1>2, <1>3, <1>4

LEMMA NextPlace == TypeInv /\ PlaceInv /\ [Next]_vars => PlaceInv'
<1>1. CASE UNCHANGED vars
  BY <1>1 DEF vars, mainVars, workerVars, threadVars, PlaceInv, JobInOnePlace, Queued,
              HeldBy, Owned, RanLate
<1>2. CASE Next
  BY <1>2, MainPlace, WorkerPlace, ThreadPlace DEF Next, Fault
<1>3. QED
  BY <1>1, <1>2

\* No connection is replayed twice or handed to two workers: its job is in one
\* place only, through every put, get, time-out, kill and Control-C.
THEOREM JobsStayInOnePlace == Spec => []JobInOnePlace
<1>1. PlaceInv => JobInOnePlace
  BY DEF PlaceInv
<1>2. QED
  BY <1>1, InitTypeInv, NextTypeInv, InitPlace, NextPlace, PTL DEF Spec

---------------------------------------------------------------------------
(* The end of the replay.                                                  *)

\* start_replay() is left only when no child process is alive.
NobodyLeft == main \in {"complete", "incomplete"} => ActiveWorkers = {}

\* A thread that can take a step keeps its worker process alive.
LEMMA ThreadKeepsAlive ==
  ASSUME TypeInv, Owned, NEW j \in Jobs, thread[j] \notin {"none", "over"},
         pc[owner[j]] # "killed"
  PROVE  ActiveWorkers # {}
<1>1. owner[j] \in Workers /\ pc[owner[j]] \notin {"off", "killed"}
  BY DEF Owned
<1>2. Alive(owner[j])
  BY <1>1 DEF Alive
<1>3. QED
  BY <1>1, <1>2 DEF ActiveWorkers

\* After the end nothing can happen at all.
LEMMA NothingAfterEnd ==
  ASSUME TypeInv, PlaceInv, NobodyLeft, main \in {"complete", "incomplete"}, Next
  PROVE  FALSE
<1>1. ActiveWorkers = {} /\ \A w \in Workers : ~Alive(w)
  BY DEF NobodyLeft, ActiveWorkers
<1>2. ASSUME NEW j \in Jobs, ThreadStep(j) \/ PrepareRaises(j) \/ CloseRaises(j)
      PROVE  FALSE
  BY <1>1, <1>2, ThreadFrame, ThreadKeepsAlive DEF ThreadMoves, PlaceInv
<1>3. ASSUME NEW w \in Workers, WorkerStep(w) \/ SpawnRaises(w) \/ Kill(w)
      PROVE  FALSE
  <2>1. pc[w] \in {"off", "killed", "finished"}
    BY <1>1 DEF Alive, TypeInv, TypeOK
  <2>2. QED
    BY <1>1, <1>3, <2>1, Zenon DEF WorkerStep, Acquire, GetJob, GetStop, GetEmpty, Spawn,
       SpawnRaises, Reap, Join, Return, Kill, Goto
<1>4. ~(MainStep \/ Sample \/ Interrupt)
  BY DEF MainStep, StartWorker, PutJob, PutStop, GiveUp, Finish, Sample, Interrupt
<1>5. QED
  BY <1>2, <1>3, <1>4 DEF Next, Fault

LEMMA NextNobodyLeft ==
  TypeInv /\ PlaceInv /\ NobodyLeft /\ [Next]_vars => NobodyLeft'
<1> SUFFICES ASSUME TypeInv, PlaceInv, NobodyLeft, [Next]_vars PROVE NobodyLeft'
  OBVIOUS
<1>1. CASE UNCHANGED vars
  BY <1>1 DEF vars, mainVars, workerVars, threadVars, NobodyLeft, ActiveWorkers, Alive
<1>2. CASE main \in {"complete", "incomplete"} /\ Next
  BY <1>2, NothingAfterEnd
<1>3. CASE Finish
  BY <1>3 DEF Finish, NobodyLeft, ActiveWorkers, Alive, workerVars, threadVars
<1>4. CASE Interrupt
  <2>1. /\ pc' = [w \in Workers |-> IF Alive(w) THEN "killed" ELSE pc[w]]
        /\ UNCHANGED <<owner, thread>>
    BY <1>4 DEF Interrupt, threadVars
  <2>2. \A w \in Workers : ~Alive(w)'
    BY <2>1 DEF Alive
  <2>3. QED
    BY <2>2 DEF NobodyLeft, ActiveWorkers
<1>5. CASE main \notin {"complete", "incomplete"} /\ Next /\ ~Finish /\ ~Interrupt
  <2>1. ASSUME MainStep \/ Sample PROVE main' \notin {"complete", "incomplete"}
    BY <1>5, <2>1 DEF MainStep, StartWorker, PutJob, PutStop, GiveUp, Sample, mainVars
  <2>2. ASSUME NEW j \in Jobs, ThreadStep(j) \/ PrepareRaises(j) \/ CloseRaises(j)
        PROVE  main' = main
    BY <2>2, ThreadFrame DEF ThreadMoves
  <2>3. ASSUME NEW w \in Workers, WorkerStep(w) \/ SpawnRaises(w) \/ Kill(w)
        PROVE  main' = main
    BY <2>3 DEF WorkerStep, Acquire, GetJob, GetStop, GetEmpty, Spawn,
       SpawnRaises, Reap, Join, Return, Kill, mainVars
  <2>4. main' \notin {"complete", "incomplete"}
    BY <1>5, <2>1, <2>2, <2>3 DEF Next, Fault
  <2>5. QED
    BY <2>4 DEF NobodyLeft
<1>6. QED
  BY <1>1, <1>2, <1>3, <1>4, <1>5

LEMMA InitNobodyLeft == Init => NobodyLeft
BY DEF Init, NobodyLeft

\* Once start_replay() has returned, no thread of any worker runs on: the
\* numbers of the report are final.
THEOREM ReportIsFinal == Spec => QuietAfterComplete
<1>1. TypeInv /\ PlaceInv /\ NobodyLeft /\ [Next]_vars
        => [main = "complete" => UNCHANGED <<thread, num, sem>>]_vars
  BY NothingAfterEnd
<1>2. QED
  BY <1>1, InitTypeInv, NextTypeInv, InitPlace, NextPlace, InitNobodyLeft,
     NextNobodyLeft, PTL DEF Spec, QuietAfterComplete

---------------------------------------------------------------------------
(* What a complete replay reports.                                         *)

LateStates == {"dec", "decWrite", "release", "over"}

\* A connection error is logged on the way to the end of the thread; unless
\* something fails around it, a thread that ends has replayed or logged; and
\* only threads that ended are collected.
StatsInv ==
  /\ \A j \in errored : thread[j] \in LateStates
  /\ faults = 0 => \A j \in Jobs : thread[j] \in LateStates => (j \in ran <=> j \notin errored)
  /\ \A j \in collected : thread[j] = "over"

Calm == faults = 0 /\ main # "incomplete"

\* A worker that nothing disturbs lets go of its job only to a thread, and
\* returns with nothing left to join.
Disturbed(w) ==
  \/ pc[w] = "killed"
  \/ held[w] # Stop /\ pc[w] # "spawn"
  \/ pc[w] = "finished" /\ Pending(w) # {}

WorkersInv == Calm => \A w \in Workers : ~Disturbed(w)

\* No job that was put is dropped, except with the queue at the very end.
Placed(j) == Queued(j) \/ HeldBy(j) # {} \/ thread[j] # "none"
DroppedInv ==
  Calm /\ (main = "complete" => remaining = 0) => \A j \in Jobs : j <= put => Placed(j)

\* The main process puts all jobs, or finds the queue full and nobody alive.
AllPut ==
  /\ main \in {"stops", "waiting"} =>
       put >= NumJobs \/ (ActiveWorkers = {} /\ Len(queue) = QueueSize)
  /\ main = "complete" => queue = <<>> /\ (remaining = 0 => put >= NumJobs)

AccountInv == StatsInv /\ WorkersInv /\ DroppedInv /\ AllPut

LEMMA ThreadStats ==
  ASSUME TypeInv, PlaceInv, StatsInv, NEW j \in Jobs,
         ThreadStep(j) \/ PrepareRaises(j) \/ CloseRaises(j)
  PROVE  StatsInv'
<1> USE DEF PlaceInv, RanLate, StatsInv, LateStates, mainVars, workerVars, Step
<1>1. /\ thread \in [Jobs -> ThreadStates] /\ faults \in Nat /\ errored \subseteq Jobs
      /\ ran \subseteq Jobs /\ collected \subseteq Jobs
  BY PoolAssumption DEF TypeInv, TypeOK
<1>2. CASE Prepare(j) \/ Connect(j) \/ WriteInc(j) \/ WriteDec(j) \/ Release(j)
  BY <1>1, <1>2 DEF Prepare, Connect, WriteInc, WriteDec, Release
<1>3. CASE ConnectFails(j)
  BY <1>1, <1>3 DEF ConnectFails
<1>4. CASE ReadNum(j)
  BY <1>1, <1>4 DEF ReadNum
<1>5. CASE Execute(j) \/ Close(j)
  BY <1>1, <1>5 DEF Execute, Close
<1>6. CASE PrepareRaises(j) \/ CloseRaises(j)
  BY <1>1, <1>6 DEF PrepareRaises, CloseRaises
<1>7. QED
  BY <1>2, <1>3, <1>4, <1>5, <1>6 DEF ThreadStep

LEMMA WorkerStats ==
  ASSUME TypeInv, PlaceInv, StatsInv, NEW w \in Workers,
         WorkerStep(w) \/ SpawnRaises(w) \/ Kill(w)
  PROVE  StatsInv'
<1> USE DEF StatsInv, LateStates, mainVars, threadVars
<1>1. /\ thread \in [Jobs -> ThreadStates] /\ faults \in Nat /\ errored \subseteq Jobs
      /\ ran \subseteq Jobs /\ collected \subseteq Jobs
  BY PoolAssumption DEF TypeInv, TypeOK
<1>2. CASE Spawn(w)
  <2>1. held[w] \in Jobs /\ thread[held[w]] = "none"
    BY <1>2 DEF Spawn, Goto, TypeInv, Handover, PlaceInv, JobInOnePlace, HeldBy
  <2>2. /\ thread' = [thread EXCEPT ![held[w]] = "setup"]
        /\ UNCHANGED <<errored, ran, collected, faults>>
    BY <1>2 DEF Spawn
  <2>3. QED
    BY <1>1, <2>1, <2>2
<1>3. CASE Reap(w) \/ Join(w)
  BY <1>1, <1>3 DEF Reap, Join, Pending
<1>4. CASE Acquire(w) \/ GetJob(w) \/ GetStop(w) \/ GetEmpty(w) \/ Return(w)
  BY <1>1, <1>4 DEF Acquire, GetJob, GetStop, GetEmpty, Return
<1>5. CASE SpawnRaises(w) \/ Kill(w)
  BY <1>1, <1>5 DEF SpawnRaises, Kill
<1>6. QED
  BY <1>2, <1>3, <1>4, <1>5 DEF WorkerStep

\* Who is alive when everybody has gone stays the same.
LEMMA NobodyMoves ==
  ASSUME TypeInv, PlaceInv, ActiveWorkers = {}, main \in {"stops", "waiting"}, Next
  PROVE  \/ PutStop \/ GiveUp \/ Sample \/ Finish \/ Interrupt
<1>1. \A w \in Workers : ~Alive(w)
  BY DEF ActiveWorkers
<1>2. ASSUME NEW j \in Jobs, ThreadStep(j) \/ PrepareRaises(j) \/ CloseRaises(j)
      PROVE  FALSE
  BY <1>1, <1>2, ThreadFrame, ThreadKeepsAlive DEF ThreadMoves, PlaceInv
<1>3. ASSUME NEW w \in Workers, WorkerStep(w) \/ SpawnRaises(w) \/ Kill(w)
      PROVE  FALSE
  <2>1. pc[w] \in {"off", "killed", "finished"}
    BY <1>1 DEF Alive, TypeInv, TypeOK
  <2>2. QED
    BY <1>1, <1>3, <2>1, Zenon DEF WorkerStep, Acquire, GetJob, GetStop, GetEmpty, Spawn,
       SpawnRaises, Reap, Join, Return, Kill, Goto
<1>4. ~PutJob /\ \A w \in Workers : ~StartWorker(w)
  BY DEF PutJob, StartWorker
<1>5. QED
  BY <1>2, <1>3, <1>4 DEF Next, Fault, MainStep

\* Who changes the phase of main.
LEMMA MainOnly ==
  ASSUME Next, ~MainStep, ~Interrupt
  PROVE  main' = main /\ put' = put
<1>1. ASSUME NEW j \in Jobs, ThreadStep(j) \/ PrepareRaises(j) \/ CloseRaises(j)
      PROVE  main' = main /\ put' = put
  BY <1>1, ThreadFrame DEF ThreadMoves
<1>2. ASSUME NEW w \in Workers, WorkerStep(w) \/ SpawnRaises(w) \/ Kill(w)
      PROVE  main' = main /\ put' = put
  BY <1>2 DEF WorkerStep, Acquire, GetJob, GetStop, GetEmpty, Spawn,
     SpawnRaises, Reap, Join, Return, Kill, mainVars
<1>3. QED
  BY <1>1, <1>2 DEF Next, Fault, Sample, mainVars

LEMMA MainEnds ==
  ASSUME Next, main # "complete", main' = "complete"
  PROVE  Finish
BY MainOnly DEF MainStep, StartWorker, PutJob, PutStop, GiveUp, Interrupt

LEMMA MainEnters ==
  ASSUME Next, main \in {"starting", "jobs"}, main' \in {"stops", "waiting"}
  PROVE  PutJob \/ GiveUp
BY MainOnly DEF MainStep, StartWorker, PutStop, Finish, Interrupt

LEMMA AllPutStep ==
  ASSUME TypeInv, PlaceInv, NobodyLeft, AllPut, Next
  PROVE  AllPut'
<1>1. /\ put \in Nat /\ NumJobs \in Nat /\ QueueSize \in Nat \ {0}
      /\ queue \in Seq(Jobs \cup {Stop}) /\ main \in MainPhases
  BY PoolAssumption DEF TypeInv, TypeOK
<1>2. CASE main \in {"complete", "incomplete"}
  BY <1>2, NothingAfterEnd
<1>3. CASE main \in {"stops", "waiting"} /\ ActiveWorkers = {} /\ Len(queue) = QueueSize
  <2>1. GiveUp \/ Sample \/ Finish \/ Interrupt
    BY <1>1, <1>3, NobodyMoves DEF PutStop
  <2>2. CASE GiveUp \/ Sample
    <3>1. /\ UNCHANGED <<pc, owner, thread, queue, put>>
      BY <2>2 DEF GiveUp, Sample, mainVars, workerVars, threadVars
    <3>2. ActiveWorkers' = {} /\ Len(queue') = QueueSize
      BY <1>3, <3>1 DEF ActiveWorkers, Alive
    <3>3. main' # "complete"
      BY <1>3, <2>2 DEF GiveUp, Sample, mainVars
    <3>4. QED
      BY <3>2, <3>3 DEF AllPut
  <2>3. CASE Finish
    BY <1>1, <1>3, <2>3 DEF Finish, AllPut
  <2>4. CASE Interrupt
    BY <2>4 DEF Interrupt, AllPut
  <2>5. QED
    BY <2>1, <2>2, <2>3, <2>4
<1>4. CASE main \in {"stops", "waiting"} /\ put >= NumJobs
  <2>1. put' >= put
    <3>1. put' = put \/ put' = put + 1
      BY MainOnly DEF MainStep, StartWorker, PutJob, PutStop, GiveUp, Finish, Interrupt, mainVars
    <3>2. QED
      BY <1>1, <3>1
  <2>2. put' \in Nat /\ put' >= NumJobs
    BY <1>1, <1>4, <2>1, NextTypeInv DEF TypeInv, TypeOK
  <2>3. main' = "complete" => queue' = <<>>
    BY <1>4, MainEnds DEF Finish
  <2>4. QED
    BY <2>2, <2>3 DEF AllPut
<1>5. CASE main \in {"starting", "jobs"}
  <2>1. main' # "complete"
    BY <1>5, MainEnds DEF Finish
  <2>2. ASSUME main' \in {"stops", "waiting"}
        PROVE  put' >= NumJobs \/ (ActiveWorkers' = {} /\ Len(queue') = QueueSize)
    <3>1. PutJob \/ GiveUp
      BY <1>5, <2>2, MainEnters
    <3>2. CASE PutJob
      BY <1>1, <1>5, <2>2, <3>2 DEF PutJob
    <3>3. CASE GiveUp
      BY <3>3 DEF GiveUp, ActiveWorkers, Alive, workerVars, threadVars
    <3>4. QED
      BY <3>1, <3>2, <3>3
  <2>3. QED
    BY <2>1, <2>2 DEF AllPut
<1>6. QED
  BY <1>1, <1>2, <1>3, <1>4, <1>5 DEF AllPut, MainPhases

LEMMA StillCalm ==
  ASSUME TypeInv, PlaceInv, NobodyLeft, Next, Calm'
  PROVE  Calm /\ ~Interrupt /\ ~Fault
<1>1. main # "incomplete"
  BY NothingAfterEnd
<1>2. ~Interrupt
  BY DEF Interrupt, Calm
<1>3. faults \in Nat
  BY PoolAssumption DEF TypeInv, TypeOK
<1>4. ~Fault
  BY <1>3 DEF Fault, SpawnRaises, Kill, PrepareRaises, CloseRaises, Calm
<1>5. faults' = faults
  BY <1>2, <1>4 DEF Next, MainStep, StartWorker, PutJob, PutStop, GiveUp, Finish, Sample,
     WorkerStep, Acquire, GetJob, GetStop, GetEmpty, Spawn, Reap, Join, Return,
     ThreadStep, Prepare, Connect, ConnectFails, ReadNum, WriteInc, Execute, Close,
     WriteDec, Release
<1>6. QED
  BY <1>1, <1>2, <1>4, <1>5 DEF Calm

LEMMA WorkersStep ==
  ASSUME TypeInv, PlaceInv, NobodyLeft, WorkersInv, Next
  PROVE  WorkersInv'
<1> SUFFICES ASSUME Calm', NEW v \in Workers
             PROVE  ~Disturbed(v)'
  BY DEF WorkersInv
<1> USE DEF Disturbed, Pending, mainVars, threadVars
<1>1. /\ ~Interrupt /\ ~Fault /\ ~Disturbed(v)
      /\ pc \in [Workers -> WorkerStates] /\ held \in [Workers -> Jobs \cup {Stop}]
      /\ owner \in [Jobs -> Workers \cup {NoWorker}]
  BY StillCalm DEF WorkersInv, TypeInv, TypeOK
<1>2. CASE \E w \in Workers : StartWorker(w)
  BY <1>1, <1>2 DEF StartWorker
<1>3. CASE PutJob \/ PutStop \/ GiveUp \/ Finish \/ Sample
  BY <1>1, <1>3 DEF PutJob, PutStop, GiveUp, Finish, Sample, workerVars
<1>4. ASSUME NEW j \in Jobs, ThreadStep(j)
      PROVE  ~Disturbed(v)'
  BY <1>1, <1>4, ThreadFrame DEF ThreadMoves
<1>5. ASSUME NEW w \in Workers, WorkerStep(w)
      PROVE  ~Disturbed(v)'
  <2>1. ~Disturbed(w)
    BY StillCalm DEF WorkersInv
  <2>2. CASE GetJob(w)
    BY <1>1, <2>1, <2>2 DEF GetJob, Goto
  <2>3. CASE Spawn(w)
    <3>1. /\ pc' = [pc EXCEPT ![w] = "reap"] /\ pc[w] = "spawn"
          /\ held' = [held EXCEPT ![w] = Stop] /\ held[w] \in Jobs
          /\ owner' = [owner EXCEPT ![held[w]] = w] /\ collected' = collected
      BY <2>3 DEF Spawn, Goto, TypeInv, Handover
    <3>2. CASE v = w
      BY <1>1, <3>1, <3>2
    <3>3. CASE v # w
      BY <1>1, <3>1, <3>3
    <3>4. QED
      BY <3>2, <3>3
  <2>4. CASE Acquire(w) \/ GetStop(w) \/ GetEmpty(w)
    BY <1>1, <2>1, <2>4 DEF Acquire, GetStop, GetEmpty, Goto
  <2>5. CASE Reap(w) \/ Join(w)
    BY <1>1, <2>1, <2>5 DEF Reap, Join, Goto
  <2>6. CASE Return(w)
    BY <1>1, <2>1, <2>6 DEF Return, Goto
  <2>7. QED
    BY <1>5, <2>2, <2>3, <2>4, <2>5, <2>6 DEF WorkerStep
<1>6. QED
  BY <1>1, <1>2, <1>3, <1>4, <1>5 DEF Next, MainStep

LEMMA DroppedStep ==
  ASSUME TypeInv, PlaceInv, NobodyLeft, WorkersInv, AllPut, DroppedInv, Next
  PROVE  DroppedInv'
<1> SUFFICES ASSUME Calm', main' = "complete" => remaining' = 0,
                    NEW j \in Jobs, j <= put'
             PROVE  Placed(j)'
  BY DEF DroppedInv
<1>1. /\ Calm /\ ~Interrupt /\ ~Fault
      /\ pc \in [Workers -> WorkerStates] /\ held \in [Workers -> Jobs \cup {Stop}]
      /\ thread \in [Jobs -> ThreadStates] /\ queue \in Seq(Jobs \cup {Stop})
      /\ put \in Nat /\ j \in Nat /\ j # Stop /\ j <= NumJobs /\ NumJobs \in Nat
  BY StillCalm, PoolAssumption DEF TypeInv, TypeOK, Jobs, Stop
<1>2. main # "complete"
  BY NothingAfterEnd
<1>3. j <= put => Placed(j)
  BY <1>1, <1>2 DEF DroppedInv
<1>4. CASE PutJob
  <2>1. /\ put' = put + 1 /\ queue' = Append(queue, put + 1) /\ UNCHANGED <<held, thread>>
    BY <1>4 DEF PutJob, workerVars, threadVars
  <2>2. /\ Len(queue) + 1 \in DOMAIN queue' /\ queue'[Len(queue) + 1] = put + 1
        /\ \A i \in DOMAIN queue : i \in DOMAIN queue' /\ queue'[i] = queue[i]
    BY <1>1, <2>1
  <2>3. CASE j = put + 1
    BY <2>2, <2>3 DEF Placed, Queued
  <2>4. CASE j # put + 1
    <3>1. Placed(j)
      BY <1>1, <1>3, <2>1, <2>4
    <3>2. QED
      BY <2>1, <2>2, <3>1 DEF Placed, Queued, HeldBy
  <2>5. QED
    BY <2>3, <2>4
<1>5. CASE PutStop
  <2>1. /\ main = "stops" /\ Len(queue) < QueueSize
        /\ queue' = Append(queue, Stop) /\ UNCHANGED <<held, thread>>
    BY <1>5 DEF PutStop, workerVars, threadVars
  <2>2. put >= NumJobs
    BY <1>1, <2>1, PoolAssumption DEF AllPut
  <2>3. Placed(j)
    BY <1>1, <1>3, <2>2
  <2>4. \A i \in DOMAIN queue : i \in DOMAIN queue' /\ queue'[i] = queue[i]
    BY <1>1, <2>1
  <2>5. QED
    BY <2>1, <2>3, <2>4 DEF Placed, Queued, HeldBy
<1>6. CASE Finish
  <2>1. Len(queue) = 0 /\ put' = put /\ UNCHANGED <<held, thread>>
    BY <1>6 DEF Finish, workerVars, threadVars
  <2>2. DOMAIN queue = {}
    BY <1>1, <2>1
  <2>3. QED
    BY <1>3, <2>1, <2>2 DEF Placed, Queued, HeldBy
<1>7. CASE GiveUp \/ Sample \/ \E w \in Workers : StartWorker(w)
  <2>1. UNCHANGED <<put, queue, held, thread>>
    BY <1>7 DEF GiveUp, Sample, StartWorker, mainVars, workerVars, threadVars
  <2>2. QED
    BY <1>3, <2>1 DEF Placed, Queued, HeldBy
<1>8. ASSUME NEW k \in Jobs, ThreadStep(k)
      PROVE  Placed(j)'
  BY <1>1, <1>3, <1>8, ThreadFrame DEF ThreadMoves, Placed, Queued, HeldBy
<1>9. ASSUME NEW w \in Workers, WorkerStep(w)
      PROVE  Placed(j)'
  <2>1. ~Disturbed(w) /\ put' = put /\ Placed(j)
    BY <1>1, <1>3, <1>9 DEF WorkersInv, WorkerStep, Acquire, GetJob, GetStop, GetEmpty, Spawn,
       Reap, Join, Return, mainVars
  <2>2. CASE GetJob(w) \/ GetStop(w)
    <3>1. /\ queue # <<>> /\ queue' = Tail(queue) /\ thread' = thread
          /\ held' = held \/ held' = [held EXCEPT ![w] = Head(queue)]
          /\ Head(queue) = Stop \/ held' = [held EXCEPT ![w] = Head(queue)]
          /\ held[w] = Stop
      BY <2>1, <2>2 DEF GetJob, GetStop, Goto, threadVars, Disturbed
    <3>2. CASE thread[j] # "none"
      BY <3>1, <3>2 DEF Placed
    <3>3. CASE HeldBy(j) # {}
      <4>1. PICK v \in Workers : held[v] = j
        BY <3>3 DEF HeldBy
      <4>2. held'[v] = j
        BY <1>1, <3>1, <4>1
      <4>3. QED
        BY <4>2 DEF Placed, HeldBy
    <3>4. CASE Queued(j)
      <4>1. PICK i \in DOMAIN queue : queue[i] = j
        BY <3>4 DEF Queued
      <4>2. CASE i = 1
        <5>1. held'[w] = j
          BY <1>1, <3>1, <4>1, <4>2
        <5>2. QED
          BY <5>1 DEF Placed, HeldBy
      <4>3. CASE i # 1
        <5>1. i - 1 \in DOMAIN queue' /\ queue'[i - 1] = j
          BY <1>1, <3>1, <4>1, <4>3
        <5>2. QED
          BY <5>1 DEF Placed, Queued
      <4>4. QED
        BY <4>2, <4>3
    <3>5. QED
      BY <2>1, <3>2, <3>3, <3>4 DEF Placed
  <2>3. CASE Spawn(w)
    <3>1. /\ held' = [held EXCEPT ![w] = Stop] /\ held[w] \in Jobs /\ queue' = queue
          /\ thread' = [thread EXCEPT ![held[w]] = "setup"]
      BY <2>3 DEF Spawn, Goto, TypeInv, Handover
    <3>2. CASE held[w] = j \/ thread[j] # "none"
      BY <1>1, <3>1, <3>2 DEF Placed
    <3>3. CASE held[w] # j /\ thread[j] = "none"
      BY <1>1, <2>1, <3>1, <3>3 DEF Placed, Queued, HeldBy
    <3>4. QED
      BY <3>2, <3>3
  <2>4. CASE Acquire(w) \/ GetEmpty(w) \/ Reap(w) \/ Join(w) \/ Return(w)
    <3>1. UNCHANGED <<queue, held, thread>>
      BY <2>4 DEF Acquire, GetEmpty, Reap, Join, Return, threadVars
    <3>2. QED
      BY <2>1, <3>1 DEF Placed, Queued, HeldBy
  <2>5. QED
    BY <1>9, <2>2, <2>3, <2>4 DEF WorkerStep
<1>10. QED
  BY <1>1, <1>4, <1>5, <1>6, <1>7, <1>8, <1>9 DEF Next, MainStep

LEMMA InitAccount == Init => AccountInv
<1> SUFFICES ASSUME Init PROVE AccountInv
  OBVIOUS
<1>1. StatsInv /\ AllPut
  BY DEF Init, StatsInv, AllPut, LateStates
<1>2. WorkersInv
  BY DEF Init, WorkersInv, Disturbed
<1>3. DroppedInv
  BY DEF Init, DroppedInv, Jobs
<1>4. QED
  BY <1>1, <1>2, <1>3 DEF AccountInv

LEMMA NextAccount ==
  TypeInv /\ PlaceInv /\ NobodyLeft /\ AccountInv /\ [Next]_vars => AccountInv'
<1> SUFFICES ASSUME TypeInv, PlaceInv, NobodyLeft, AccountInv, [Next]_vars PROVE AccountInv'
  OBVIOUS
<1> USE DEF AccountInv
<1>1. CASE UNCHANGED vars
  <2>1. StatsInv' /\ AllPut'
    BY <1>1 DEF vars, mainVars, workerVars, threadVars, StatsInv, AllPut, ActiveWorkers, Alive
  <2>2. WorkersInv' /\ DroppedInv'
    BY <1>1 DEF vars, mainVars, workerVars, threadVars, WorkersInv, Disturbed, Pending,
       DroppedInv, Placed, Queued, HeldBy, Calm
  <2>3. QED
    BY <2>1, <2>2
<1>2. CASE Next
  <2>1. CASE MainStep \/ Sample \/ Interrupt
    <3>1. UNCHANGED <<thread, errored, ran, collected, faults>>
      BY <2>1 DEF MainStep, StartWorker, PutJob, PutStop, GiveUp, Finish, Sample, Interrupt,
         workerVars, threadVars
    <3>2. StatsInv'
      BY <3>1 DEF StatsInv
    <3>3. QED
      BY <1>2, <3>2, WorkersStep, DroppedStep, AllPutStep
  <2>2. StatsInv'
    BY <1>2, <2>1, ThreadStats, WorkerStats DEF Next, Fault
  <2>3. QED
    BY <1>2, <2>2, WorkersStep, DroppedStep, AllPutStep
<1>3. QED
  BY <1>1, <1>2

\* CompleteIsAccounted holds for every pool: a replay that ends without a fault
\* and with an empty queue has attempted each connection, and every one is in
\* the report, as replayed or as a connection error.
THEOREM CompleteReportCorrect == Spec => []CompleteIsAccounted
<1>1. TypeInv /\ PlaceInv /\ NobodyLeft /\ AccountInv => CompleteIsAccounted
  <2> SUFFICES ASSUME TypeInv, PlaceInv, NobodyLeft, AccountInv,
                      main = "complete", remaining = 0, faults = 0, NEW j \in Jobs
               PROVE  thread[j] = "over" /\ j \in collected /\ (j \in ran <=> j \notin errored)
    BY DEF CompleteIsAccounted
  <2>1. Calm /\ \A w \in Workers : ~Alive(w) /\ ~Disturbed(w)
    BY DEF AccountInv, WorkersInv, Calm, NobodyLeft, ActiveWorkers
  <2>2. j <= put /\ DOMAIN queue = {}
    BY PoolAssumption DEF AccountInv, AllPut, Jobs, TypeInv, TypeOK
  <2>3. HeldBy(j) = {}
    <3>1. ASSUME NEW w \in Workers, held[w] = j
          PROVE  FALSE
      BY <2>1, <3>1 DEF Disturbed, Alive, Jobs, Stop
    <3>2. QED
      BY <3>1 DEF HeldBy
  <2>4. thread[j] # "none"
    BY <2>1, <2>2, <2>3 DEF AccountInv, DroppedInv, Placed, Queued
  <2>5. owner[j] \in Workers /\ pc[owner[j]] = "finished"
    BY <2>1, <2>4 DEF PlaceInv, Owned, Disturbed, Alive
  <2>6. j \in collected
    BY <2>1, <2>5 DEF Disturbed, Pending
  <2>7. QED
    BY <2>6 DEF AccountInv, StatsInv, LateStates
<1>2. QED
  BY <1>1, InitTypeInv, NextTypeInv, InitPlace, NextPlace, InitNobodyLeft, NextNobodyLeft,
     InitAccount, NextAccount, PTL DEF Spec

---------------------------------------------------------------------------
(* The pool implements ThrottledReplay.                                    *)

LEMMA InitPromise == Init => Promise!Init
BY DEF Init, Promise!Init, Open, OpenStates

LEMMA ThreadPromise ==
  ASSUME TypeInv, PlaceInv, PermitAccounting, NobodyLeft, NEW j \in Jobs,
         ThreadStep(j) \/ PrepareRaises(j) \/ CloseRaises(j)
  PROVE  Promise!Next \/ UNCHANGED Promise!vars
<1> DEFINE phase == IF main \in {"complete", "incomplete"} THEN main ELSE "running"
<1>1. /\ ThreadMoves(j) /\ thread \in [Jobs -> ThreadStates]
      /\ main' = main /\ pc' = pc /\ owner' = owner
      /\ main \notin {"complete", "incomplete"}
  BY ThreadFrame, ThreadKeepsAlive DEF ThreadMoves, TypeInv, TypeOK, PlaceInv, NobodyLeft
<1>2. CASE Connect(j)
  <2>1. /\ thread[j] = "dial" /\ thread' = [thread EXCEPT ![j] = "inc"] /\ ran' = ran
        /\ pc[owner[j]] # "killed" /\ j \notin ran
    BY <1>2 DEF Connect, Step, PlaceInv, RanLate
  <2>2. /\ Open' = Open \cup {j} /\ j \notin Open /\ j \notin Opened
        /\ Opened' = Opened \cup {j}
    BY <1>1, <2>1 DEF Open, Opened, OpenStates
  <2>3. Limit = 0 \/ Cardinality(Open) < Limit
    <3>1. Open \in SUBSET (ThreadHolders \ {j}) /\ j \in ThreadHolders
      BY <2>1, <2>2 DEF Open, ThreadHolders, OpenStates
    <3>2. /\ IsFiniteSet(ThreadHolders \ {j})
          /\ Cardinality(ThreadHolders \ {j}) = Cardinality(ThreadHolders) - 1
      BY <3>1, HoldersFinite, FS_RemoveElement
    <3>3. Cardinality(Open) \in Nat /\ Cardinality(Open) <= Cardinality(ThreadHolders) - 1
      BY <3>1, <3>2, FS_Subset, FS_CardinalityType
    <3>4. sem \in Nat
      BY DEF TypeInv, TypeOK
    <3>5. QED
      BY <3>3, <3>4, HoldersFinite, PoolAssumption DEF PermitAccounting, Throttled
  <2>4. Promise!Cardinality(Open) = Cardinality(Open)
    BY DEF Cardinality, Promise!Cardinality, IsFiniteSet, Promise!IsFiniteSet
  <2>5. Promise!OpenOne(j)
    BY <1>1, <2>2, <2>3, <2>4 DEF Promise!OpenOne, Opened
  <2>6. QED
    BY <2>5 DEF Promise!Next
<1>3. CASE Close(j) \/ CloseRaises(j)
  <2>1. /\ thread[j] = "close" /\ j \in ran /\ ran' = ran
        /\ \E to \in {"dec", "over"} : thread' = [thread EXCEPT ![j] = to]
    BY <1>3 DEF Close, CloseRaises, Step, PlaceInv, RanLate
  <2>2. Open' = Open \ {j} /\ {j} \subseteq Open /\ Opened' = Opened
    BY <1>1, <2>1 DEF Open, Opened, OpenStates, ThreadMoves
  <2>3. Promise!CloseSome({j})
    BY <1>1, <2>2 DEF Promise!CloseSome, Opened
  <2>4. QED
    BY <2>3 DEF Promise!Next
<1>4. CASE ~Connect(j) /\ ~Close(j) /\ ~CloseRaises(j)
  <2>1. \E from, to \in ThreadStates :
          /\ thread[j] = from /\ thread' = [thread EXCEPT ![j] = to]
          /\ from \in OpenStates <=> to \in OpenStates
          /\ ran' = ran \/ (ran' = ran \cup {j} /\ from \in OpenStates)
    BY <1>4 DEF ThreadStep, PrepareRaises, Prepare, ConnectFails, ReadNum, WriteInc,
                Execute, WriteDec, Release, Step, ThreadStates, OpenStates
  <2>2. Open' = Open /\ Opened' = Opened
    BY <1>1, <2>1 DEF Open, Opened
  <2>3. QED
    BY <1>1, <2>2 DEF Promise!vars, Opened
<1>5. QED
  BY <1>2, <1>3, <1>4

LEMMA WorkerPromise ==
  ASSUME TypeInv, PlaceInv, NobodyLeft,
         NEW w \in Workers, WorkerStep(w) \/ SpawnRaises(w) \/ Kill(w)
  PROVE  Promise!Next \/ UNCHANGED Promise!vars
<1>1. /\ main' = main /\ ran' = ran
      /\ pc \in [Workers -> WorkerStates] /\ thread \in [Jobs -> ThreadStates]
      /\ owner \in [Jobs -> Workers \cup {NoWorker}]
  BY DEF WorkerStep, Acquire, GetJob, GetStop, GetEmpty, Spawn, SpawnRaises, Reap, Join,
         Return, Kill, mainVars, threadVars, TypeInv, TypeOK
<1>2. CASE Spawn(w)
  <2>1. /\ held[w] \in Jobs /\ thread[held[w]] = "none"
        /\ thread' = [thread EXCEPT ![held[w]] = "setup"]
        /\ owner' = [owner EXCEPT ![held[w]] = w]
        /\ pc' = [pc EXCEPT ![w] = "reap"] /\ pc[w] = "spawn"
    BY <1>2 DEF Spawn, Goto, TypeInv, Handover, PlaceInv, JobInOnePlace, HeldBy
  <2>2. \A j \in Jobs : thread[j] \in OpenStates => owner[j] \in Workers
    BY DEF PlaceInv, Owned, OpenStates
  <2>3. Open' = Open /\ Opened' = Opened
    BY <1>1, <2>1, <2>2 DEF Open, Opened, OpenStates
  <2>4. QED
    BY <1>1, <2>3 DEF Promise!vars, Opened
<1>3. CASE Kill(w)
  <2>1. /\ pc' = [pc EXCEPT ![w] = "killed"] /\ UNCHANGED <<thread, owner>>
        /\ main \notin {"complete", "incomplete"}
    BY <1>3 DEF Kill, threadVars
  <2> DEFINE S == {j \in Open : owner[j] = w}
  <2>2. /\ Open' = Open \ S /\ S \subseteq Open /\ S \in SUBSET Jobs
        /\ Opened' = Opened
    <3>1. \A j \in Jobs : thread[j] \in OpenStates => owner[j] \in Workers
      BY DEF PlaceInv, Owned, OpenStates
    <3>2. QED
      BY <1>1, <2>1, <3>1 DEF Open, Opened
  <2>3. Promise!CloseSome(S)
    BY <1>1, <2>1, <2>2 DEF Promise!CloseSome, Opened
  <2>4. QED
    BY <2>2, <2>3 DEF Promise!Next
<1>4. CASE ~Spawn(w) /\ ~Kill(w)
  <2>1. /\ UNCHANGED <<thread, owner>>
        /\ pc' = pc \/ \E to \in WorkerStates \ {"killed"} :
                          pc[w] # "killed" /\ pc' = [pc EXCEPT ![w] = to]
    BY <1>4 DEF WorkerStep, Acquire, GetJob, GetStop, GetEmpty, SpawnRaises, Reap, Join,
                Return, Goto, WorkerStates, threadVars
  <2>2. \A j \in Jobs : thread[j] \in OpenStates => owner[j] \in Workers
    BY DEF PlaceInv, Owned, OpenStates
  <2>3. Open' = Open /\ Opened' = Opened
    BY <1>1, <2>1, <2>2 DEF Open, Opened
  <2>4. QED
    BY <1>1, <2>3 DEF Promise!vars, Opened
<1>5. QED
  BY <1>2, <1>3, <1>4

LEMMA MainPromise ==
  ASSUME TypeInv, PlaceInv, NobodyLeft, MainStep \/ Sample \/ Interrupt
  PROVE  Promise!Next \/ UNCHANGED Promise!vars
<1>1. /\ UNCHANGED <<thread, owner, ran>> /\ main \notin {"complete", "incomplete"}
      /\ Opened' = Opened
  BY DEF MainStep, StartWorker, PutJob, PutStop, GiveUp, Finish, Sample, Interrupt,
         Opened, workerVars, threadVars
<1>2. \A j \in Jobs : thread[j] \in OpenStates =>
        thread[j] \notin {"none", "over"} /\ owner[j] \in Workers /\ pc[owner[j]] # "off"
  BY DEF PlaceInv, Owned, OpenStates
<1>3. CASE Finish
  <2>1. main' = "complete" /\ pc' = pc /\ ActiveWorkers = {}
    BY <1>3 DEF Finish, workerVars
  <2>2. Open = {} /\ Open' = Open
    BY <1>1, <1>2, <2>1, ThreadKeepsAlive DEF Open, PlaceInv
  <2>3. Promise!Complete
    BY <1>1, <2>1, <2>2 DEF Promise!Complete, Opened
  <2>4. QED
    BY <2>3 DEF Promise!Next
<1>4. CASE Interrupt
  <2>1. /\ main' = "incomplete"
        /\ pc' = [w \in Workers |-> IF Alive(w) THEN "killed" ELSE pc[w]]
    BY <1>4 DEF Interrupt
  <2>2. \A j \in Jobs : thread[j] \in OpenStates => pc'[owner[j]] = "killed"
    BY <1>2, <2>1 DEF Alive
  <2>3. Open' = {}
    BY <1>1, <2>2 DEF Open
  <2>4. Promise!Interrupted
    BY <1>1, <2>1, <2>3 DEF Promise!Interrupted, Opened
  <2>5. QED
    BY <2>4 DEF Promise!Next
<1>5. CASE ~Finish /\ ~Interrupt
  <2>1. main' \notin {"complete", "incomplete"}
    BY <1>1, <1>5 DEF MainStep, StartWorker, PutJob, PutStop, GiveUp, Sample, mainVars
  <2>2. pc' = pc \/ \E w \in Workers : pc[w] = "off" /\ pc' = [pc EXCEPT ![w] = "acquire"]
    BY <1>5 DEF MainStep, StartWorker, PutJob, PutStop, GiveUp, Sample, workerVars
  <2>3. Open' = Open
    BY <1>1, <1>2, <2>2 DEF Open, TypeInv, TypeOK
  <2>4. QED
    BY <1>1, <2>1, <2>3 DEF Promise!vars, Opened
<1>6. QED
  BY <1>3, <1>4, <1>5

LEMMA NextPromise ==
  TypeInv /\ PlaceInv /\ PermitAccounting /\ NobodyLeft /\ [Next]_vars
    => [Promise!Next]_(Promise!vars)
<1>1. CASE UNCHANGED vars
  BY <1>1 DEF vars, mainVars, workerVars, threadVars, Promise!vars, Open
<1>2. QED
  BY <1>1, MainPromise, WorkerPromise, ThreadPromise DEF Next, Fault

\* The pool implements what its user is promised: every step of any worker,
\* thread or signal opens one connection, for the first time and below the
\* limit, closes some, ends the replay, or is invisible.
THEOREM PoolImplementsPromise == Spec => KeepsPromise
<1>1. QED
  BY InitTypeInv, NextTypeInv, InitPermits, NextPermits, InitPlace, NextPlace,
     InitNobodyLeft, NextNobodyLeft, InitPromise, NextPromise, PTL
  DEF Spec, KeepsPromise, Promise!Spec
===========================================================================

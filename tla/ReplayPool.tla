---------------------------- MODULE ReplayPool ----------------------------
(***************************************************************************)
(* The process pool of Simple Replay (SimpleReplay/replay.py).             *)
(*                                                                         *)
(* start_replay() is the main process: it starts the worker processes,     *)
(* puts one job per extracted connection on a bounded queue, then one      *)
(* False per worker, and waits until no child process is left.  Every      *)
(* worker (replay_worker) takes a permit of the shared semaphore, takes a  *)
(* job, starts a ConnectionThread for it and collects the statistics of    *)
(* the threads that have ended.  A thread opens one database connection,   *)
(* replays its transactions, closes it and gives the permit back.          *)
(*                                                                         *)
(* Time is abstracted: a sleep, a timeout or a slow call is the freedom of *)
(* the other processes to run first.  What a connection executes is the    *)
(* single step Execute here.                                               *)
(***************************************************************************)
EXTENDS Integers, Sequences, FiniteSets

CONSTANTS
  Workers,      \* the worker processes
  NoWorker,     \* "no process has started a thread for this job"
  NumJobs,      \* how many connections are replayed
  Limit,        \* limit_concurrent_connections; 0 when it is not configured
  QueueSize,    \* maxsize of the job queue
  MaxFaults     \* bound on failures of the environment

ASSUME PoolAssumption ==
  /\ IsFiniteSet(Workers) /\ Workers # {} /\ NoWorker \notin Workers
  /\ NumJobs \in Nat \ {0}
  /\ Limit \in Nat
  /\ QueueSize \in Nat \ {0}
  /\ MaxFaults \in Nat

Jobs == 1 .. NumJobs      \* job_id + 1, in the order of the connection log
Stop == 0                 \* the False that tells a worker to finish

VARIABLES
  main,       \* phase of start_replay and of the try statement around it
  put,        \* items main has put on the queue so far
  queue,      \* the job queue
  remaining,  \* remaining_events, the items left over at the end
  num, peak,  \* num_connections.value and peak_connections.value
  sem,        \* free permits of connection_semaphore
  pc,         \* control state of every worker
  held,       \* the job a worker has taken and not yet given to a thread
  polled,     \* last_empty_queue_time is set
  owner,      \* the worker whose connection_threads a job's thread entered
  thread,     \* control state of the thread of every job
  seen,       \* the value of num a thread has read and not yet written back
  errored,    \* jobs in the connection_error_log of their thread_stats
  ran,        \* jobs whose transactions are in their thread_stats
  collected,  \* jobs whose thread_stats were added to their worker's stats
  faults      \* failures of the environment so far

mainVars == <<main, put, remaining>>
workerVars == <<pc, held, polled, owner, collected>>
threadVars == <<thread, seen, errored, ran>>
vars == <<mainVars, queue, num, peak, sem, workerVars, threadVars, faults>>

MainPhases == {"starting", "jobs", "stops", "waiting", "complete", "incomplete"}
WorkerStates == {"off", "acquire", "get", "spawn", "reap", "join", "finished", "killed"}
ThreadStates == {"none", "setup", "dial", "inc", "incWrite", "run", "close",
                 "dec", "decWrite", "release", "over"}

Throttled == Limit > 0

\* Threads whose database connection is open.
OpenStates == {"inc", "incWrite", "run", "close"}

\* Mutant: connection threads are daemons that do not keep their process alive.
MutAliveDaemons(w) == pc[w] \notin {"off", "killed", "finished"}

\* A worker's process has been started and has not ended.  A process whose
\* replay_worker has returned still lives until its threads have ended.
Alive(w) ==
  /\ pc[w] \notin {"off", "killed"}
  /\ pc[w] = "finished" => \E j \in Jobs : owner[j] = w /\ thread[j] # "over"

ActiveWorkers == {w \in Workers : Alive(w)}

\* The threads in a worker's connection_threads.
Pending(w) == {j \in Jobs \ collected : owner[j] = w}

Init ==
  /\ main = "starting" /\ put = 0 /\ remaining = 0
  /\ queue = <<>>
  /\ num = 0 /\ peak = 0
  /\ sem = Limit
  /\ pc = [w \in Workers |-> "off"]
  /\ held = [w \in Workers |-> Stop]
  /\ polled = [w \in Workers |-> FALSE]
  /\ owner = [j \in Jobs |-> NoWorker]
  /\ thread = [j \in Jobs |-> "none"]
  /\ seen = [j \in Jobs |-> 0]
  /\ errored = {} /\ ran = {} /\ collected = {}
  /\ faults = 0

---------------------------------------------------------------------------
(* The main process: start_replay(), put_and_retry(), sigint_handler().    *)

StartWorker(w) ==
  /\ main = "starting" /\ pc[w] = "off"
  /\ pc' = [pc EXCEPT ![w] = "acquire"]
  /\ main' = IF \A v \in Workers \ {w} : pc[v] # "off" THEN "jobs" ELSE main
  /\ UNCHANGED <<put, remaining, queue, num, peak, sem, held, polled, owner,
                 collected, threadVars, faults>>

\* Mutant: a put that timed out after it succeeded is repeated.
MutPutJobTwice ==
  /\ main = "jobs" /\ Len(queue) < QueueSize
  /\ put' \in {put, put + 1}
  /\ queue' = Append(queue, put + 1)
  /\ main' = IF put' = NumJobs THEN "stops" ELSE main
  /\ UNCHANGED <<remaining, num, peak, sem, workerVars, threadVars, faults>>

PutJob ==
  /\ main = "jobs" /\ Len(queue) < QueueSize
  /\ put' = put + 1
  /\ queue' = Append(queue, put')
  /\ main' = IF put' = NumJobs THEN "stops" ELSE main
  /\ UNCHANGED <<remaining, num, peak, sem, workerVars, threadVars, faults>>

PutStop ==
  /\ main = "stops" /\ Len(queue) < QueueSize
  /\ put' = put + 1
  /\ queue' = Append(queue, Stop)
  /\ main' = IF put' >= NumJobs + Cardinality(Workers) THEN "waiting" ELSE main
  /\ UNCHANGED <<remaining, num, peak, sem, workerVars, threadVars, faults>>

\* put() timed out on a full queue and no child process is left to empty it:
\* put_and_retry() returns False and the loop around it breaks.
GiveUp ==
  /\ main \in {"jobs", "stops"} /\ Len(queue) = QueueSize /\ ActiveWorkers = {}
  /\ main' = IF main = "jobs" THEN "stops" ELSE "waiting"
  /\ UNCHANGED <<put, remaining, queue, num, peak, sem, workerVars,
                 threadVars, faults>>

\* Every fifth round of the wait loop sets the "peak" to the current number.
Sample ==
  /\ main = "waiting"
  /\ peak' = num
  /\ UNCHANGED <<mainVars, queue, num, sem, workerVars, threadVars, faults>>

\* No child is left: the queue is emptied, start_replay() returns True.
Finish ==
  /\ main = "waiting" /\ ActiveWorkers = {}
  /\ remaining' = Len(queue)
  /\ queue' = <<>>
  /\ main' = "complete"
  /\ UNCHANGED <<put, num, peak, sem, workerVars, threadVars, faults>>

\* Control-C: the handler terminates and joins every worker and raises
\* KeyboardInterrupt.  The signal is ignored while workers are started.
Interrupt ==
  /\ main \in {"jobs", "stops", "waiting"}
  /\ main' = "incomplete"
  /\ pc' = [w \in Workers |-> IF Alive(w) THEN "killed" ELSE pc[w]]
  /\ UNCHANGED <<put, remaining, queue, num, peak, sem, held, polled, owner,
                 collected, threadVars, faults>>

---------------------------------------------------------------------------
(* A worker process: replay_worker(), join_finished_threads().             *)

Goto(w, from, to) ==
  /\ pc[w] = from
  /\ pc' = [pc EXCEPT ![w] = to]

Acquire(w) ==
  /\ Goto(w, "acquire", "get")
  /\ Throttled => sem > 0
  /\ sem' = IF Throttled THEN sem - 1 ELSE sem
  /\ UNCHANGED <<mainVars, queue, num, peak, held, polled, owner, collected,
                 threadVars, faults>>

\* queue.get() returned a connection.
GetJob(w) ==
  /\ Goto(w, "get", "spawn")
  /\ queue # <<>> /\ Head(queue) # Stop
  /\ held' = [held EXCEPT ![w] = Head(queue)]
  /\ queue' = Tail(queue)
  /\ polled' = [polled EXCEPT ![w] = FALSE]
  /\ UNCHANGED <<mainVars, num, peak, sem, owner, collected, threadVars, faults>>

\* queue.get() returned False.  The permit is not given back.
GetStop(w) ==
  /\ Goto(w, "get", "join")
  /\ queue # <<>> /\ Head(queue) = Stop
  /\ queue' = Tail(queue)
  /\ polled' = [polled EXCEPT ![w] = FALSE]
  /\ UNCHANGED <<mainVars, num, peak, sem, held, owner, collected, threadVars,
                 faults>>

\* queue.get() raised Empty.  The first time in a row is below
\* empty_queue_timeout_sec; later ones, after any wait for a permit, may not be.
GetEmpty(w) ==
  /\ queue = <<>>
  /\ \/ Goto(w, "get", "acquire")
     \/ polled[w] /\ Goto(w, "get", "join")
  /\ sem' = IF Throttled THEN sem + 1 ELSE sem
  /\ polled' = [polled EXCEPT ![w] = TRUE]
  /\ UNCHANGED <<mainVars, queue, num, peak, held, owner, collected,
                 threadVars, faults>>

Spawn(w) ==
  /\ Goto(w, "spawn", "reap")
  /\ thread' = [thread EXCEPT ![held[w]] = "setup"]
  /\ owner' = [owner EXCEPT ![held[w]] = w]
  /\ held' = [held EXCEPT ![w] = Stop]
  /\ UNCHANGED <<mainVars, queue, num, peak, sem, polled, collected, seen,
                 errored, ran, faults>>

\* thread.start() raises: the worker returns without joining its threads.
SpawnRaises(w) ==
  /\ faults < MaxFaults
  /\ faults' = faults + 1
  /\ Goto(w, "spawn", "finished")
  /\ held' = [held EXCEPT ![w] = Stop]
  /\ UNCHANGED <<mainVars, queue, num, peak, sem, polled, owner, collected,
                 threadVars>>

\* join_finished_threads(wait=False)
Reap(w) ==
  /\ Goto(w, "reap", "acquire")
  /\ collected' = collected \cup {j \in Pending(w) : thread[j] = "over"}
  /\ UNCHANGED <<mainVars, queue, num, peak, sem, held, polled, owner,
                 threadVars, faults>>

\* One round of join_finished_threads(wait=True): threads are joined in the
\* order in which they were started.
Join(w) ==
  /\ pc[w] = "join"
  /\ \E j \in Pending(w) :
       /\ \A k \in Pending(w) : j <= k
       /\ thread[j] = "over"
       /\ collected' = collected \cup {j}
  /\ UNCHANGED <<mainVars, queue, num, peak, sem, pc, held, polled, owner,
                 threadVars, faults>>

\* Mutant: the threads still running are not joined at the end.
MutReturnNoJoin(w) ==
  /\ Goto(w, "join", "finished")
  /\ UNCHANGED <<mainVars, queue, num, peak, sem, held, polled, owner,
                 collected, threadVars, faults>>

Return(w) ==
  /\ Goto(w, "join", "finished")
  /\ Pending(w) = {}
  /\ UNCHANGED <<mainVars, queue, num, peak, sem, held, polled, owner,
                 collected, threadVars, faults>>

\* The operating system kills a worker process with all its threads.
Kill(w) ==
  /\ main \in {"jobs", "stops", "waiting"} /\ Alive(w)
  /\ faults < MaxFaults
  /\ faults' = faults + 1
  /\ pc' = [pc EXCEPT ![w] = "killed"]
  /\ UNCHANGED <<mainVars, queue, num, peak, sem, held, polled, owner,
                 collected, threadVars>>

---------------------------------------------------------------------------
(* A connection thread: ConnectionThread.run(), initiate_connection().     *)

Step(j, from, to) ==
  /\ thread[j] = from
  /\ pc[owner[j]] # "killed"
  /\ thread' = [thread EXCEPT ![j] = to]

\* Time offsets are computed and credentials obtained, before the try.
Prepare(j) ==
  /\ Step(j, "setup", "dial")
  /\ UNCHANGED <<mainVars, queue, num, peak, sem, workerVars, seen, errored, ran, faults>>

\* An exception before the try statement ends the thread; no finally runs.
PrepareRaises(j) ==
  /\ Step(j, "setup", "over")
  /\ faults < MaxFaults
  /\ faults' = faults + 1
  /\ UNCHANGED <<mainVars, queue, num, peak, sem, workerVars, seen, errored, ran>>

Connect(j) ==
  /\ Step(j, "dial", "inc")
  /\ UNCHANGED <<mainVars, queue, num, peak, sem, workerVars, seen, errored, ran, faults>>

\* Mutant: a failed connection releases its permit in the except clause too.
MutConnectFailsReleases(j) ==
  /\ Step(j, "dial", "dec")
  /\ errored' = errored \cup {j}
  /\ sem' = IF Throttled THEN sem + 1 ELSE sem
  /\ UNCHANGED <<mainVars, queue, num, peak, workerVars, seen, ran, faults>>

\* Mutant: a failed connection returns before the finally clause.
MutConnectFailsEarly(j) ==
  /\ Step(j, "dial", "over")
  /\ errored' = errored \cup {j}
  /\ UNCHANGED <<mainVars, queue, num, peak, sem, workerVars, seen, ran, faults>>

\* db_connect() raises: the error is logged and None is yielded.
ConnectFails(j) ==
  /\ Step(j, "dial", "dec")
  /\ errored' = errored \cup {j}
  /\ UNCHANGED <<mainVars, queue, num, peak, sem, workerVars, seen, ran, faults>>

\* num_connections is a manager proxy: += is a read followed by a write.
ReadNum(j) ==
  /\ Step(j, "inc", "incWrite") \/ Step(j, "dec", "decWrite")
  /\ seen' = [seen EXCEPT ![j] = num]
  /\ UNCHANGED <<mainVars, queue, num, peak, sem, workerVars, errored, ran, faults>>

WriteInc(j) ==
  /\ Step(j, "incWrite", "run")
  /\ num' = seen[j] + 1
  /\ UNCHANGED <<mainVars, queue, peak, sem, workerVars, seen, errored, ran, faults>>

\* execute_transactions(), whether it returns or raises.
Execute(j) ==
  /\ Step(j, "run", "close")
  /\ ran' = ran \cup {j}
  /\ UNCHANGED <<mainVars, queue, num, peak, sem, workerVars, seen, errored, faults>>

Close(j) ==
  /\ Step(j, "close", "dec")
  /\ UNCHANGED <<mainVars, queue, num, peak, sem, workerVars, seen, errored, ran, faults>>

\* conn.close() raises inside the finally: the rest of it is skipped.
CloseRaises(j) ==
  /\ Step(j, "close", "over")
  /\ faults < MaxFaults
  /\ faults' = faults + 1
  /\ UNCHANGED <<mainVars, queue, num, peak, sem, workerVars, seen, errored, ran>>

WriteDec(j) ==
  /\ Step(j, "decWrite", "release")
  /\ num' = seen[j] - 1
  /\ UNCHANGED <<mainVars, queue, peak, sem, workerVars, seen, errored, ran, faults>>

Release(j) ==
  /\ Step(j, "release", "over")
  /\ sem' = IF Throttled THEN sem + 1 ELSE sem
  /\ UNCHANGED <<mainVars, queue, num, peak, workerVars, seen, errored, ran, faults>>

---------------------------------------------------------------------------
MainStep == (\E w \in Workers : StartWorker(w)) \/ PutJob \/ PutStop \/ GiveUp \/ Finish

WorkerStep(w) ==
  \/ Acquire(w) \/ GetJob(w) \/ GetStop(w) \/ GetEmpty(w)
  \/ Spawn(w) \/ Reap(w) \/ Join(w) \/ Return(w)

ThreadStep(j) ==
  \/ Prepare(j) \/ Connect(j) \/ ConnectFails(j) \/ ReadNum(j) \/ WriteInc(j)
  \/ Execute(j) \/ Close(j) \/ WriteDec(j) \/ Release(j)

Fault ==
  \/ \E w \in Workers : SpawnRaises(w) \/ Kill(w)
  \/ \E j \in Jobs : PrepareRaises(j) \/ CloseRaises(j)

Next ==
  \/ MainStep \/ Sample \/ Interrupt \/ Fault
  \/ \E w \in Workers : WorkerStep(w)
  \/ \E j \in Jobs : ThreadStep(j)

Spec == Init /\ [][Next]_vars

\* Processes and threads are scheduled, connection attempts and statements
\* come back; nobody is obliged to press Control-C and nothing has to fail.
FairSpec ==
  /\ Spec
  /\ WF_vars(MainStep)
  /\ \A w \in Workers : WF_vars(WorkerStep(w))
  /\ \A j \in Jobs : WF_vars(ThreadStep(j))
---------------------------------------------------------------------------
(* Properties.                                                             *)

TypeOK ==
  /\ main \in MainPhases
  /\ put \in Nat
  /\ queue \in Seq(Jobs \cup {Stop})
  /\ remaining \in Nat
  /\ num \in Int /\ peak \in Int
  /\ sem \in Nat
  /\ pc \in [Workers -> WorkerStates]
  /\ held \in [Workers -> Jobs \cup {Stop}]
  /\ polled \in [Workers -> BOOLEAN]
  /\ owner \in [Jobs -> Workers \cup {NoWorker}]
  /\ thread \in [Jobs -> ThreadStates]
  /\ seen \in [Jobs -> Int]
  /\ errored \in SUBSET Jobs /\ ran \in SUBSET Jobs /\ collected \in SUBSET Jobs
  /\ faults \in 0 .. MaxFaults

\* Database connections that are open: those of processes that still exist.
Open == {j \in Jobs : thread[j] \in OpenStates /\ pc[owner[j]] # "killed"}

\* limit_concurrent_connections throttles the replay: whatever the workers and
\* threads of different processes do, fail at or are killed in, no more than
\* that many connections are open, because the permit a worker took travels
\* with the job and comes back only after the connection is closed.
ConcurrencyLimit == Throttled => Cardinality(Open) <= Limit

\* Who holds a permit: a worker from acquire() until it has handed it to a
\* thread, a thread until its release().
WorkerHolders == {w \in Workers : pc[w] \in {"get", "spawn"}}
ThreadHolders == {j \in Jobs : thread[j] \notin {"none", "over"}}

\* Permits are lost (a worker that reads False, a thread that dies early) but
\* never made up: free ones and held ones are at most the configured limit.
PermitAccounting ==
  Throttled => sem + Cardinality(WorkerHolders) + Cardinality(ThreadHolders) <= Limit

\* Where job j is.
Queued(j) == \E i \in DOMAIN queue : queue[i] = j
HeldBy(j) == {w \in Workers : held[w] = j}

\* A connection is replayed at most once: its job is on the queue, in the hands
\* of one worker or with a thread, never in two of these places, and the queue
\* does not hold it twice.
JobInOnePlace ==
  \A j \in Jobs :
    /\ Queued(j) => HeldBy(j) = {} /\ thread[j] = "none" /\ j <= put
    /\ \A v, w \in HeldBy(j) : v = w
    /\ HeldBy(j) # {} => thread[j] = "none" /\ j <= put
    /\ thread[j] # "none" => j <= put
    /\ \A i, k \in DOMAIN queue : queue[i] = j /\ queue[k] = j => i = k

\* When start_replay() returns without an "Not all jobs processed" error and
\* nothing failed around it, every connection has been attempted, its thread
\* was joined and its statistics are in the report, either as a replayed
\* connection or as a connection error.
CompleteIsAccounted ==
  main = "complete" /\ remaining = 0 /\ faults = 0 =>
    \A j \in Jobs : thread[j] = "over" /\ j \in collected /\ (j \in ran <=> j \notin errored)

\* The report is made after the last statement: once start_replay() has
\* returned no connection thread of any worker takes another step, not even
\* one whose worker ended on an exception without joining it.
QuietAfterComplete == [][main = "complete" => UNCHANGED <<thread, num, sem>>]_vars

\* A replay ends: the jobs run out, each worker gets its False and returns;
\* unless something fails around it.  Needs a permit left for every worker that
\* asks (see the README).
Termination == <>(main \in {"complete", "incomplete"} \/ faults > 0)

---------------------------------------------------------------------------
(* What the code, its messages and its README say, and the code does not do. *)

\* replay.py:1252 "add one termination job/signal for each worker so signal
\* them to exit when there is no more work".
WorkersExitOnSignal == (main = "waiting") ~> (ActiveWorkers = {})

---------------------------------------------------------------------------
\* The pool keeps the promise a user relies on (module ThrottledReplay).
Promise == INSTANCE ThrottledReplay WITH
  Connections <- Jobs,
  phase <- IF main \in {"complete", "incomplete"} THEN main ELSE "running",
  open <- Open,
  opened <- {j \in Jobs : thread[j] \in OpenStates} \cup ran

\* Every step of the pool opens one connection for the first time and below
\* the limit, closes some, ends the replay, or is invisible to the user.
KeepsPromise == Promise!Spec
===========================================================================

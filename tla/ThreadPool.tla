------------------------------ MODULE ThreadPool ------------------------------
(***************************************************************************)
(* The CPU thread pool (src/src/runtime/thread_pool.cc): the thread that   *)
(* owns the pool launches one parallel job at a time, its workers and, when*)
(* worker 0 is excluded, itself run the tasks, tasks may meet at barriers, *)
(* a task may fail, and the pool may be reconfigured or reset between      *)
(* launches.  A worker's SpscTaskQueue is the channel TaskFifo promises;   *)
(* the launcher's atomics are accessed one at a time.                      *)
(*                                                                         *)
(* Task i of a launch is always run by thread i: by worker i or, for i = 0 *)
(* and exclude_worker0_, by the owner inside Launch.  So the state of a    *)
(* running task is kept under its index.                                   *)
(*                                                                         *)
(* A lambda computes, meets at barriers and returns; it launches no job.   *)
(* Launch refuses one from a worker (is_worker), but not one from task 0   *)
(* on the owner's own thread, which would reset the launcher in use.       *)
(***************************************************************************)
EXTENDS Integers, Sequences, FiniteSets

CONSTANTS
  num_workers_,      \* MaxConcurrency() when the pool was made
  big_count_, little_count_,
  Configs,           \* the arguments runtime.config_threadpool is called with
  MayFail,           \* tasks whose lambda may return nonzero
  EarlyReturn,       \* a failing lambda may return before its last barrier
  MaxBarriers,       \* bound: barriers in a lambda
  MaxLaunches        \* bound: parallel launches

ASSUME PoolAssumption ==
  /\ num_workers_ \in Nat \ {0, 1}
  /\ big_count_ \in Nat \ {0} /\ little_count_ \in Nat
  /\ \A c \in Configs : c.nthreads \in Nat /\ c.cpus \in Nat
  /\ MayFail \subseteq 0 .. num_workers_ - 1
  /\ EarlyReturn \in BOOLEAN
  /\ MaxBarriers \in Nat /\ MaxLaunches \in Nat

VARIABLES
  \* ParallelLauncher
  num_pending_, has_error_,
  par_errors_,                         \* par_errors_[i]: an error is stored at i - 1
  sync_counter_, sync_size,            \* the counters, and how many were allocated
  \* ThreadPool and threading backend
  queues_, killed, num_workers_used_, max_concurrency,
  exclude_worker0_,  \* TVM_EXCLUDE_WORKER0 of the environment, read once
  \* the owner
  pcM, num_task, next_task, tsk_task_id, result,
  \* the tasks
  run, barriers_done, old_counter,
  \* the lambda of the current launch, and what happened in it
  launches, barriers, failing, started, failed

launcherVars == <<num_pending_, has_error_, par_errors_, sync_counter_, sync_size>>
poolVars == <<queues_, killed, num_workers_used_, max_concurrency, exclude_worker0_>>
ownerVars == <<pcM, num_task, next_task, tsk_task_id, result>>
taskVars == <<run, barriers_done, old_counter>>
lambdaVars == <<launches, barriers, failing, started, failed>>
vars == <<launcherVars, poolVars, ownerVars, taskVars, lambdaVars>>

Thread == 0 .. num_workers_ - 1
Worker == {w \in Thread : ~(exclude_worker0_ /\ w = 0)}
FirstQueued == IF exclude_worker0_ THEN 1 ELSE 0

\* tsk.task_id before the first Push has assigned it.
Uninitialised == -1

MinOf(a, b) == IF a <= b THEN a ELSE b

\* threading::MaxConcurrency(); the machine has num_workers_ cores.
MaxConcurrency(limit) == IF limit # 0 THEN limit ELSE num_workers_

\* Mutant: the number of workers asked for is not limited to those there are.
WorkersUsedUnlimited(c, limit) ==
  LET byMode == CASE c.mode = "kLittle" -> little_count_
                  [] c.mode = "kBig" -> big_count_
                  [] c.mode = "kSpecify" -> c.cpus
                  [] OTHER -> MaxConcurrency(limit)
  IN  IF c.nthreads # 0 THEN c.nthreads ELSE byMode

\* ThreadGroup::Impl::Configure
WorkersUsed(c, limit) ==
  LET byMode == CASE c.mode = "kLittle" -> little_count_
                  [] c.mode = "kBig" -> big_count_
                  [] c.mode = "kSpecify" -> c.cpus
                  [] OTHER -> MaxConcurrency(limit)
  IN  MinOf(num_workers_, IF c.nthreads # 0 THEN c.nthreads ELSE byMode)

\* ThreadPool::Init: fresh queues and threads, configured to kBig.
InitialWorkersUsed == WorkersUsed([mode |-> "kBig", nthreads |-> 0, cpus |-> 0], 0)

Init ==
  /\ num_pending_ = 0
  /\ has_error_ = FALSE
  /\ par_errors_ = <<>>
  /\ sync_counter_ = [i \in Thread |-> 0]
  /\ sync_size = 0
  /\ exclude_worker0_ \in BOOLEAN
  /\ queues_ = [w \in Worker |-> <<>>]
  /\ killed = FALSE
  /\ num_workers_used_ = InitialWorkersUsed
  /\ max_concurrency = 0
  /\ pcM = "idle" /\ num_task = 0 /\ next_task = 0 /\ tsk_task_id = Uninitialised
  /\ result = 0
  /\ run = [i \in Thread |-> "idle"]
  /\ barriers_done = [i \in Thread |-> 0]
  /\ old_counter = [i \in Thread |-> 0]
  /\ launches = 0 /\ barriers = 0 /\ failing = {}
  /\ started = [i \in Thread |-> 0] /\ failed = {}

-----------------------------------------------------------------------------
(* The owner: TVMBackendParallelLaunch and ThreadPool::Launch. *)

\* A new job: k barriers in its lambda, the tasks of f fail.
NewJob(k, f) ==
  /\ launches' = launches + 1
  /\ barriers' = k
  /\ failing' = f
  /\ started' = [i \in Thread |-> 0]
  /\ failed' = {}

\* MaxConcurrency() == 1: the lambda runs inline and its result is dropped.
LaunchInline(k, f) ==
  /\ pcM = "idle" /\ launches < MaxLaunches
  /\ MaxConcurrency(max_concurrency) = 1
  /\ launches' = launches + 1
  /\ barriers' = k
  /\ failing' = f
  /\ started' = [i \in Thread |-> IF i = 0 THEN 1 ELSE 0]
  /\ failed' = f \cap {0}
  /\ num_task' = 1
  /\ result' = 0
  /\ UNCHANGED <<launcherVars, poolVars, pcM, next_task, tsk_task_id, taskVars>>

\* Mutants: only the pushed tasks are counted; a task less is counted.
CountPushed(tasks) == tasks - FirstQueued
CountOneLess(tasks) == tasks - 1

\* What ParallelLauncher::Init stores in num_pending_.
CountTasks(tasks) == tasks

\* Launch up to launcher->Init; the request must not exceed num_workers_used_.
Launch(n, k, f) ==
  LET tasks == IF n = 0 THEN num_workers_used_ ELSE n
  IN  /\ pcM = "idle" /\ launches < MaxLaunches
      /\ MaxConcurrency(max_concurrency) # 1
      /\ tasks <= num_workers_used_
      /\ NewJob(k, f)
      /\ num_task' = tasks
      /\ num_pending_' = CountTasks(tasks)
      /\ next_task' = FirstQueued
      /\ tsk_task_id' = Uninitialised
      /\ pcM' = "init_error"
      /\ UNCHANGED <<has_error_, par_errors_, sync_counter_, sync_size, poolVars, result, taskVars>>

InitError ==
  /\ pcM = "init_error"
  /\ has_error_' = FALSE
  /\ pcM' = "init_reshape"
  /\ UNCHANGED <<num_pending_, par_errors_, sync_counter_, sync_size, poolVars, num_task,
                 next_task, tsk_task_id, result, taskVars, lambdaVars>>

\* par_errors_ has size elements; a larger vector keeps the old ones.
Resize(errors, size) == [i \in 1 .. size |-> IF i <= Len(errors) THEN errors[i] ELSE FALSE]

\* A counter beyond the page behaves as memory of its own here; that a task has one
\* outside the page is what CounterPagePerTask reports.
InitReshape ==
  /\ pcM = "init_reshape"
  /\ IF num_task > Len(par_errors_)
       THEN /\ par_errors_' = Resize(par_errors_, num_task + 1)
            /\ sync_size' = num_task
       ELSE UNCHANGED <<par_errors_, sync_size>>
  /\ sync_counter_' = [i \in Thread |-> IF i < num_task THEN 0 ELSE sync_counter_[i]]
  /\ pcM' = "push"
  /\ UNCHANGED <<num_pending_, has_error_, poolVars, num_task, next_task, tsk_task_id, result,
                 taskVars, lambdaVars>>

\* queues_[i]->Push(tsk): the queue holds one task.
PushTask ==
  /\ pcM = "push"
  /\ next_task < num_task
  /\ queues_[next_task] = <<>>
  /\ queues_' = [queues_ EXCEPT ![next_task] = Append(@, next_task)]
  /\ tsk_task_id' = next_task
  /\ next_task' = next_task + 1
  /\ UNCHANGED <<launcherVars, killed, num_workers_used_, max_concurrency, exclude_worker0_, pcM,
                 num_task, result, taskVars, lambdaVars>>

\* Mutant: the owner runs task 0 although worker 0 does.
PushDoneAlwaysRuns ==
  /\ pcM = "push"
  /\ next_task >= num_task
  /\ run' = [run EXCEPT ![0] = "body"]
  /\ barriers_done' = [barriers_done EXCEPT ![0] = 0]
  /\ started' = [started EXCEPT ![0] = @ + 1]
  /\ pcM' = "run"
  /\ UNCHANGED <<launcherVars, poolVars, num_task, next_task, tsk_task_id, result, old_counter,
                 launches, barriers, failing, failed>>

\* All tasks are pushed: the owner runs task 0 itself, or waits at once.
PushDone ==
  /\ pcM = "push"
  /\ next_task >= num_task
  /\ IF exclude_worker0_
       THEN /\ run' = [run EXCEPT ![0] = "body"]
            /\ barriers_done' = [barriers_done EXCEPT ![0] = 0]
            /\ started' = [started EXCEPT ![0] = @ + 1]
            /\ pcM' = "run"
       ELSE pcM' = "wait" /\ UNCHANGED <<run, barriers_done, started>>
  /\ UNCHANGED <<launcherVars, poolVars, num_task, next_task, tsk_task_id, result, old_counter,
                 launches, barriers, failing, failed>>

OwnTaskDone ==
  /\ pcM = "run"
  /\ run[0] = "idle"
  /\ pcM' = "wait"
  /\ UNCHANGED <<launcherVars, poolVars, num_task, next_task, tsk_task_id, result, taskVars,
                 lambdaVars>>

\* WaitForJobs: spin until num_pending_ is 0 ...
WaitForJobs ==
  /\ pcM = "wait"
  /\ num_pending_ = 0
  /\ pcM' = "collect"
  /\ UNCHANGED <<launcherVars, poolVars, num_task, next_task, tsk_task_id, result, taskVars,
                 lambdaVars>>

\* ... then report and clear the errors, if has_error_ says there are any.
CollectErrors ==
  /\ pcM = "collect"
  /\ IF has_error_
       THEN /\ par_errors_' = [i \in DOMAIN par_errors_ |-> FALSE]
            /\ result' = -1
       ELSE result' = 0 /\ UNCHANGED par_errors_
  /\ pcM' = "idle"
  /\ UNCHANGED <<num_pending_, has_error_, sync_counter_, sync_size, poolVars, num_task,
                 next_task, tsk_task_id, taskVars, lambdaVars>>

-----------------------------------------------------------------------------
(* The owner between launches. *)

\* runtime.config_threadpool: SetMaxConcurrency(cpus.size()), then
\* UpdateWorkerConfiguration.
Configure(c) ==
  /\ pcM = "idle"
  /\ max_concurrency' = c.cpus
  /\ num_workers_used_' = WorkersUsed(c, c.cpus)
  /\ UNCHANGED <<launcherVars, queues_, killed, exclude_worker0_, ownerVars, taskVars, lambdaVars>>

\* ThreadPool::Reset kills every queue, joins the threads and starts afresh.
Reset ==
  /\ pcM = "idle"
  /\ killed' = TRUE
  /\ pcM' = "join"
  /\ UNCHANGED <<launcherVars, queues_, num_workers_used_, max_concurrency, exclude_worker0_,
                 num_task, next_task, tsk_task_id, result, taskVars, lambdaVars>>

\* Mutant: the thread of worker 0 is joined although it was never started.
ResetJoinsWorker0 ==
  /\ pcM = "join"
  /\ \A i \in Thread : run[i] = "exited"
  /\ queues_' = [w \in Worker |-> <<>>]
  /\ killed' = FALSE
  /\ num_workers_used_' = InitialWorkersUsed
  /\ run' = [i \in Thread |-> "idle"]
  /\ pcM' = "idle"
  /\ UNCHANGED <<launcherVars, max_concurrency, exclude_worker0_, num_task, next_task,
                 tsk_task_id, result, barriers_done, old_counter, lambdaVars>>

ResetInit ==
  /\ pcM = "join"
  /\ \A w \in Worker : run[w] = "exited"
  /\ queues_' = [w \in Worker |-> <<>>]
  /\ killed' = FALSE
  /\ num_workers_used_' = InitialWorkersUsed
  /\ run' = [i \in Thread |-> "idle"]
  /\ pcM' = "idle"
  /\ UNCHANGED <<launcherVars, max_concurrency, exclude_worker0_, num_task, next_task,
                 tsk_task_id, result, barriers_done, old_counter, lambdaVars>>

-----------------------------------------------------------------------------
(* The workers (RunWorker) and the tasks. *)

\* Pop returns the task; the lambda is called with it.
WorkerPop(w) ==
  /\ run[w] = "idle"
  /\ queues_[w] # <<>>
  /\ queues_' = [queues_ EXCEPT ![w] = Tail(@)]
  /\ run' = [run EXCEPT ![w] = "body"]
  /\ barriers_done' = [barriers_done EXCEPT ![w] = 0]
  /\ started' = [started EXCEPT ![Head(queues_[w])] = @ + 1]
  /\ UNCHANGED <<launcherVars, killed, num_workers_used_, max_concurrency, exclude_worker0_,
                 ownerVars, old_counter, launches, barriers, failing, failed>>

\* Pop returns false.
WorkerExit(w) ==
  /\ run[w] = "idle"
  /\ killed
  /\ run' = [run EXCEPT ![w] = "exited"]
  /\ UNCHANGED <<launcherVars, poolVars, ownerVars, barriers_done, old_counter, lambdaVars>>

\* Mutant: the value after the addition is remembered.
BarrierArriveRemembersNew(i) ==
  /\ run[i] = "body"
  /\ barriers_done[i] < barriers
  /\ old_counter' = [old_counter EXCEPT ![i] = sync_counter_[i] + 1]
  /\ sync_counter_' = [sync_counter_ EXCEPT ![i] = @ + 1]
  /\ run' = [run EXCEPT ![i] = "barrier"]
  /\ UNCHANGED <<num_pending_, has_error_, par_errors_, sync_size, poolVars, ownerVars,
                 barriers_done, lambdaVars>>

\* TVMBackendParallelBarrier: announce the arrival on the own counter ...
BarrierArrive(i) ==
  /\ run[i] = "body"
  /\ barriers_done[i] < barriers
  /\ old_counter' = [old_counter EXCEPT ![i] = sync_counter_[i]]
  /\ sync_counter_' = [sync_counter_ EXCEPT ![i] = @ + 1]
  /\ run' = [run EXCEPT ![i] = "barrier"]
  /\ UNCHANGED <<num_pending_, has_error_, par_errors_, sync_size, poolVars, ownerVars,
                 barriers_done, lambdaVars>>

\* Mutant: a counter as large as the own one was passes the test.
BarrierLeaveEarly(i) ==
  /\ run[i] = "barrier"
  /\ \A j \in 0 .. num_task - 1 : j # i => sync_counter_[j] >= old_counter[i]
  /\ barriers_done' = [barriers_done EXCEPT ![i] = @ + 1]
  /\ run' = [run EXCEPT ![i] = "body"]
  /\ UNCHANGED <<launcherVars, poolVars, ownerVars, old_counter, lambdaVars>>

\* ... and spin on the others'.  The code tests them one after the other; a
\* counter only grows during a launch, so a test passed stays passed.
BarrierLeave(i) ==
  /\ run[i] = "barrier"
  /\ \A j \in 0 .. num_task - 1 : j # i => sync_counter_[j] > old_counter[i]
  /\ barriers_done' = [barriers_done EXCEPT ![i] = @ + 1]
  /\ run' = [run EXCEPT ![i] = "body"]
  /\ UNCHANGED <<launcherVars, poolVars, ownerVars, old_counter, lambdaVars>>

\* The lambda returns: nonzero for a failing task (a failed assert returns -1
\* wherever it stands).
LambdaReturns(i) ==
  /\ run[i] = "body"
  /\ \/ barriers_done[i] = barriers
     \/ EarlyReturn /\ i \in failing
  /\ run' = [run EXCEPT ![i] = IF i \in failing THEN "error" ELSE "finish"]
  /\ failed' = failed \cup ({i} \cap failing)
  /\ UNCHANGED <<launcherVars, poolVars, ownerVars, barriers_done, old_counter, launches,
                 barriers, failing, started>>

SignalJobFinish(i) ==
  /\ run[i] = "finish"
  /\ num_pending_' = num_pending_ - 1
  /\ run' = [run EXCEPT ![i] = "idle"]
  /\ UNCHANGED <<has_error_, par_errors_, sync_counter_, sync_size, poolVars, ownerVars,
                 barriers_done, old_counter, lambdaVars>>

\* SignalJobError(task_id), in the order of the code: num_pending_ ...
SignalJobError(i) ==
  /\ run[i] = "error"
  /\ num_pending_' = num_pending_ - 1
  /\ run' = [run EXCEPT ![i] = "store_error"]
  /\ UNCHANGED <<has_error_, par_errors_, sync_counter_, sync_size, poolVars, ownerVars,
                 barriers_done, old_counter, lambdaVars>>

\* The index thread i passes to SignalJobError: its task, or for the owner
\* tsk.task_id, the task it pushed last, which is indeterminate if it pushed none.
ErrorIndex(i) ==
  IF i \in Worker THEN {i}
  ELSE IF tsk_task_id # Uninitialised THEN {tsk_task_id}
  ELSE -1 .. Len(par_errors_)

\* ... then par_errors_[task_id] (a store outside the vector hits other memory) ...
StoreError(i) ==
  /\ run[i] = "store_error"
  /\ \E at \in ErrorIndex(i) :
       par_errors_' = IF at + 1 \in DOMAIN par_errors_
                        THEN [par_errors_ EXCEPT ![at + 1] = TRUE]
                        ELSE par_errors_
  /\ run' = [run EXCEPT ![i] = "flag_error"]
  /\ UNCHANGED <<num_pending_, has_error_, sync_counter_, sync_size, poolVars, ownerVars,
                 barriers_done, old_counter, lambdaVars>>

\* ... then has_error_.
FlagError(i) ==
  /\ run[i] = "flag_error"
  /\ has_error_' = TRUE
  /\ run' = [run EXCEPT ![i] = "idle"]
  /\ UNCHANGED <<num_pending_, par_errors_, sync_counter_, sync_size, poolVars, ownerVars,
                 barriers_done, old_counter, lambdaVars>>

-----------------------------------------------------------------------------
OwnerStep ==
  \/ InitError \/ InitReshape \/ PushTask \/ PushDone \/ OwnTaskDone
  \/ WaitForJobs \/ CollectErrors \/ ResetInit

TaskStep(i) ==
  \/ BarrierArrive(i) \/ BarrierLeave(i) \/ LambdaReturns(i) \/ SignalJobFinish(i)
  \/ SignalJobError(i) \/ StoreError(i) \/ FlagError(i)

WorkerStep(w) == WorkerPop(w) \/ WorkerExit(w)

CallOfOwner ==
  \/ \E n \in 0 .. num_workers_, k \in 0 .. MaxBarriers, f \in SUBSET MayFail :
       Launch(n, k, f) \/ LaunchInline(k, f)
  \/ \E c \in Configs : Configure(c)
  \/ Reset

Next ==
  \/ CallOfOwner
  \/ OwnerStep
  \/ \E i \in Thread : TaskStep(i)
  \/ \E w \in Worker : WorkerStep(w)

Spec == Init /\ [][Next]_vars

\* The scheduler runs every thread, and lambdas terminate between barriers;
\* whether the owner calls anything is its own affair.
FairSpec ==
  /\ Spec
  /\ WF_vars(OwnerStep)
  /\ \A i \in Thread : WF_vars(TaskStep(i))
  /\ \A w \in Thread : WF_vars(w \in Worker /\ WorkerStep(w))

-----------------------------------------------------------------------------
(* Properties. *)

\* Every variable stays in its type.
TypeOK ==
  /\ num_pending_ \in Int /\ has_error_ \in BOOLEAN
  /\ par_errors_ \in Seq(BOOLEAN)
  /\ sync_counter_ \in [Thread -> Nat] /\ sync_size \in 0 .. num_workers_
  /\ queues_ \in [Worker -> Seq(Thread)] /\ killed \in BOOLEAN
  /\ num_workers_used_ \in 0 .. num_workers_ /\ max_concurrency \in Nat
  /\ exclude_worker0_ \in BOOLEAN
  /\ pcM \in {"idle", "init_error", "init_reshape", "push", "run", "wait", "collect", "join"}
  /\ num_task \in 0 .. num_workers_ /\ next_task \in 0 .. num_workers_
  /\ tsk_task_id \in {Uninitialised} \cup Thread
  /\ result \in {0, -1}
  /\ run \in [Thread -> {"idle", "body", "barrier", "finish", "error", "store_error",
                         "flag_error", "exited"}]
  /\ barriers_done \in [Thread -> 0 .. MaxBarriers] /\ old_counter \in [Thread -> Nat]
  /\ launches \in 0 .. MaxLaunches /\ barriers \in 0 .. MaxBarriers
  /\ failing \subseteq Thread /\ failed \subseteq failing
  /\ started \in [Thread -> Nat]

InLaunch == pcM \in {"init_error", "init_reshape", "push", "run", "wait", "collect"}

\* Task i of the current launch has been announced and has not signalled yet.
InUse(i) == run[i] \in {"body", "barrier", "finish", "error"}

\* num_pending_ is the number of tasks of the launch that have not signalled,
\* whether they still wait to be pushed, sit in a queue or run: WaitForJobs
\* cannot return early, and returns once the last one has signalled.
PendingIsOutstanding ==
  InLaunch => num_pending_ = Cardinality({i \in 0 .. num_task - 1 : started[i] = 0 \/ InUse(i)})

\* flambda and cdata live in the frame that called Launch: no task of a launch
\* runs, or waits in a queue, once Launch has returned.
NoTaskOutlivesLaunch ==
  ~InLaunch => /\ \A i \in Thread : ~InUse(i)
               /\ \A w \in Worker : queues_[w] = <<>>

\* When Launch returns, each of its num_task tasks has been run exactly once and
\* no other task has (c_backend_api.h: "Number of tasks to launch").
EachTaskOnce ==
  pcM = "idle" /\ launches > 0 =>
    \A i \in Thread : started[i] = IF i < num_task THEN 1 ELSE 0

\* BSP: a task past its k-th barrier means every task has arrived at the k-th;
\* so two tasks of a launch are never more than one phase apart.
BarrierSeparates ==
  InLaunch =>
    \A i \in 0 .. num_task - 1 : InUse(i) =>
      \A j \in 0 .. num_task - 1 :
        /\ sync_counter_[j] >= barriers_done[i]
        /\ started[j] = 1 \/ barriers_done[i] = 0

\* A launch returns, whatever the interleaving of owner, workers and barriers.
LaunchReturns == pcM = "init_error" ~> pcM = "idle"

\* Reset returns: every worker sees the kill, also one that is still reporting
\* the error of the last launch.
ResetReturns == pcM = "join" ~> pcM = "idle"

-----------------------------------------------------------------------------
(* What the documentation says of TVMBackendParallelLaunch. *)

\* c_backend_api.h:107, "0 when no error is thrown, -1 when failure happens":
\* what a launch returns says whether one of its tasks failed.
ResultTellsFailure == pcM = "idle" => (result = -1 <=> failed # {})

\* The counter page has a counter for every task of the launch.
CounterPagePerTask == pcM \in {"push", "run", "wait", "collect"} => num_task <= sync_size
=============================================================================

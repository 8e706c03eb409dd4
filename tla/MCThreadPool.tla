----------------------------- MODULE MCThreadPool -----------------------------
(* Small pools: what config_threadpool may be called with in each run. *)
EXTENDS ThreadPool

\* config_threadpool with one cpu (MaxConcurrency() becomes 1), and with two threads
\* (it becomes the number of cores again).
ShrinkAndGrow == {[mode |-> "kSpecify", nthreads |-> 0, cpus |-> 1],
                  [mode |-> "kBig", nthreads |-> 2, cpus |-> 0]}

NoConfig == {}
=============================================================================

----------------------------- MODULE FlowWorker -----------------------------
(***************************************************************************)
(* The loop that drives the case flow outbox in a server process           *)
(* (src/index.ts): one cycle at a time, a timer between cycles, a back-off *)
(* while there is nothing to do, requests to run at once, and shutdown.    *)
(*                                                                         *)
(* JavaScript runs a step at a time: other callbacks run only where a      *)
(* cycle awaits.  Durations are counted in units of the active poll.       *)
(***************************************************************************)
EXTENDS Integers, FiniteSets

CONSTANTS
  Jobs,         \* rows of case_flow_close_jobs
  Poll,         \* CASE_FLOW_WORKER_POLL_MS
  IdlePoll,     \* CASE_FLOW_WORKER_IDLE_POLL_MS
  Batch,        \* CASE_FLOW_WORKER_BATCH_SIZE
  RetryDelays,  \* when a job that was not completed becomes available again:
                \* calculateCaseFlowRetryDelay has a maximum for each kind
  None,         \* null: no timer, no cycle yet, no due date
  Completed     \* a job that is completed, or not there yet

ASSUME FlowWorkerAssumption ==
  /\ Poll \in Nat \ {0} /\ IdlePoll \in Nat /\ IdlePoll >= Poll
  /\ Batch \in Nat \ {0}
  /\ RetryDelays \subseteq Nat \ {0}
  /\ \E d \in RetryDelays \cup {0} : \A e \in RetryDelays : d >= e
  /\ None \notin Int /\ Completed \notin Int

VARIABLES
  process,   \* shuttingDown, and the process's end
  timer,     \* caseFlowWorkerTimer: what remains of it
  cycle,     \* caseFlowWorkerPromise: where the running cycle is
  claimed,   \* jobs this cycle took
  nextDue,   \* when the next job becomes available, as this cycle read it
  drain,     \* caseFlowWorkerDrainRequested
  delay,     \* caseFlowWorkerDelayMs
  failed,    \* caseFlowWorkerLastError # null
  lastCycle, \* time since caseFlowWorkerLastCycleAt
  job,       \* time until the job is available: 0 when it is due
  calling,   \* jobs whose closer has committed and will request a run
  told,      \* how the worker may know that the job is due
  late       \* how long the job is due and no cycle started

loopVars == <<process, timer, cycle, claimed, nextDue, drain, delay, failed, lastCycle,
          job, calling, told, late>>

loop == <<timer, cycle, claimed, nextDue, drain, delay, failed, lastCycle>>

Lesser(a, b)  == IF a < b THEN a ELSE b
Greater(a, b) == IF a > b THEN a ELSE b

StaleAfter == 3 * IdlePoll                      \* /health/db
Longest == Greater(IdlePoll, CHOOSE d \in RetryDelays \cup {0} :
                               \A e \in RetryDelays : d >= e)

Spans == 0..Longest
Due   == {j \in Jobs : job[j] = 0}

LoopTypeOK ==
  /\ process \in {"up", "stopping", "exited"}
  /\ timer \in Spans \cup {None}
  /\ cycle \in {"none", "claiming", "asking", "finishing"}
  /\ claimed \in 0..Batch
  /\ nextDue \in Spans \cup {None}
  /\ drain \in BOOLEAN /\ failed \in BOOLEAN
  /\ delay \in Poll..IdlePoll
  /\ lastCycle \in 0..(StaleAfter + 1) \cup {None}
  /\ job \in [Jobs -> Spans \cup {Completed}]
  /\ calling \subseteq Jobs
  /\ told \in [Jobs -> {"no", "request", "schedule"}]
  /\ late \in [Jobs -> 0..(Longest + 1)]

(* The process starts with a cycle. *)
LoopInit ==
  /\ process = "up" /\ timer = None /\ cycle = "claiming"
  /\ claimed = 0 /\ nextDue = None /\ drain = FALSE /\ delay = Poll
  /\ failed = FALSE /\ lastCycle = None
  /\ job = [j \in Jobs |-> Completed]
  /\ calling = {}
  /\ told = [j \in Jobs |-> "no"]
  /\ late = [j \in Jobs |-> 0]

-----------------------------------------------------------------------------
(* The jobs *)

(* A close commits a job or makes it available again: in this process,     *)
(* which will request a run, or in another one, which requests its own.    *)
Enqueue(j, here) ==
  /\ process # "exited"
  /\ job[j] # 0
  /\ job' = [job EXCEPT ![j] = 0]
  /\ told' = [told EXCEPT ![j] = "no"]
  /\ calling' = IF here THEN calling \cup {j} ELSE calling
  /\ UNCHANGED <<process, loop, late>>

Told(j) ==
  /\ process # "exited"
  /\ j \in calling
  /\ calling' = calling \ {j}
  /\ told' = IF j \in Due THEN [told EXCEPT ![j] = "request"] ELSE told
  /\ UNCHANGED <<process, cycle, claimed, nextDue, delay, failed, lastCycle, job, late>>

(* requestCaseFlowWorkerRun, after the commit; it also runs during shutdown. *)
Request(j) ==
  /\ Told(j)
  /\ IF cycle = "none"
     THEN timer' = 0 /\ UNCHANGED drain
     ELSE drain' = TRUE /\ UNCHANGED timer

-----------------------------------------------------------------------------
(* A cycle: drainCaseFlowCloseJobs *)

Start ==
  /\ process # "exited"
  /\ timer = 0
  /\ timer' = None
  /\ cycle' = "claiming" /\ claimed' = 0 /\ nextDue' = None
  /\ late' = [j \in Jobs |-> 0]
  /\ UNCHANGED <<process, drain, delay, failed, lastCycle, job, calling, told>>

(* One job, completed or rescheduled, in a transaction of its own. *)
Process(j, next) ==
  /\ process # "exited"
  /\ cycle = "claiming" /\ claimed < Batch
  /\ j \in Due
  /\ claimed' = claimed + 1
  /\ job' = [job EXCEPT ![j] = next]
  /\ told' = [told EXCEPT ![j] = IF next = Completed THEN "no" ELSE "schedule"]
  /\ late' = [late EXCEPT ![j] = 0]
  /\ UNCHANGED <<process, timer, cycle, nextDue, drain, delay, failed, lastCycle,
                 calling>>

ClaimedAll ==
  /\ process # "exited"
  /\ cycle = "claiming"
  /\ claimed = Batch \/ Due = {}
  /\ cycle' = IF claimed = 0 THEN "asking" ELSE "finishing"
  /\ failed' = (failed /\ claimed = 0)
  /\ UNCHANGED <<process, timer, claimed, nextDue, drain, delay, lastCycle, job, calling, told, late>>

(* getNextCaseFlowCloseJobDueAt *)
AskNextDue ==
  /\ process # "exited"
  /\ cycle = "asking"
  /\ LET open == {j \in Jobs : job[j] # Completed}
     IN \/ open = {} /\ nextDue' = None
        \/ \E j \in open : /\ \A k \in open : job[j] <= job[k]
                         /\ nextDue' = job[j]
  /\ cycle' = "finishing"
  /\ failed' = FALSE
  /\ UNCHANGED <<process, timer, claimed, drain, delay, lastCycle, job, calling, told, late>>

(* The database cannot be reached: what the cycle claimed is not counted. *)
CycleError ==
  /\ process # "exited"
  /\ cycle \in {"claiming", "asking"}
  /\ failed' = TRUE /\ claimed' = 0
  /\ cycle' = "finishing"
  /\ UNCHANGED <<process, timer, nextDue, drain, delay, lastCycle, job, calling, told, late>>

(* Mutant: the back-off has no limit. *)
Doubled == 2 * Greater(delay, Poll)

BackedOff == Lesser(2 * Greater(delay, Poll), IdlePoll)

(* Mutant: an idle worker only backs off. *)
IdleOnly == BackedOff

IdleDelay ==
  IF nextDue = None THEN BackedOff ELSE Greater(Poll, Lesser(BackedOff, nextDue))

(* nextCaseFlowWorkerDelay *)
NextDelay ==
  IF drain \/ claimed >= Batch THEN 0
  ELSE IF claimed = 0 THEN IdleDelay ELSE Poll

(* Mutant: a cycle that failed does not schedule the next one. *)
FinishUnlessFailed ==
  /\ process # "exited" /\ cycle = "finishing"
  /\ cycle' = "none" /\ lastCycle' = 0 /\ drain' = FALSE
  /\ delay' = IF ~drain /\ claimed = 0 THEN BackedOff ELSE Poll
  /\ timer' = IF process = "up" /\ ~failed THEN NextDelay ELSE timer
  /\ UNCHANGED <<process, claimed, nextDue, failed, job, calling, told, late>>

Finish ==
  /\ process # "exited"
  /\ cycle = "finishing"
  /\ cycle' = "none" /\ lastCycle' = 0 /\ drain' = FALSE
  /\ delay' = IF ~drain /\ claimed = 0 THEN BackedOff ELSE Poll
  /\ timer' = IF process = "up" THEN NextDelay ELSE timer
  /\ UNCHANGED <<process, claimed, nextDue, failed, job, calling, told, late>>

-----------------------------------------------------------------------------
(* Shutdown: no timer, a bounded wait for the running cycle, the end. *)

Shutdown ==
  /\ process = "up"
  /\ process' = "stopping"
  /\ timer' = None
  /\ UNCHANGED <<cycle, claimed, nextDue, drain, delay, failed, lastCycle, job, calling, told, late>>

Exit ==
  /\ process = "stopping"
  /\ process' = "exited"
  /\ UNCHANGED <<loop, job, calling, told, late>>

-----------------------------------------------------------------------------
(* A timer that is up runs before time goes on; a cycle takes its time. *)
Minus1(w) == IF w \in Int /\ w > 0 THEN w - 1 ELSE w

Tick ==
  /\ process # "exited"
  /\ timer # 0
  /\ timer' = Minus1(timer)
  /\ nextDue' = Minus1(nextDue)
  /\ job' = [j \in Jobs |-> Minus1(job[j])]
  /\ late' = [j \in Jobs |-> IF j \in Due /\ cycle = "none"
                             THEN Lesser(late[j] + 1, Longest + 1) ELSE late[j]]
  /\ lastCycle' = IF lastCycle = None THEN None ELSE Lesser(lastCycle + 1, StaleAfter + 1)
  /\ UNCHANGED <<process, cycle, claimed, drain, delay, failed, calling, told>>

LoopNext ==
  \/ \E j \in Jobs, here \in BOOLEAN : Enqueue(j, here)
  \/ \E j \in Jobs : Request(j)
  \/ Start
  \/ \E j \in Jobs, next \in RetryDelays \cup {Completed} : Process(j, next)
  \/ ClaimedAll \/ AskNextDue \/ CycleError \/ Finish
  \/ Shutdown \/ Exit
  \/ Tick

LoopSpec == LoopInit /\ [][LoopNext]_loopVars

-----------------------------------------------------------------------------
(* Properties *)

(* The loop never stops and never runs twice: while the process is up there *)
(* is either a cycle or a timer for the next one, whatever a cycle met.     *)
OneCycleOrTimer == process = "up" => (cycle # "none" <=> timer = None)

Resting == process = "up" /\ cycle = "none"

(* A job this process was told about does not wait for a timer, although    *)
(* the request may come while a cycle that no longer looks is ending.       *)
RequestedJobsRunNow ==
  Resting /\ ~failed => \A j \in Due : told[j] = "request" => timer = 0

(* A scheduled retry is picked up within a poll of its due date although    *)
(* the loop backs off, and a job another process left behind within the     *)
(* idle poll.                                                               *)
JobsAreNotLate ==
  Resting => \A j \in Due :
            late[j] <= IF told[j] = "schedule" /\ ~failed THEN Poll ELSE IdlePoll

Ready ==
  /\ process = "up" /\ ~failed
  /\ cycle # "none" \/ (timer # None /\ lastCycle # None /\ lastCycle <= StaleAfter)

(* /health/db calls a worker that is up and whose last cycle succeeded      *)
(* ready, however long it waits between two cycles.                         *)
HealthyWorkerIsReady == process = "up" /\ ~failed => Ready

(* The loop keeps up with its jobs, and is called ready while it does. *)
KeepsUp == RequestedJobsRunNow /\ JobsAreNotLate /\ HealthyWorkerIsReady
=============================================================================

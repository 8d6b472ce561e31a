------------------------------- MODULE Runner -------------------------------
(***************************************************************************)
(* One workflow run: internal/runner/runner.go and runner_unix.go.  Runs   *)
(* share nothing but the map they are listed in.  A step is a shell, which *)
(* may leave a process behind, with the step's output open or without.     *)
(***************************************************************************)
EXTENDS Integers

CONSTANTS
  Job,    \* the jobs of the workflow, run in any order
  Steps   \* Steps[j]: how many steps job j has

VARIABLES
  status,   \* "none" before Execute, then WorkflowStatus
  at,       \* where executeWorkflow is
  jobs,     \* jobs not begun
  left,     \* steps not begun of the job under way
  shell,    \* the shell runs
  child,    \* a process it left behind: "none", "attached" to the output, "detached"
  exit,     \* how the shell ended: "ok", "error", "killed"
  runOver,  \* maxRunDuration is over
  stepOver, \* stepTimeout is over
  failed    \* a step failed (history)

runVars == <<status, at, jobs, left, shell, child, exit, runOver, stepOver, failed>>
processes == <<shell, child, exit>>
timers == <<runOver, stepOver>>

RunInit ==
  /\ status = "none" /\ at = "idle" /\ jobs = Job /\ left = 0
  /\ shell = FALSE /\ child = "none" /\ exit = "ok"
  /\ runOver = FALSE /\ stepOver = FALSE /\ failed = FALSE

Final == {"success", "failed", "canceled"}
End(s) == status' = s /\ at' = "end"
-----------------------------------------------------------------------------
\* Runner.Execute lists the run and starts executeWorkflow.
Execute ==
  /\ status = "none"
  /\ status' = "pending" /\ at' = "start"
  /\ UNCHANGED <<jobs, left, processes, timers, failed>>

Begin ==
  /\ at = "start"
  /\ status' = "running" /\ at' = "jobs"
  /\ UNCHANGED <<jobs, left, processes, timers, failed>>

\* The next job, of a map without order.
NextJob(j) ==
  /\ at = "jobs" /\ j \in jobs
  /\ IF runOver THEN End("canceled") /\ UNCHANGED <<jobs, left>>
     ELSE jobs' = jobs \ {j} /\ left' = Steps[j] /\ at' = "steps" /\ status' = status
  /\ UNCHANGED <<processes, timers, failed>>

\* executeStep up to the start of the shell; the script may be refused, or not
\* be written.  What an earlier step left behind belongs to another process
\* group and is not followed any more.
StartStep(ok) ==
  /\ at = "steps" /\ left > 0
  /\ IF runOver \/ ~ok
     THEN /\ End(IF runOver THEN "canceled" ELSE "failed")
          /\ failed' = (failed \/ ~runOver)
          /\ UNCHANGED <<left, processes, stepOver>>
     ELSE /\ left' = left - 1 /\ at' = "step" /\ status' = status
          /\ shell' = TRUE /\ child' = "none" /\ exit' = "ok"
          /\ stepOver' = FALSE /\ failed' = failed
  /\ UNCHANGED <<jobs, runOver>>

\* killProcessGroup.
KillGroup == child' = "none"

\* CombinedOutput returns when the shell has ended and nobody holds its output
\* open any more; a step that was killed for its time has the rest killed then.
FinishStep ==
  /\ at = "step" /\ ~shell /\ child # "attached"
  /\ IF exit = "ok" THEN at' = "steps" /\ UNCHANGED <<status, failed>>
     ELSE End("failed") /\ failed' = TRUE
  /\ IF exit # "ok" /\ (stepOver \/ runOver) THEN KillGroup ELSE child' = child
  /\ UNCHANGED <<jobs, left, shell, exit, timers>>

\* Mutant of FinishJob: the last job ends the run, whatever is left of it.
FinishJobEarly ==
  /\ at = "steps" /\ (left = 0 \/ jobs = {})
  /\ at' = "jobs"
  /\ UNCHANGED <<status, jobs, left, processes, timers, failed>>

FinishJob ==
  /\ at = "steps" /\ left = 0
  /\ at' = "jobs"
  /\ UNCHANGED <<status, jobs, left, processes, timers, failed>>

Succeed ==
  /\ at = "jobs" /\ jobs = {}
  /\ End("success")
  /\ UNCHANGED <<jobs, left, processes, timers, failed>>
-----------------------------------------------------------------------------
\* The script: it starts a process of its own, or ends.
Fork(how) ==
  /\ shell /\ child = "none"
  /\ child' = how
  /\ UNCHANGED <<status, at, jobs, left, shell, exit, timers, failed>>

Exit(how) ==
  /\ shell /\ shell' = FALSE /\ exit' = how
  /\ UNCHANGED <<status, at, jobs, left, child, timers, failed>>

ChildExits ==
  /\ child # "none" /\ child' = "none"
  /\ UNCHANGED <<status, at, jobs, left, shell, exit, timers, failed>>

RunTimeout ==
  /\ at \notin {"idle", "start", "end"} /\ ~runOver /\ runOver' = TRUE
  /\ UNCHANGED <<status, at, jobs, left, processes, stepOver, failed>>

StepTimeout ==
  /\ at = "step" /\ ~stepOver /\ stepOver' = TRUE
  /\ UNCHANGED <<status, at, jobs, left, processes, runOver, failed>>

\* Mutant of Kill: the time of the run is not passed on to its steps.
KillNever == FALSE /\ UNCHANGED runVars

\* exec.CommandContext kills the shell, and the shell only.
Kill ==
  /\ shell /\ (runOver \/ stepOver)
  /\ shell' = FALSE /\ exit' = "killed"
  /\ UNCHANGED <<status, at, jobs, left, child, timers, failed>>

ExecuteWorkflow ==
  \/ Begin \/ FinishStep \/ FinishJob \/ Succeed
  \/ \E j \in Job : NextJob(j)
  \/ \E ok \in BOOLEAN : StartStep(ok)

RunNext ==
  \/ Execute \/ ExecuteWorkflow
  \/ \E how \in {"attached", "detached"} : Fork(how)
  \/ \E how \in {"ok", "error"} : Exit(how)
  \/ ChildExits \/ RunTimeout \/ StepTimeout \/ Kill

\* The goroutine and the timers run, and what a script leaves behind ends some
\* time; the script itself need not.
RunFairness ==
  WF_runVars(ExecuteWorkflow) /\ WF_runVars(Kill) /\ WF_runVars(StepTimeout)
    /\ WF_runVars(ChildExits)

RunSpec == RunInit /\ [][RunNext]_runVars /\ RunFairness
-----------------------------------------------------------------------------
\* A run succeeds only if every step of every job has run and none has failed,
\* though its time may be over by then; and a step that is killed for its time
\* leaves none of its processes.
StatusTrue ==
  /\ status = "success" => jobs = {} /\ left = 0 /\ ~failed
  /\ at = "end" /\ exit = "killed" => ~shell /\ child = "none"

\* Every run ends, even if a script hangs.
RunEnds == status = "pending" ~> status \in Final
=============================================================================

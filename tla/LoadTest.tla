------------------------------- MODULE LoadTest -------------------------------
(***************************************************************************)
(* load-test (src/load_test.py): notifies uploads and then polls Prefect   *)
(* for their process_upload runs, one request a run, until all have ended, *)
(* one has failed or the time is up.  Runs go on between two requests.     *)
(***************************************************************************)
EXTENDS Naturals, FiniteSets

CONSTANT Task       \* the runs it waits for

VARIABLES
    taskState,  \* what Prefect knows of each run
    late,       \* the deadline has passed
    completed,  \* the runs it has seen ended
    unread,     \* those still to be read in this poll
    waiting     \* "polling", or how it ended: "done", "failed" or "timed out"

loadVars == <<taskState, late, completed, unread, waiting>>

\* The states in which Prefect leaves a run; is_failed is only the second.
Final == {"completed", "failed", "crashed"}

LoadInit ==
    /\ taskState = [t \in Task |-> "running"]
    /\ late = FALSE /\ completed = {} /\ unread = Task
    /\ waiting = IF Task = {} THEN "done" ELSE "polling"

TaskEnds ==
    /\ waiting = "polling"
    /\ \E t \in Task, s \in Final :
           taskState[t] = "running" /\ taskState' = [taskState EXCEPT ![t] = s]
    /\ UNCHANGED <<late, completed, unread, waiting>>

DeadlinePasses ==
    /\ waiting = "polling" /\ ~late
    /\ late' = TRUE
    /\ UNCHANGED <<taskState, completed, unread, waiting>>

\* Mutant: a run that has not failed has ended.
ReadTaskRunOnce ==
    /\ waiting = "polling"
    /\ \E t \in unread :
           /\ unread' = unread \ {t}
           /\ \/ taskState[t] = "failed" /\ waiting' = "failed" /\ UNCHANGED completed
              \/ taskState[t] # "failed" /\ completed' = completed \cup {t} /\ UNCHANGED waiting
    /\ UNCHANGED <<taskState, late>>

\* read_task_run: a failed one ends the wait, any other final one is completed.
ReadTaskRun ==
    /\ waiting = "polling"
    /\ \E t \in unread :
           /\ unread' = unread \ {t}
           /\ \/ taskState[t] = "failed" /\ waiting' = "failed" /\ UNCHANGED completed
              \/ /\ taskState[t] \in Final \ {"failed"}
                 /\ completed' = completed \cup {t} /\ UNCHANGED waiting
              \/ taskState[t] = "running" /\ UNCHANGED <<completed, waiting>>
    /\ UNCHANGED <<taskState, late>>

\* Every run was read: the deadline comes first, even when all have completed.
EndPoll ==
    /\ waiting = "polling" /\ unread = {}
    /\ unread' = Task \ completed
    /\ waiting' = IF late THEN "timed out" ELSE IF completed = Task THEN "done" ELSE "polling"
    /\ UNCHANGED <<taskState, late, completed>>

LoadNext ==
    \/ TaskEnds \/ DeadlinePasses \/ ReadTaskRun \/ EndPoll
    \/ waiting # "polling" /\ UNCHANGED loadVars

-----------------------------------------------------------------------------
(* Properties.                                                             *)

\* wait_for_completions (src/load_test.py:30-50) reads the runs at different times
\* and only those it has not counted; still it returns only when all have ended and
\* none of them failed, and a failure it raises is one.  A crashed run counts as
\* completed: the code asks for is_failed, which a crash is not.
ReturnsWhenAllEnded ==
    /\ waiting = "done" => \A t \in Task : taskState[t] \in Final \ {"failed"}
    /\ waiting = "failed" => \E t \in Task : taskState[t] = "failed"
    /\ waiting = "timed out" => late /\ \A t \in completed : taskState[t] # "failed"
=============================================================================

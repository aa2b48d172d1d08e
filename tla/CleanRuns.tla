------------------------------ MODULE CleanRuns ------------------------------
(***************************************************************************)
(* clean-runs (src/clean_runs.py): deletes the flow runs it has listed, in *)
(* passes, because Prefect refuses to delete a run that others still refer *)
(* to, and may fail for reasons of its own.  Someone else may delete runs  *)
(* meanwhile; a run that is gone cannot be deleted again.                  *)
(***************************************************************************)
EXTENDS Naturals, FiniteSets

CONSTANTS
    FlowRun,    \* flow runs Prefect has when the command starts
    Parents     \* what each run's parent may be: functions of FlowRun to runs or itself

\* A subflow is created by its parent: among any runs there is a youngest, which none
\* of the others has as its parent.
ASSUME CleanRunsAssumption ==
    \A f \in Parents, S \in SUBSET FlowRun :
        S # {} => \E r \in S : \A s \in S \ {r} : f[s] # r

VARIABLES
    parent,     \* flow run -> the run it is a subflow of, or itself
    runs,       \* flow runs Prefect still has
    elsewhere,  \* those that somebody else deleted
    flaky,      \* has a deletion failed for no lasting reason
    remaining,  \* what this pass is to delete
    untried,    \* what it has not tried yet
    refused,    \* failed
    cleaning    \* "deleting", "done" or "stopped"

cleanVars == <<parent, runs, elsewhere, flaky, remaining, untried, refused, cleaning>>

CleanInit ==
    /\ parent \in Parents
    /\ runs = FlowRun /\ elsewhere = {} /\ flaky = FALSE
    /\ remaining = FlowRun /\ untried = FlowRun /\ refused = {}
    /\ cleaning = IF FlowRun = {} THEN "done" ELSE "deleting"

\* Prefect refuses a run that others refer to, and one that is gone.
Deletable(r) == r \in runs /\ \A s \in runs \ {r} : parent[s] # r

\* delete_flow_run for the next run of the pass; any exception is a failure.
DeleteRun ==
    /\ cleaning = "deleting"
    /\ \E r \in untried :
           /\ untried' = untried \ {r}
           /\ \/ /\ Deletable(r)
                 /\ runs' = runs \ {r}
                 /\ UNCHANGED <<refused, flaky>>
              \/ /\ refused' = refused \cup {r}
                 /\ flaky' = (flaky \/ Deletable(r))
                 /\ UNCHANGED runs
    /\ UNCHANGED <<parent, elsewhere, remaining, cleaning>>

\* Mutant: it stops as soon as a pass had failures.
EndPassAtOnce ==
    /\ cleaning = "deleting" /\ untried = {}
    /\ IF refused # {} THEN cleaning' = "stopped" /\ UNCHANGED <<remaining, untried>>
       ELSE remaining' = refused /\ untried' = refused /\ cleaning' = "done"
    /\ refused' = {}
    /\ UNCHANGED <<parent, runs, elsewhere, flaky>>

\* The pass is over: it stops when it deleted nothing, and else tries the rest again.
EndPass ==
    /\ cleaning = "deleting" /\ untried = {}
    /\ IF refused = remaining THEN cleaning' = "stopped" /\ UNCHANGED <<remaining, untried>>
       ELSE /\ remaining' = refused /\ untried' = refused
            /\ cleaning' = IF refused = {} THEN "done" ELSE "deleting"
    /\ refused' = {}
    /\ UNCHANGED <<parent, runs, elsewhere, flaky>>

DeletedElsewhere ==
    /\ cleaning = "deleting"
    /\ \E r \in runs :
           /\ Deletable(r)
           /\ runs' = runs \ {r} /\ elsewhere' = elsewhere \cup {r}
    /\ UNCHANGED <<parent, flaky, remaining, untried, refused, cleaning>>

CleanNext ==
    \/ DeleteRun \/ EndPass \/ DeletedElsewhere
    \/ cleaning # "deleting" /\ UNCHANGED cleanVars

-----------------------------------------------------------------------------
(* Properties.                                                             *)

\* "each pass clears whatever it can and retries the rest until nothing more can
\* be removed" (src/clean_runs.py:6): however deep the subflows nest and in
\* whatever order a pass tries them, it stops before the end only if Prefect failed
\* for no lasting reason or somebody else deleted a run; "done" is all of them.
ClearsWhatItCan ==
    /\ cleaning = "done" => runs = {}
    /\ cleaning = "stopped" => flaky \/ elsewhere # {}
=============================================================================

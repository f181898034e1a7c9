------------------------------ MODULE Mission ------------------------------
(***************************************************************************)
(* One mission: the planner's bounded attempts at a valid plan, the loop   *)
(* of MissionEngine over its steps, each run as a task of its own through  *)
(* the agent graph (AgentRun has that graph in full), and what cancelling  *)
(* the mission's task, or the task of one of its steps, does to it.        *)
(***************************************************************************)
EXTENDS Naturals, Sequences, FiniteSets, SequencesExt, FiniteSetsExt

CONSTANTS
    RawPlans,        (* what a planning call may return: <<>> is no plan at all    *)
    Permission,      (* tool names -> SAFE, CONFIRM or RESTRICTED                  *)
    Approved,        (* approved_tools of the request                              *)
    MaxAttempts,     (* MAX_PLANNING_ATTEMPTS                                      *)
    MaxSteps,        (* max_steps                                                  *)
    MaxRetries,      (* max_retries_per_step                                       *)
    MaxToolCalls,    (* max_tool_calls                                             *)
    CallsPerStep     (* tool calls one step's graph run can make at most           *)

ASSUME LimitsAssumption ==
    /\ MaxAttempts \in Nat \ {0} /\ MaxSteps \in Nat \ {0} /\ MaxRetries \in Nat
    /\ MaxToolCalls \in Nat /\ CallsPerStep \in Nat \ {0}

\* A plan is a list of steps, and a call may return none.
ASSUME PlansAssumption == <<>> \in RawPlans /\ \A raw \in RawPlans : raw \in Seq(Range(raw))

MissionTools == DOMAIN Permission
MaxLoopIterations == MaxSteps * (MaxRetries + 1) + 10

VARIABLES
    place,         \* where the mission's coroutine stands
    attempt,       \* planning calls made
    mission,       \* Mission.status, "none" before there is one
    plan,          \* the steps: [id, tool, deps, runIf] in plan order
    stat,          \* MissionStep.status per step
    retries,       \* MissionStep.retries per step
    runs,          \* per step, the TaskRecord statuses of its runs, newest last
    cur,           \* the step whose run is under way, 0 for none
    prompt,        \* the approval request of that run: none, pending, approved, refused
    result,        \* the last result of the step's tool in it: none, ok, failed
    results,       \* its tool results so far
    toolCalls,     \* Mission.tool_call_count
    iterations,    \* turns of the engine's loop
    halted,        \* the limit that ended the mission, "none" if none did
    sessions,      \* the run's MCP sessions: the pool's, its own, or unclosed
    rec,           \* TaskRecord.status of the mission's own task
    cancelling,    \* handle.cancel() was called, CancelledError not yet delivered
    polling,       \* an AgentRunner.cancel() call waits for the mission's record
    stepCancel     \* one waiting for a step's record: <<step, run>>, or <<>>

planVars   == <<attempt, plan, sessions>>
stepVars   == <<stat, retries, runs>>
stepRunVars == <<cur, prompt, result, results>>
limitVars  == <<toolCalls, iterations, halted>>
cancelVars == <<cancelling, polling, stepCancel>>
missionVars == <<place, mission, rec, planVars, stepVars, stepRunVars, limitVars, cancelVars>>

Steps == DOMAIN plan
GoOnTo(l) == place' = l

-----------------------------------------------------------------------------
(* Statuses.                                                               *)

StepDone(s)    == s \in {"COMPLETED", "FAILED", "SKIPPED", "CANCELLED"}
MissionDone(s) == s \in {"COMPLETED", "FAILED", "CANCELLED"}
Terminal(s)    == s \in {"completed", "cancelled", "error"}      \* of a task record

\* The status sink of a record, and _mark_cancelled, as in AgentRun.
OnPrompt(s) == IF Terminal(s) THEN s ELSE "permission_required"
OnEvent(s)  == IF s = "permission_required" THEN "running" ELSE s
MarkCancelled(s) == IF Terminal(s) THEN s ELSE "cancelled"

\* The sinks of the step's record and, through the mirror, of the mission's.
Sinks(Op(_)) ==
    /\ runs' = [runs EXCEPT ![cur][Len(runs[cur])] = Op(@)]
    /\ rec' = Op(rec)

-----------------------------------------------------------------------------
(* Planning.                                                               *)

MissionInit ==
    /\ place = "opening" /\ attempt = 0 /\ mission = "none" /\ sessions \in {"pool", "own"}
    /\ plan = <<>> /\ stat = <<>> /\ retries = <<>> /\ runs = <<>>
    /\ cur = 0 /\ prompt = "none" /\ result = "none" /\ results = 0
    /\ toolCalls = 0 /\ iterations = 0 /\ halted = "none"
    /\ rec = "running" /\ cancelling = FALSE /\ polling = FALSE /\ stepCancel = <<>>

\* Provider and tool registry are there: the mission exists, in its store too.
Open ==
    /\ place = "opening" /\ ~cancelling
    /\ mission' = "PLANNING"
    /\ GoOnTo("planning")
    /\ UNCHANGED <<rec, planVars, stepVars, stepRunVars, limitVars, cancelVars>>

OpenFails ==
    /\ place = "opening" /\ ~cancelling
    /\ rec' = "error"
    /\ GoOnTo("done")
    /\ UNCHANGED <<mission, planVars, stepVars, stepRunVars, limitVars, cancelVars>>

\* find_cycle finds none (PlanGraph checks and proves that this is what it says).
Acyclic(raw) ==
    \A S \in SUBSET DOMAIN raw : S # {} =>
        \E i \in S : \A j \in S : raw[j].id \notin raw[i].deps

\* _validate_raw_plan.
ValidPlan(raw) ==
    /\ raw # <<>>
    /\ \A i, j \in DOMAIN raw : raw[i].id = raw[j].id => i = j
    /\ \A i \in DOMAIN raw :
          /\ raw[i].tool \in MissionTools /\ Permission[raw[i].tool] # "RESTRICTED"
          /\ raw[i].runIf \in {"always", "on_success", "on_failure"}
          /\ raw[i].deps \subseteq {raw[j].id : j \in DOMAIN raw} \ {raw[i].id}
    /\ Acyclic(raw)

\* _fail_mission, then the result on its way through the exit stack.
Fail ==
    /\ mission' = "FAILED"
    /\ rec' = OnEvent(rec)
    /\ GoOnTo("closing")

PlanAccepted(raw) ==
    /\ place = "planning"
    /\ ValidPlan(raw) /\ Len(raw) <= MaxSteps
    /\ plan' = raw
    /\ stat' = [i \in DOMAIN raw |-> "PENDING"]
    /\ retries' = [i \in DOMAIN raw |-> 0]
    /\ runs' = [i \in DOMAIN raw |-> <<>>]
    /\ mission' = "RUNNING"
    /\ GoOnTo("loop")
    /\ UNCHANGED <<attempt, sessions, rec, stepRunVars, limitVars, cancelVars>>

\* A valid plan over the step limit is not sent back for correction.
PlanTooLong(raw) ==
    /\ place = "planning"
    /\ ValidPlan(raw) /\ Len(raw) > MaxSteps
    /\ Fail
    /\ UNCHANGED <<planVars, stepVars, stepRunVars, limitVars, cancelVars>>

\* An invalid plan, no plan, or a provider error: ask again, but not for ever.
PlanRejected(raw) ==
    /\ place = "planning"
    /\ ~ValidPlan(raw)
    /\ attempt' = attempt + 1
    /\ IF attempt' = MaxAttempts THEN Fail ELSE UNCHANGED <<place, mission, rec>>
    /\ UNCHANGED <<plan, sessions, stepVars, stepRunVars, limitVars, cancelVars>>

-----------------------------------------------------------------------------
(* The loop over the steps.                                                *)

DepsOf(i) == {j \in Steps : plan[j].id \in plan[i].deps}

Within == iterations < MaxLoopIterations /\ toolCalls <= MaxToolCalls
Turn   == iterations' = iterations + 1 /\ UNCHANGED <<toolCalls, halted>>

\* One of the limits is reached: the loop counter, the clock, the tool calls.
Halt(why) ==
    /\ place = "loop"
    /\ \/ why = "max_loop_iterations" /\ iterations >= MaxLoopIterations
       \/ why = "max_runtime"
       \/ why = "max_tool_calls" /\ toolCalls > MaxToolCalls
    /\ halted' = why /\ iterations' = iterations + 1
    /\ Fail
    /\ UNCHANGED <<planVars, stepVars, stepRunVars, toolCalls, cancelVars>>

\* _next_step: the first pending step whose dependencies have all ended.
NextIfCompleted(i) ==                    \* variant: waits for dependencies to succeed
    /\ i \in Steps /\ stat[i] = "PENDING" /\ \A j \in DepsOf(i) : stat[j] = "COMPLETED"
    /\ \A k \in 1..(i - 1) : ~(stat[k] = "PENDING" /\ \A j \in DepsOf(k) : stat[j] = "COMPLETED")
NextStep(i) ==
    /\ i \in Steps /\ stat[i] = "PENDING" /\ \A j \in DepsOf(i) : StepDone(stat[j])
    /\ \A k \in 1..(i - 1) : ~(stat[k] = "PENDING" /\ \A j \in DepsOf(k) : StepDone(stat[j]))

\* _run_if_eligible.
EligibleUnlessCancelled(i) == \A j \in DepsOf(i) : stat[j] # "CANCELLED"   \* variant
Eligible(i) ==
    /\ \A j \in DepsOf(i) : stat[j] # "CANCELLED"
    /\ plan[i].runIf = "on_success" => \A j \in DepsOf(i) : stat[j] = "COMPLETED"
    /\ plan[i].runIf = "on_failure" => \E j \in DepsOf(i) : stat[j] = "FAILED"

SkipStep(i) ==
    /\ place = "loop" /\ Within
    /\ NextStep(i) /\ ~Eligible(i)
    /\ stat' = [stat EXCEPT ![i] = "SKIPPED"]
    /\ Turn
    /\ UNCHANGED <<place, mission, rec, planVars, retries, runs, stepRunVars, cancelVars>>

\* A step begins: a task record of its own and a graph over its one tool.
StartStep(i) ==
    /\ place = "loop" /\ Within
    /\ NextStep(i) /\ Eligible(i)
    /\ stat' = [stat EXCEPT ![i] = "RUNNING"]
    /\ runs' = [runs EXCEPT ![i] = Append(@, "running")]
    /\ cur' = i /\ prompt' = "none" /\ result' = "none" /\ results' = 0
    /\ Turn
    /\ GoOnTo("stepping")
    /\ UNCHANGED <<mission, rec, planVars, retries, cancelVars>>

\* _mission_outcome: a failed step needs a completed recovery step.
Recovered(i) ==
    \E j \in Steps : plan[j].runIf = "on_failure" /\ i \in DepsOf(j) /\ stat[j] = "COMPLETED"
Unhandled == {i \in Steps : stat[i] = "FAILED" /\ ~Recovered(i)}

\* Nothing left to run: a failed mission returns, a completed one is summed up.
EndLoop ==
    /\ place = "loop" /\ Within
    /\ ~ \E i \in Steps : NextStep(i)
    /\ IF Unhandled = {} THEN mission' = "COMPLETED" /\ GoOnTo("summarising")
                         ELSE mission' = "FAILED" /\ GoOnTo("closing")
    /\ Turn
    /\ UNCHANGED <<rec, planVars, stepVars, stepRunVars, cancelVars>>

-----------------------------------------------------------------------------
(* The run of a step.                                                      *)

Tool == plan[cur].tool
MustAsk == Permission[Tool] = "CONFIRM" /\ Tool \notin Approved

Result(r) == result' = r /\ results' = results + 1

\* The model calls the step's tool and need not ask for it.
CallTool(r) ==
    /\ place = "stepping" /\ results < CallsPerStep
    /\ ~MustAsk /\ r \in {"ok", "failed"}
    /\ Result(r)
    /\ UNCHANGED <<place, mission, rec, planVars, stepVars, cur, prompt, limitVars, cancelVars>>

\* It must ask: the step, its record and the mission's record wait for the user.
AskUser ==
    /\ place = "stepping" /\ results < CallsPerStep
    /\ MustAsk /\ prompt # "refused"
    /\ prompt' = "pending"
    /\ stat' = [stat EXCEPT ![cur] = "WAITING_APPROVAL"]
    /\ Sinks(OnPrompt)
    /\ GoOnTo("waiting")
    /\ UNCHANGED <<mission, planVars, retries, cur, result, results, limitVars, cancelVars>>

\* It was refused in this run already: not asked again, and not run.
AlreadyRefused ==
    /\ place = "stepping" /\ results < CallsPerStep
    /\ MustAsk /\ prompt = "refused"
    /\ Result("failed")
    /\ UNCHANGED <<place, mission, rec, planVars, stepVars, cur, prompt, limitVars, cancelVars>>

\* The user decides, or the request expires.
SettlePrompt(p) ==
    /\ place = "waiting" /\ prompt = "pending" /\ prompt' = p
    /\ UNCHANGED <<place, mission, rec, planVars, stepVars, cur, result, results, limitVars, cancelVars>>
UserDecides == \E p \in {"approved", "refused"} : SettlePrompt(p)
NeverExpires == FALSE /\ UNCHANGED missionVars          \* variant: a wait without a timeout
Expires == SettlePrompt("refused")

\* The tool node goes on; the next event puts both records back to running.
Resume(r) ==
    /\ place = "waiting" /\ prompt # "pending"
    /\ r \in IF prompt = "approved" THEN {"ok", "failed"} ELSE {"failed"}
    /\ Result(r)
    /\ Sinks(OnEvent)
    /\ GoOnTo("stepping")
    /\ UNCHANGED <<mission, planVars, stat, retries, cur, prompt, limitVars, cancelVars>>

\* SAFE tools may be retried, CONFIRM tools never are.
CanRetryAny(i) == retries[i] < MaxRetries        \* variant: whatever the permission
CanRetry(i) == Permission[plan[i].tool] = "SAFE" /\ retries[i] < MaxRetries

\* Only an action has an effect to verify, and only one that ran can be found FAILED.
MayFallShort == result = "ok" /\ Permission[Tool] # "SAFE"

\* A step whose tool was never called has ended as well as one whose tool did its work.
CarriedOut(error, unmet) == ~error /\ ~unmet /\ result # "failed"

\* The graph run ends, with a graph-level error or not, and the tool's effect
\* verified or found missing.  The step's record is finished, whatever it says.
StepEnds(error, unmet) ==
    /\ place = "stepping"
    /\ unmet => MayFallShort
    /\ toolCalls' = toolCalls + results
    /\ runs' = [runs EXCEPT ![cur][Len(runs[cur])] = IF error THEN "error" ELSE "completed"]
    /\ IF CarriedOut(error, unmet)
       THEN stat' = [stat EXCEPT ![cur] = "COMPLETED"] /\ UNCHANGED retries
       ELSE IF CanRetry(cur)
       THEN stat' = [stat EXCEPT ![cur] = "PENDING"] /\ retries' = [retries EXCEPT ![cur] = @ + 1]
       ELSE stat' = [stat EXCEPT ![cur] = "FAILED"] /\ UNCHANGED retries
    /\ cur' = 0 /\ prompt' = "none" /\ result' = "none" /\ results' = 0
    /\ GoOnTo("loop")
    /\ UNCHANGED <<mission, rec, planVars, iterations, halted, cancelVars>>

-----------------------------------------------------------------------------
(* The end of the mission.                                                 *)

\* The wrap-up call returned, or failed and was replaced.
Summarised ==
    /\ place = "summarising"
    /\ GoOnTo("closing")
    /\ UNCHANGED <<mission, rec, planVars, stepVars, stepRunVars, limitVars, cancelVars>>

\* The MCP sessions are closed and the mission's own record is finished.
CloseMission ==
    /\ place = "closing" /\ ~cancelling
    /\ rec' = IF mission = "COMPLETED" THEN "completed" ELSE "error"
    /\ GoOnTo("done")
    /\ UNCHANGED <<mission, planVars, stepVars, stepRunVars, limitVars, cancelVars>>

\* Sessions of its own may fail to close, an MCPError that the stack raises in
\* place of the result, or of the CancelledError it is unwinding: an error,
\* whatever became of the mission and whatever the record says by then.
CloseFails ==
    /\ place \in {"closing", "unwinding"} /\ ~cancelling
    /\ sessions = "own" /\ sessions' = "unclosed"
    /\ rec' = "error"
    /\ GoOnTo("done")
    /\ UNCHANGED <<mission, attempt, plan, stepVars, stepRunVars, limitVars, cancelVars>>

-----------------------------------------------------------------------------
(* Cancellation.                                                           *)

\* AgentRunner.cancel for the mission's task; the broker knows no request of it.
Cancel ==
    /\ ~Terminal(rec)
    /\ cancelling' = TRUE /\ polling' = TRUE
    /\ UNCHANGED <<place, mission, rec, planVars, stepVars, stepRunVars, limitVars, stepCancel>>

\* MissionEngine.cancel: every step that has not ended.
CancelSteps == [i \in Steps |-> IF StepDone(stat[i]) THEN stat[i] ELSE "CANCELLED"]

\* The CancelledError surfaces inside engine.run.
DeliverToStep ==                                 \* variant: only the step is stopped
    /\ cancelling /\ place \in {"planning", "stepping", "waiting", "summarising"}
    /\ mission' = "CANCELLED"
    /\ stat' = [i \in Steps |-> IF i = cur THEN "CANCELLED" ELSE stat[i]]
    /\ cancelling' = FALSE
    /\ GoOnTo("loop")
    /\ UNCHANGED <<rec, planVars, retries, runs, stepRunVars, limitVars, polling, stepCancel>>
DeliverAndReturn ==                              \* variant: the handler does not raise again
    /\ cancelling /\ place \in {"planning", "stepping", "waiting", "summarising"}
    /\ mission' = "CANCELLED" /\ stat' = CancelSteps
    /\ cancelling' = FALSE
    /\ GoOnTo("closing")
    /\ UNCHANGED <<rec, planVars, retries, runs, stepRunVars, limitVars, polling, stepCancel>>
DeliverCancel ==
    /\ cancelling /\ place \in {"planning", "stepping", "waiting", "summarising"}
    /\ mission' = "CANCELLED" /\ stat' = CancelSteps
    /\ prompt' = IF prompt = "pending" THEN "refused" ELSE prompt
    /\ cancelling' = FALSE
    /\ GoOnTo("unwinding")
    /\ UNCHANGED <<rec, planVars, retries, runs, cur, result, results, limitVars, polling, stepCancel>>

\* Or outside it, while the MCP sessions open or close.
DeliverOutside ==
    /\ cancelling /\ place \in {"opening", "closing", "unwinding"}
    /\ cancelling' = FALSE
    /\ GoOnTo("unwinding")
    /\ UNCHANGED <<mission, rec, planVars, stepVars, stepRunVars, limitVars, polling, stepCancel>>

Unwound ==
    /\ place = "unwinding" /\ ~cancelling
    /\ rec' = MarkCancelled(rec)
    /\ GoOnTo("done")
    /\ UNCHANGED <<mission, planVars, stepVars, stepRunVars, limitVars, cancelVars>>

CancelReturns ==
    /\ polling /\ ~cancelling
    /\ rec' = MarkCancelled(rec)
    /\ polling' = FALSE
    /\ UNCHANGED <<place, mission, planVars, stepVars, stepRunVars, limitVars, cancelling, stepCancel>>

\* AgentRunner.cancel for the task of a step: no coroutine is registered under
\* it, so what it can do is settle the request and, in the end, mark the record.
CancelStep(i) ==
    /\ stepCancel = <<>> /\ runs[i] # <<>> /\ ~Terminal(Last(runs[i]))
    /\ prompt' = IF cur = i /\ prompt = "pending" THEN "refused" ELSE prompt
    /\ stepCancel' = <<i, Len(runs[i])>>
    /\ UNCHANGED <<place, mission, rec, planVars, stepVars, cur, result, results, limitVars, cancelling, polling>>

StepCancelReturns ==
    /\ stepCancel # <<>>
    /\ runs' = [runs EXCEPT ![stepCancel[1]][stepCancel[2]] = MarkCancelled(@)]
    /\ stepCancel' = <<>>
    /\ UNCHANGED <<place, mission, rec, planVars, stat, retries, stepRunVars, limitVars, cancelling, polling>>

-----------------------------------------------------------------------------
Planning == \E raw \in RawPlans : PlanAccepted(raw) \/ PlanTooLong(raw) \/ PlanRejected(raw)

\* The turns of the loop have no await between them: nothing else runs then.
Loop ==
    \/ \E why \in {"max_loop_iterations", "max_runtime", "max_tool_calls"} : Halt(why)
    \/ \E i \in Steps : SkipStep(i) \/ StartStep(i)
    \/ EndLoop

InStep ==
    \/ \E r \in {"ok", "failed"} : CallTool(r) \/ Resume(r)
    \/ AskUser \/ AlreadyRefused
    \/ \E error, unmet \in BOOLEAN : StepEnds(error, unmet)

Cancelled == DeliverCancel \/ DeliverOutside \/ Unwound \/ CancelReturns

User == UserDecides \/ Cancel \/ \E i \in Steps : CancelStep(i)

MissionNext ==
    \/ Open \/ OpenFails \/ Planning \/ Loop \/ InStep \/ Expires \/ Summarised \/ CloseMission \/ CloseFails
    \/ place # "loop" /\ (User \/ Cancelled \/ StepCancelReturns)

MissionSpec == MissionInit /\ [][MissionNext]_missionVars

\* The event loop runs what is ready, a step's graph run ends (AgentRun!RunsEnd)
\* and its prompts expire.  Planning, the wrap-up and MCP owe nothing.
MissionFairSpec == MissionSpec /\ WF_missionVars(Loop) /\ WF_missionVars(InStep) /\ WF_missionVars(Expires)

-----------------------------------------------------------------------------
(* Properties.                                                             *)

MissionPlaces == {"opening", "planning", "loop", "stepping", "waiting", "summarising", "closing",
           "unwinding", "done"}
RecordStatus == {"running", "permission_required", "completed", "error", "cancelled"}
StepStatus == {"PENDING", "RUNNING", "WAITING_APPROVAL", "COMPLETED", "FAILED", "SKIPPED", "CANCELLED"}

\* Every variable has its type.
MissionTypes ==
    /\ place \in MissionPlaces /\ attempt \in 0..MaxAttempts
    /\ mission \in {"none", "PLANNING", "RUNNING", "COMPLETED", "FAILED", "CANCELLED"}
    /\ plan \in RawPlans /\ stat \in [Steps -> StepStatus] /\ retries \in [Steps -> 0..MaxRetries]
    /\ runs \in [Steps -> Seq(RecordStatus)]
    /\ cur \in Steps \cup {0} /\ prompt \in {"none", "pending", "approved", "refused"}
    /\ result \in {"none", "ok", "failed"} /\ results \in 0..CallsPerStep
    /\ toolCalls \in Nat /\ iterations \in 0..(MaxLoopIterations + 1)
    /\ halted \in {"none", "max_loop_iterations", "max_runtime", "max_tool_calls"}
    /\ sessions \in {"pool", "own", "unclosed"}
    /\ rec \in RecordStatus /\ cancelling \in BOOLEAN /\ polling \in BOOLEAN
    /\ stepCancel = <<>> \/ stepCancel[1] \in Steps

\* Types hold, and steps that ran did so on the right side of their dependencies: all ended,
\* all completed for on_success, one failed for on_failure (run_if).
StepsFollowDependencies ==
    MissionTypes /\ \A i \in Steps : stat[i] \in {"RUNNING", "WAITING_APPROVAL", "COMPLETED", "FAILED"} =>
        /\ \A j \in DepsOf(i) : stat[j] \in {"COMPLETED", "FAILED", "SKIPPED"}
        /\ plan[i].runIf = "on_success" => \A j \in DepsOf(i) : stat[j] = "COMPLETED"
        /\ plan[i].runIf = "on_failure" => \E j \in DepsOf(i) : stat[j] = "FAILED"

\* A CONFIRM tool is never retried by itself, a SAFE one only so often; and
\* max_loop_iterations is defence in depth: for a plan that passed validation
\* another limit, or the end of the plan, always comes first.
RetriesAreBounded ==
    /\ \A i \in Steps : Len(runs[i]) <= IF Permission[plan[i].tool] = "SAFE" THEN MaxRetries + 1 ELSE 1
    /\ halted # "max_loop_iterations"

\* When the engine finds no next step, every step has ended: no dependency is
\* left waiting for another (the comment at the loop's break).
NoStepIsForgotten ==
    mission \in {"COMPLETED", "FAILED"} /\ halted = "none" => \A i \in Steps : StepDone(stat[i])

\* The plan is followed: no step runs on the wrong side of its dependencies,
\* and none is forgotten.
PlanIsFollowed == StepsFollowDependencies /\ NoStepIsForgotten

\* The mission's record says completed only of a mission that was, and error only
\* of one that failed or never was, unless the run's own sessions failed to close:
\* then it says error of any mission, also one it said was cancelled before, and
\* of nothing else (_execute_mission, _run_record, MCPClient.session).
RecordFollowsMission ==
    /\ rec = "completed" => mission = "COMPLETED"
    /\ rec = "error" => mission \in {"none", "FAILED"} \/ sessions = "unclosed"
    /\ sessions = "unclosed" => rec = "error"

\* A cancelled mission starts nothing any more.
CancelledStartsNothing ==
    [][mission = "CANCELLED" => \A i \in Steps : Len(runs'[i]) = Len(runs[i])]_missionVars

\* The loop ends: by the plan, by a limit, or by a cancel.
LoopEnds == place = "loop" ~> place \in {"summarising", "closing", "unwinding", "done"}
=============================================================================

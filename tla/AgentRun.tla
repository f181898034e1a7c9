------------------------------ MODULE AgentRun ------------------------------
(***************************************************************************)
(* The agent runtime: task records (TaskStore), the coroutine that runs    *)
(* each request through the agent graph (AgentRunner, agent_node,          *)
(* tool_node) and the approval requests it parks on (ApprovalBroker).      *)
(*                                                                         *)
(* Everything runs on one asyncio event loop, so an action is the code     *)
(* between two awaits.  What interleaves is: the runs of several tasks,    *)
(* the HTTP handlers that approve, deny and cancel, the timers of          *)
(* asyncio.timeout, and the delivery of a CancelledError, which reaches    *)
(* the graph's inner task some turns of the loop after handle.cancel().    *)
(***************************************************************************)
EXTENDS Naturals, Sequences, SequencesExt

CONSTANTS
    NTasks,            (* how many requests are ever made: bounds the model     *)
    NReqs,             (* how many approval requests fit: bounds the model      *)
    Tools,             (* tool names a model may write down                     *)
    Permission,        (* Tools -> SAFE, CONFIRM, RESTRICTED, or UNKNOWN        *)
    Contracted,        (* tools whose metadata declares a verification contract *)
    Calls,             (* distinct (name, arguments) pairs                      *)
    ToolOf,            (* Calls -> Tools                                        *)
    RawTurns,          (* sequences of calls a model response may carry         *)
    Approvals,         (* the approved_tools sets a request may come with       *)
    MaxIterations,     (* AGENT_MAX_ITERATIONS                                  *)
    MaxCallsPerTurn,   (* MAX_TOOL_CALLS_PER_TURN                               *)
    MaxRequests,       (* MAX_REQUESTS of the broker                            *)
    MaxTasks           (* MAX_TASKS of the task store                           *)

Levels == {"SAFE", "CONFIRM", "RESTRICTED", "UNKNOWN"}

ASSUME BoundsAssumption ==
    /\ NTasks \in Nat \ {0} /\ NReqs \in Nat \ {0}
    /\ MaxIterations \in Nat /\ MaxCallsPerTurn \in Nat \ {0}
    /\ MaxRequests \in Nat \ {0} /\ MaxTasks \in Nat \ {0}

ASSUME ToolsAssumption ==
    /\ Permission \in [Tools -> Levels]
    /\ ToolOf \in [Calls -> Tools]
    /\ Contracted \subseteq Tools
    /\ Approvals \subseteq SUBSET Tools
    /\ RawTurns \subseteq Seq(Calls)

Tasks  == 1..NTasks      \* in creation order: the keys of the OrderedDict
ReqIds == 1..NReqs       \* likewise for the broker's requests

VARIABLES
    nextTask,     \* the next task id to be created
    status,       \* TaskRecord.status; the record outlives its place in the store
    approved,     \* the request's approved_tools (PermissionPolicy)
    pc,           \* where the coroutine of the run stands
    iterations,   \* AgentState.iterations
    calls,        \* the calls of this turn the tool node has not finished
    cur,          \* tool_node's local `request`, 0 when it has none
    expired,      \* the asyncio.timeout around broker.wait has fired
    cancelling,   \* handle.cancel() was called, CancelledError not yet delivered
    canceller,    \* an AgentRunner.cancel() call: its cancel issued, then polling the record
    nextReq,      \* the next request id to be created
    req,          \* ApprovalRequest per id
    uses          \* history: tool executions begun under each request

taskVars == <<nextTask, status, approved>>
runVars  == <<pc, iterations, calls, cur, expired>>
cancelVars == <<cancelling, canceller>>
brokerVars == <<nextReq, req, uses>>
vars == <<taskVars, runVars, cancelVars, brokerVars>>

-----------------------------------------------------------------------------
(* Task records.                                                           *)

TaskStatus == {"running", "completed", "permission_required", "cancelled", "error"}
Terminal(s) == s \in {"completed", "cancelled", "error"}

\* The store keeps the MaxTasks newest records; ids are created in order.
InStore(t) == t < nextTask /\ nextTask - t <= MaxTasks

\* The status sink: a prompt parks the record, the next event of a parked
\* record resumes it, and a terminal status is left alone.
OnPrompt(s) == IF Terminal(s) THEN s ELSE "permission_required"
OnEvent(s)  == IF s = "permission_required" THEN "running" ELSE s

\* _mark_cancelled: a finished record is returned untouched.
MarkRunning(s) == IF s = "running" THEN "cancelled" ELSE s  \* variant: parked is finished
MarkCancelled(s) == IF Terminal(s) THEN s ELSE "cancelled"

-----------------------------------------------------------------------------
(* Approval requests.                                                      *)

ReqStatus == {"pending", "approved", "denied", "expired", "cancelled"}
Refused   == {"denied", "expired", "cancelled"}
NoRequest == [task |-> 0, call |-> 0, status |-> "unused"]

\* Requests leave the broker only by eviction, oldest first.
Retained(r) == r < nextReq /\ nextReq - r <= MaxRequests

Pending(r) == req[r].status = "pending"

IsFor(r, t, tool) == req[r].task = t /\ ToolOf[req[r].call] = tool

\* previous_refusal: an earlier, still retained request for the same tool.
PreviousDenial(t, tool) ==        \* variant: an expired prompt is not a refusal
    \E r \in ReqIds : Retained(r) /\ IsFor(r, t, tool) /\ req[r].status = "denied"
PreviousRefusal(t, tool) ==
    \E r \in ReqIds : Retained(r) /\ IsFor(r, t, tool) /\ req[r].status \in Refused

\* create: register the request, then evict the oldest beyond the capacity; a
\* pending one that is dropped expires and its waiter is woken.
CreateAndForget(t, c) ==          \* variant: evicts without expiring
    [req EXCEPT ![nextReq] = [task |-> t, call |-> c, status |-> "pending"]]
CreateRequest(t, c) ==
    [r \in ReqIds |->
        IF r = nextReq THEN [task |-> t, call |-> c, status |-> "pending"]
        ELSE IF nextReq - r = MaxRequests /\ Pending(r) THEN [req[r] EXCEPT !.status = "expired"]
        ELSE req[r]]

Resolve(r, s) == [req EXCEPT ![r].status = s]

\* cancel_for_task: everything still pending for the task.
CancelAnyForTask(t) ==            \* variant: settled requests too
    [r \in ReqIds |-> IF Retained(r) /\ req[r].task = t
                      THEN [req[r] EXCEPT !.status = "cancelled"] ELSE req[r]]
CancelForTask(t) ==
    [r \in ReqIds |-> IF Retained(r) /\ Pending(r) /\ req[r].task = t
                      THEN [req[r] EXCEPT !.status = "cancelled"] ELSE req[r]]

\* _decide, for approve and deny: the request must be known and still pending.
DecideAgain(r, s) ==              \* variant: no check that it is still pending
    /\ Retained(r)
    /\ req' = Resolve(r, s)
    /\ UNCHANGED <<taskVars, runVars, cancelVars, nextReq, uses>>
Decide(r, s) ==
    /\ Retained(r) /\ Pending(r)
    /\ req' = Resolve(r, s)
    /\ UNCHANGED <<taskVars, runVars, cancelVars, nextReq, uses>>

Approve(r) == Decide(r, "approved")
Deny(r)    == Decide(r, "denied")

-----------------------------------------------------------------------------
(* Starting a run.                                                         *)

Init ==
    /\ nextTask = 1 /\ nextReq = 1
    /\ status = [t \in Tasks |-> "running"]
    /\ approved = [t \in Tasks |-> {}]
    /\ pc = [t \in Tasks |-> "none"]
    /\ iterations = [t \in Tasks |-> 0]
    /\ calls = [t \in Tasks |-> <<>>]
    /\ cur = [t \in Tasks |-> 0]
    /\ expired = [t \in Tasks |-> FALSE]
    /\ cancelling = [t \in Tasks |-> FALSE]
    /\ canceller = [t \in Tasks |-> "none"]
    /\ req = [r \in ReqIds |-> NoRequest]
    /\ uses = [r \in ReqIds |-> 0]

\* AgentRunner.start: the record exists and the coroutine is scheduled.
Start(a) ==
    /\ nextTask \in Tasks
    /\ nextTask' = nextTask + 1
    /\ approved' = [approved EXCEPT ![nextTask] = a]
    /\ pc' = [pc EXCEPT ![nextTask] = "scheduled"]
    /\ UNCHANGED <<status, iterations, calls, cur, expired, cancelVars, brokerVars>>

Goto(t, l) == pc' = [pc EXCEPT ![t] = l]

\* The coroutine's first step; a cancel before it never enters the body.
Begin(t) ==
    /\ pc[t] = "scheduled" /\ ~cancelling[t]
    /\ Goto(t, "preparing")
    /\ UNCHANGED <<taskVars, iterations, calls, cur, expired, cancelVars, brokerVars>>

\* Provider, tool registry and context are there: enter the graph.
Prepare(t) ==
    /\ pc[t] = "preparing" /\ ~cancelling[t]
    /\ Goto(t, "model")
    /\ UNCHANGED <<taskVars, iterations, calls, cur, expired, cancelVars, brokerVars>>

\* finish: the outer coroutine records the end of the run.  It cannot get
\* there once a CancelledError is on its way.
Finish(t, s) ==
    /\ ~cancelling[t]
    /\ status' = [status EXCEPT ![t] = s]
    /\ Goto(t, "done")
    /\ UNCHANGED <<nextTask, approved, iterations, calls, cur, expired, cancelVars, brokerVars>>

\* No provider, no MCP server, or any exception before or around the graph.
PrepareFails(t) == pc[t] = "preparing" /\ Finish(t, "error")

-----------------------------------------------------------------------------
(* The agent node.                                                         *)

BudgetSpent(t) == iterations[t] >= MaxIterations

\* _bounded_tool_calls: drop repeats, then cap what one turn may run.
BoundedToolCalls(raw) ==
    LET unique == FoldLeft(LAMBDA kept, c : IF Contains(kept, c) THEN kept ELSE Append(kept, c),
                           <<>>, raw)
    IN  SubSeq(unique, 1, IF Len(unique) < MaxCallsPerTurn THEN Len(unique) ELSE MaxCallsPerTurn)

Turns == UNION {[1..n -> Calls] : n \in 1..MaxCallsPerTurn}

\* The model asks for tools and still has the budget for them.
ModelCallsTools(t) ==
    /\ pc[t] = "model" /\ ~BudgetSpent(t)
    /\ \E raw \in RawTurns : \E turn \in Turns :
          /\ turn = BoundedToolCalls(raw)
          /\ calls' = [calls EXCEPT ![t] = turn]
    /\ iterations' = [iterations EXCEPT ![t] = @ + 1]
    /\ Goto(t, "routed")
    /\ UNCHANGED <<taskVars, cur, expired, cancelVars, brokerVars>>

\* A text answer; with the budget spent also a response whose calls are ignored.
ModelAnswers(t) == pc[t] = "model" /\ Finish(t, "completed")

\* A timeout, a provider error or anything else the call raised; or sessions of
\* the run's own that fail to close after the answer.
ModelFails(t) == pc[t] = "model" /\ Finish(t, "error")

-----------------------------------------------------------------------------
(* The tool node: one pass of its loop per call, in order.                 *)

\* should_continue chose the tool node, and the graph enters it.
EnterTools(t) ==
    /\ pc[t] = "routed"
    /\ Goto(t, "tools")
    /\ UNCHANGED <<taskVars, iterations, calls, cur, expired, cancelVars, brokerVars>>

Call(t) == Head(calls[t])
Tool(t) == ToolOf[Call(t)]
AtCall(t) == pc[t] = "tools" /\ calls[t] # <<>>

\* PermissionPolicy.evaluate: SAFE always, CONFIRM if approved for this request.
AllowedByName(t) == Permission[Tool(t)] = "SAFE" \/ Tool(t) \in approved[t]  \* variant: level ignored
Allowed(t) ==
    \/ Permission[Tool(t)] = "SAFE"
    \/ Permission[Tool(t)] = "CONFIRM" /\ Tool(t) \in approved[t]
NeedsConfirmation(t) == Permission[Tool(t)] = "CONFIRM" /\ Tool(t) \notin approved[t]

\* tool_completed is emitted and the loop moves on to the next call.
NextCall(t) ==
    /\ calls' = [calls EXCEPT ![t] = Tail(@)]
    /\ cur' = [cur EXCEPT ![t] = 0]
    /\ expired' = [expired EXCEPT ![t] = FALSE]
    /\ status' = [status EXCEPT ![t] = OnEvent(@)]
    /\ Goto(t, "tools")

\* tool_started is emitted and the call is handed to the tool registry.
RunTool(t) ==
    /\ uses' = [r \in ReqIds |-> IF r = cur[t] THEN uses[r] + 1 ELSE uses[r]]
    /\ status' = [status EXCEPT ![t] = OnEvent(@)]
    /\ Goto(t, "calling")

\* Not an available tool, or a restricted one.
RefuseCall(t) ==
    /\ AtCall(t) /\ Permission[Tool(t)] \in {"UNKNOWN", "RESTRICTED"}
    /\ NextCall(t)
    /\ UNCHANGED <<nextTask, approved, iterations, cancelVars, brokerVars>>

\* Already refused in this task: do not ask again.
RepeatRefusal(t) ==
    /\ AtCall(t) /\ NeedsConfirmation(t) /\ PreviousRefusal(t, Tool(t))
    /\ NextCall(t)
    /\ UNCHANGED <<nextTask, approved, iterations, cancelVars, brokerVars>>

\* Ask the user and wait.
AskApproval(t) ==
    /\ AtCall(t) /\ NeedsConfirmation(t) /\ ~PreviousRefusal(t, Tool(t))
    /\ nextReq \in ReqIds
    /\ req' = CreateRequest(t, Call(t))
    /\ nextReq' = nextReq + 1
    /\ cur' = [cur EXCEPT ![t] = nextReq]
    /\ status' = [status EXCEPT ![t] = OnPrompt(@)]
    /\ Goto(t, "waiting")
    /\ UNCHANGED <<nextTask, approved, iterations, calls, expired, cancelVars, uses>>

\* A SAFE tool, or one the request came with an approval for.
RunAllowed(t) ==
    /\ AtCall(t) /\ Allowed(t)
    /\ RunTool(t)
    /\ UNCHANGED <<nextTask, approved, iterations, calls, cur, expired, cancelVars, nextReq, req>>

\* The timer of broker.wait fires; the waiter resumes some time later, and a
\* decision may still arrive in between.
NeverTimesOut(t) == FALSE /\ UNCHANGED vars    \* variant: a wait without a timeout
WaitTimesOut(t) ==
    /\ pc[t] = "waiting" /\ ~expired[t]
    /\ expired' = [expired EXCEPT ![t] = TRUE]
    /\ UNCHANGED <<taskVars, pc, iterations, calls, cur, cancelVars, brokerVars>>

\* broker.wait returns the status the request has by now: an approval that
\* beat the resumption of a timed-out waiter stands.
WokenApproved(t) ==
    /\ pc[t] = "waiting" /\ req[cur[t]].status = "approved"
    /\ RunTool(t)
    /\ UNCHANGED <<nextTask, approved, iterations, calls, cur, expired, cancelVars, nextReq, req>>

WokenRefused(t) ==
    /\ pc[t] = "waiting"
    /\ \/ req[cur[t]].status \in Refused /\ UNCHANGED req
       \/ Pending(cur[t]) /\ expired[t] /\ req' = Resolve(cur[t], "expired")
    /\ NextCall(t)
    /\ UNCHANGED <<nextTask, approved, iterations, cancelVars, nextReq, uses>>

\* The tool returned and declares what success looks like: check it.
ToolReturnsToVerify(t) ==
    /\ pc[t] = "calling" /\ Permission[Tool(t)] # "SAFE" /\ Tool(t) \in Contracted
    /\ Goto(t, "verifying")
    /\ UNCHANGED <<taskVars, iterations, calls, cur, expired, cancelVars, brokerVars>>

\* The tool returned with nothing to verify, timed out or failed.
ToolReturns(t) ==
    /\ pc[t] = "calling"
    /\ NextCall(t)
    /\ UNCHANGED <<nextTask, approved, iterations, cancelVars, brokerVars>>

Verified(t) ==
    /\ pc[t] = "verifying"
    /\ NextCall(t)
    /\ UNCHANGED <<nextTask, approved, iterations, cancelVars, brokerVars>>

\* after_tools: back to the agent.
AfterTools(t) ==
    /\ pc[t] = "tools" /\ calls[t] = <<>>
    /\ Goto(t, "model")
    /\ UNCHANGED <<taskVars, iterations, calls, cur, expired, cancelVars, brokerVars>>

-----------------------------------------------------------------------------
(* Cancellation.                                                           *)

\* AgentRunner.cancel up to its polling loop.
Cancel(t) ==
    /\ InStore(t) /\ ~Terminal(status[t])
    /\ req' = CancelForTask(t)
    /\ cancelling' = [cancelling EXCEPT ![t] = pc[t] # "done"]
    /\ canceller' = [canceller EXCEPT ![t] = IF @ = "polling" \/ pc[t] = "done" THEN "polling" ELSE "issued"]
    /\ UNCHANGED <<taskVars, runVars, nextReq, uses>>

\* A coroutine that never ran has no handler to mark its record.
DeliverUnstarted(t) ==
    /\ cancelling[t] /\ pc[t] = "scheduled"
    /\ cancelling' = [cancelling EXCEPT ![t] = FALSE]
    /\ canceller' = [canceller EXCEPT ![t] = "polling"]
    /\ Goto(t, "done")
    /\ UNCHANGED <<taskVars, iterations, calls, cur, expired, brokerVars>>

\* The CancelledError surfaces at an await; broker.wait resolves its request.
DeliverCancel(t) ==
    /\ cancelling[t] /\ pc[t] \notin {"scheduled", "done"}
    /\ cancelling' = [cancelling EXCEPT ![t] = FALSE]
    /\ req' = IF pc[t] = "waiting" /\ Pending(cur[t]) THEN Resolve(cur[t], "cancelled") ELSE req
    /\ canceller' = [canceller EXCEPT ![t] = IF @ = "issued" THEN "polling" ELSE @]
    /\ Goto(t, "unwinding")
    /\ UNCHANGED <<taskVars, iterations, calls, cur, expired, nextReq, uses>>

\* The handler in _run_record, once the MCP exit stack has closed.
Unwound(t) ==
    /\ pc[t] = "unwinding" /\ ~cancelling[t]
    /\ req' = CancelForTask(t)
    /\ status' = [status EXCEPT ![t] = MarkCancelled(@)]
    /\ Goto(t, "done")
    /\ UNCHANGED <<nextTask, approved, iterations, calls, cur, expired, cancelVars, nextReq, uses>>

\* Or the MCP sessions, being the run's own, fail to close: the MCPError replaces the
\* CancelledError, and the record ends in error whatever it was.
CloseFails(t) == pc[t] = "unwinding" /\ Finish(t, "error")

\* The polling loop sees a terminal status, or gives up after fifty sleeps and
\* marks the record itself.  Fifty turns of the loop are enough for the
\* CancelledError to have been delivered.
CancelGivesUpAtOnce(t) ==         \* variant: no polling, mark without waiting
    /\ canceller[t] # "none"
    /\ canceller' = [canceller EXCEPT ![t] = "none"]
    /\ status' = [status EXCEPT ![t] = MarkCancelled(@)]
    /\ UNCHANGED <<nextTask, approved, runVars, cancelling, brokerVars>>
CancelPollsOn(t) ==               \* variant: polls without ever marking
    /\ canceller[t] # "none" /\ Terminal(status[t])
    /\ canceller' = [canceller EXCEPT ![t] = "none"]
    /\ UNCHANGED <<taskVars, runVars, cancelling, brokerVars>>
CancelReturns(t) ==
    /\ canceller[t] = "polling" \/ (canceller[t] = "issued" /\ Terminal(status[t]))
    /\ canceller' = [canceller EXCEPT ![t] = "none"]
    /\ status' = [status EXCEPT ![t] = MarkCancelled(@)]
    /\ UNCHANGED <<nextTask, approved, runVars, cancelling, brokerVars>>

-----------------------------------------------------------------------------
User ==
    \/ \E a \in Approvals : Start(a)
    \/ \E r \in ReqIds : Approve(r) \/ Deny(r)
    \/ \E t \in Tasks : Cancel(t)

\* Up to the graph: discovery of tools and context carries no timeout of its own.
Launch(t) == Begin(t) \/ Prepare(t) \/ PrepareFails(t)

\* The agent graph (build_agent_graph): agent and tools, alternating.
Graph(t) ==
    \/ ModelCallsTools(t) \/ ModelAnswers(t) \/ ModelFails(t) \/ EnterTools(t)
    \/ RefuseCall(t) \/ RepeatRefusal(t) \/ AskApproval(t) \/ RunAllowed(t)
    \/ WokenApproved(t) \/ WokenRefused(t)
    \/ ToolReturnsToVerify(t) \/ ToolReturns(t) \/ Verified(t) \/ AfterTools(t)

Deliver(t) == DeliverUnstarted(t) \/ DeliverCancel(t)

Teardown(t) == Unwound(t) \/ CloseFails(t)

\* The loop of the tool node has no await between two calls it does not run, so
\* while a tool node is at a call nothing else gets the event loop.
Idle == \A u \in Tasks : pc[u] # "tools"

Step(t)    == (pc[t] = "tools" \/ Idle) /\ Graph(t)
Timer(t)   == Idle /\ WaitTimesOut(t)
Cancels(t) == Idle /\ (Deliver(t) \/ CancelReturns(t))

Next ==
    \/ \E t \in Tasks : Step(t) \/ Timer(t) \/ Cancels(t) \/ (Idle /\ (Launch(t) \/ Teardown(t)))
    \/ Idle /\ User

Spec == Init /\ [][Next]_vars

\* The event loop runs what is ready; model calls, tool calls and approval
\* waits are each under an asyncio.timeout.  Users owe nothing, and neither
\* does the start of a run or the closing of its MCP sessions.
Fairness == \A t \in Tasks :
    /\ WF_vars(Step(t)) /\ WF_vars(Timer(t))
    /\ WF_vars(Idle /\ Deliver(t)) /\ WF_vars(Idle /\ CancelReturns(t))

FairSpec == Spec /\ Fairness

-----------------------------------------------------------------------------
(* Properties.                                                             *)

Places == {"none", "scheduled", "preparing", "model", "routed", "tools", "waiting",
           "calling", "verifying", "unwinding", "done"}

Request == {NoRequest} \cup [task : Tasks, call : Calls, status : ReqStatus]

\* Every variable has its type: records, coroutines, broker and history.
TypeOK ==
    /\ nextTask \in 1..(NTasks + 1) /\ nextReq \in 1..(NReqs + 1)
    /\ status \in [Tasks -> TaskStatus] /\ approved \in [Tasks -> SUBSET Tools]
    /\ pc \in [Tasks -> Places] /\ iterations \in [Tasks -> Nat]
    /\ calls \in [Tasks -> Seq(Calls)] /\ cur \in [Tasks -> ReqIds \cup {0}]
    /\ expired \in [Tasks -> BOOLEAN]
    /\ cancelling \in [Tasks -> BOOLEAN] /\ canceller \in [Tasks -> {"none", "issued", "polling"}]
    /\ req \in [ReqIds -> Request] /\ uses \in [ReqIds -> Nat]

\* A tool runs only if it is SAFE, or CONFIRM and either named in the request's
\* own approved_tools or approved by the user for exactly this task and call
\* (tool_node, PermissionPolicy, ApprovalBroker.wait).
OnlyPermittedToolsRun ==
    \A t \in Tasks : pc[t] \in {"calling", "verifying"} =>
        \/ Permission[Tool(t)] = "SAFE"
        \/ /\ Permission[Tool(t)] = "CONFIRM"
           /\ \/ Tool(t) \in approved[t]
              \/ cur[t] # 0 /\ req[cur[t]] = [task |-> t, call |-> Call(t), status |-> "approved"]

\* Approval is per call: one approved request starts one tool execution, and a
\* request in any other status starts none (tool_node, the broker).
OneRunPerApproval ==
    \A r \in ReqIds : uses[r] <= (IF req[r].status = "approved" THEN 1 ELSE 0)

\* A request is pending only while the run that made it is parked on it, so
\* what GET /api/permissions/pending lists can still be acted on.
PendingIsAwaited ==
    \A r \in ReqIds : Pending(r) => /\ Retained(r)
                                    /\ pc[req[r].task] = "waiting" /\ cur[req[r].task] = r

\* A refusal is the last word on a tool: of the requests one task made for it,
\* none the broker still holds is refused and followed by another, neither as the
\* task asks again (previous_refusal) nor as an answered request is refused late,
\* by a denial, an expiry, an eviction or the task's cancel.
RefusalIsLast ==
    \A r, n \in ReqIds :
        Retained(r) /\ r < n /\ n < nextReq /\ IsFor(r, req[n].task, ToolOf[req[n].call])
            => req[r].status \notin Refused

\* A coroutine that has ended leaves a finished record behind, unless a cancel
\* call that will mark it is still polling.
EndedRunsAreRecorded ==
    \A t \in Tasks : pc[t] = "done" => Terminal(status[t]) \/ canceller[t] # "none"

\* A decision is final: approve, deny, timeout, eviction and cancel may race,
\* but only the first of them sets the status of a request.
DecisionIsFinal ==
    [][\A r \in ReqIds : req[r].status \in ReqStatus \ {"pending"} => req'[r] = req[r]]_vars

\* Nothing is started for a task whose record already says cancelled.
NothingRunsAfterCancel ==
    [][\A t \in Tasks : status[t] = "cancelled" => uses' = uses \/ pc'[t] # "calling"]_vars

\* The broker and the runs that use it implement the approval gate: the five
\* statuses of a request are the four verdicts, the executions are its runs.
Verdict(s) == CASE s = "unused"   -> "none"
                [] s = "pending"  -> "open"
                [] s = "approved" -> "granted"
                [] OTHER          -> "refused"

Gate == INSTANCE ApprovalGate WITH
            Ids <- ReqIds, verdict <- [r \in ReqIds |-> Verdict(req[r].status)], runs <- uses

ImplementsGate == Gate!GateSpec

\* A run that entered the graph ends: the step budget, the timeouts of model
\* and tools and the expiry of unanswered prompts see to it.
RunsEnd == \A t \in Tasks : pc[t] = "model" ~> pc[t] \in {"unwinding", "done"}

\* A cancel call always comes back to a finished record.
CancelEnds == \A t \in Tasks : canceller[t] # "none" ~> Terminal(status[t])

-----------------------------------------------------------------------------
(* The inductive invariant behind the theorems of AgentRunProofs.          *)

\* What has not been created yet is untouched.
Unborn ==
    /\ \A t \in Tasks : IF t >= nextTask THEN pc[t] = "none" /\ ~cancelling[t]
                                           ELSE pc[t] # "none"
    /\ \A r \in ReqIds : IF r >= nextReq THEN req[r] = NoRequest /\ uses[r] = 0
                                           ELSE req[r] # NoRequest

\* A run between "ask" and "move on" holds the call it is about, and only such
\* a run, or one being torn down, holds a request.
InHand ==
    \A t \in Tasks :
        /\ pc[t] \in {"waiting", "calling", "verifying"} => calls[t] # <<>>
        /\ cur[t] # 0 => /\ pc[t] \in {"waiting", "calling", "verifying", "unwinding", "done"}
                         /\ cur[t] < nextReq

\* A parked run waits for its own request, about the call at hand, unused yet.
WaitsForItsOwn ==
    \A t \in Tasks : pc[t] = "waiting" =>
        /\ cur[t] # 0 /\ uses[cur[t]] = 0 /\ Permission[Tool(t)] = "CONFIRM"
        /\ req[cur[t]].task = t /\ req[cur[t]].call = Call(t)

\* Runs, the broker and the store agree on who asked for what: strong enough to
\* be preserved by every step (checked by TLC, proved in AgentRunProofs).
RunInv == /\ TypeOK /\ Unborn /\ InHand /\ WaitsForItsOwn
          /\ OnlyPermittedToolsRun /\ OneRunPerApproval /\ PendingIsAwaited
=============================================================================

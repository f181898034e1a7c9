--------------------------- MODULE AgentRunProofs ---------------------------
(***************************************************************************)
(* Theorems about AgentRun for any number of tasks, requests and tools and *)
(* any bounds: type correctness, the permission gate, its refinement, and  *)
(* how a run ends.                                                         *)
(***************************************************************************)
EXTENDS AgentRun, TLAPS

-----------------------------------------------------------------------------
(* What the helpers return.                                                *)

\* create leaves requests typed, opens the new one and otherwise only expires.
LEMMA CreateTyped ==
    ASSUME TypeOK, NEW t \in Tasks, NEW c \in Calls, nextReq \in ReqIds
    PROVE  CreateRequest(t, c) \in [ReqIds -> Request]
<1>1. ASSUME NEW r \in ReqIds PROVE CreateRequest(t, c)[r] \in Request
  <2>1. req[r] \in Request
    BY <1>1 DEF TypeOK
  <2>2. CASE r = nextReq
    BY <1>1, <2>2 DEF CreateRequest, Request, ReqStatus
  <2>3. CASE r # nextReq /\ Pending(r)
    <3>1. req[r] \in [task : Tasks, call : Calls, status : ReqStatus]
      BY <2>1, <2>3 DEF Pending, Request, NoRequest
    <3>2. [req[r] EXCEPT !.status = "expired"] \in Request
      BY <3>1 DEF Request, ReqStatus
    <3> QED BY <1>1, <2>1, <2>3, <3>2 DEF CreateRequest
  <2>4. CASE r # nextReq /\ ~Pending(r)
    BY <1>1, <2>1, <2>4 DEF CreateRequest
  <2> QED BY <2>2, <2>3, <2>4
<1> QED BY <1>1 DEF CreateRequest

\* Settling a pending request keeps the requests typed.
LEMMA ResolveTyped ==
    ASSUME TypeOK, NEW r \in ReqIds, Pending(r), NEW s \in ReqStatus
    PROVE  Resolve(r, s) \in [ReqIds -> Request]
<1>1. req \in [ReqIds -> Request]
  BY DEF TypeOK
<1>2. req[r] \in [task : Tasks, call : Calls, status : ReqStatus]
  BY <1>1 DEF Pending, Request, NoRequest
<1>3. [req[r] EXCEPT !.status = s] \in Request
  BY <1>2 DEF Request
<1> QED BY <1>1, <1>3 DEF Resolve

\* cancel_for_task keeps the requests typed.
LEMMA CancelTyped ==
    ASSUME TypeOK, NEW t \in Tasks
    PROVE  CancelForTask(t) \in [ReqIds -> Request]
<1>1. ASSUME NEW r \in ReqIds PROVE CancelForTask(t)[r] \in Request
  <2>1. req[r] \in Request
    BY DEF TypeOK
  <2>2. CASE Pending(r)
    <3>1. req[r] \in [task : Tasks, call : Calls, status : ReqStatus]
      BY <2>1, <2>2 DEF Pending, Request, NoRequest
    <3>2. [req[r] EXCEPT !.status = "cancelled"] \in Request
      BY <3>1 DEF Request, ReqStatus
    <3> QED BY <2>1, <2>2, <3>2 DEF CancelForTask
  <2>3. CASE ~Pending(r)
    BY <2>1, <2>3 DEF CancelForTask
  <2> QED BY <2>2, <2>3
<1> QED BY <1>1 DEF CancelForTask

\* Removing the first call leaves a sequence of calls.
LEMMA TailTyped ==
    ASSUME NEW s \in Seq(Calls), s # <<>>
    PROVE  Tail(s) \in Seq(Calls) /\ Head(s) \in Calls
OBVIOUS

\* A turn is a sequence of calls.
LEMMA TurnTyped == ASSUME NEW turn \in Turns PROVE turn \in Seq(Calls)
BY BoundsAssumption DEF Turns

\* Only a real request is pending.
LEMMA PendingTyped ==
    ASSUME TypeOK, NEW r \in ReqIds, Pending(r)
    PROVE  req[r] \in [task : Tasks, call : Calls, status : ReqStatus]
BY DEF TypeOK, Pending, Request, NoRequest

-----------------------------------------------------------------------------
(* The inductive invariant.  Most steps settle pending requests, or move   *)
(* one run out of a place, or both, and start nothing: KeepsInv is the     *)
(* common argument.                                                        *)

RunInvParts == Unborn /\ InHand /\ WaitsForItsOwn
               /\ OnlyPermittedToolsRun /\ OneRunPerApproval /\ PendingIsAwaited

\* A request is as it was, or was pending and is settled.
Settles(r) ==
    \/ req'[r] = req[r]
    \/ /\ Pending(r) /\ req'[r].status \in ReqStatus \ {"pending"}
       /\ req'[r].task = req[r].task /\ req'[r].call = req[r].call

\* A run stays where it is.
Stays(u) == pc'[u] = pc[u] /\ calls'[u] = calls[u] /\ cur'[u] = cur[u]

\* A run goes on, to a place where it neither asks nor starts a tool, and
\* leaves no pending request behind.
MovesOn(t) ==
    /\ pc[t] # "none" /\ pc'[t] \notin {"none", "waiting", "calling"}
    /\ pc'[t] = "verifying" => pc[t] = "calling" /\ calls'[t] = calls[t] /\ cur'[t] = cur[t]
    /\ cur'[t] # 0 => cur'[t] = cur[t] /\ pc'[t] \in {"verifying", "unwinding", "done"}
    /\ pc[t] = "waiting" => req'[cur[t]].status # "pending"

\* A step made of such changes keeps the invariant.
LEMMA KeepsInv ==
    ASSUME RunInv, NEW t \in Tasks,
           \A r \in ReqIds : Settles(r),
           \A u \in Tasks \ {t} : Stays(u),
           Stays(t) \/ MovesOn(t),
           \A u \in Tasks : cancelling'[u] => cancelling[u] \/ u < nextTask,
           UNCHANGED <<nextTask, nextReq, approved, uses>>
    PROVE  RunInvParts'
<1>0. TypeOK
  BY DEF RunInv
<1>a. \A r \in ReqIds : Pending(r)' => Pending(r) /\ req'[r] = req[r]
  BY DEF Settles, Pending
<1>b. \A r \in ReqIds : Pending(r) => req[r].task \in Tasks
  BY <1>0, PendingTyped
<1>c. nextTask \in Nat /\ nextReq \in Nat
  BY <1>0, BoundsAssumption DEF TypeOK
<1>1. Unborn'
  <2>1. \A u \in Tasks : IF u >= nextTask THEN pc'[u] = "none" /\ ~cancelling'[u] ELSE pc'[u] # "none"
    BY <1>c DEF RunInv, Unborn, Tasks, Stays, MovesOn
  <2>2. ASSUME NEW r \in ReqIds
        PROVE  IF r >= nextReq THEN req'[r] = NoRequest /\ uses'[r] = 0 ELSE req'[r] # NoRequest
    BY DEF RunInv, Unborn, Settles, Pending, NoRequest, ReqStatus
  <2> QED BY <2>1, <2>2 DEF Unborn
<1>2. InHand'
  BY <1>0 DEF RunInv, InHand, Stays, MovesOn
<1>3. WaitsForItsOwn'
  <2>1. ASSUME NEW u \in Tasks, pc'[u] = "waiting"
        PROVE  /\ cur'[u] # 0 /\ uses'[cur'[u]] = 0 /\ (Permission[Tool(u)])' = "CONFIRM"
               /\ req'[cur'[u]].task = u /\ req'[cur'[u]].call = (Call(u))'
    <3>1. Stays(u) /\ pc[u] = "waiting" /\ cur[u] # 0 /\ cur[u] \in ReqIds
      BY <1>0, <2>1 DEF RunInv, WaitsForItsOwn, MovesOn, Stays, TypeOK
    <3>2. req'[cur[u]].task = req[cur[u]].task /\ req'[cur[u]].call = req[cur[u]].call
      BY <3>1 DEF Settles
    <3> QED BY <3>1, <3>2 DEF RunInv, WaitsForItsOwn, Stays, Tool, Call
  <2> QED BY <2>1 DEF WaitsForItsOwn
<1>4. OnlyPermittedToolsRun'
  <2>1. ASSUME NEW u \in Tasks, pc'[u] \in {"calling", "verifying"}
        PROVE  /\ pc[u] \in {"calling", "verifying"}
               /\ calls'[u] = calls[u] /\ cur'[u] = cur[u]
    BY <2>1 DEF Stays, MovesOn
  <2>2. ASSUME NEW r \in ReqIds, req[r].status = "approved" PROVE req'[r] = req[r]
    BY <2>2 DEF Settles, Pending
  <2>3. \A u \in Tasks : cur[u] # 0 => cur[u] \in ReqIds
    BY <1>0 DEF TypeOK
  <2>4. ASSUME NEW u \in Tasks, pc'[u] \in {"calling", "verifying"},
               Permission[Tool(u)] # "SAFE", Tool(u) \notin approved[u]
        PROVE  req'[cur[u]] = req[cur[u]] /\ cur[u] # 0
    <3>1. cur[u] # 0 /\ req[cur[u]] = [task |-> u, call |-> Call(u), status |-> "approved"]
      BY <2>1, <2>4 DEF RunInv, OnlyPermittedToolsRun
    <3>2. cur[u] \in ReqIds /\ req[cur[u]].status = "approved"
      BY <2>3, <3>1
    <3> QED BY <2>2, <3>1, <3>2
  <2> QED BY <2>1, <2>4 DEF RunInv, OnlyPermittedToolsRun, Tool, Call
<1>5. OneRunPerApproval'
  <2>1. ASSUME NEW r \in ReqIds
        PROVE  uses'[r] <= (IF req'[r].status = "approved" THEN 1 ELSE 0)
    <3>1. uses[r] \in Nat /\ uses'[r] = uses[r]
          /\ uses[r] <= (IF req[r].status = "approved" THEN 1 ELSE 0)
      BY <1>0 DEF RunInv, OneRunPerApproval, TypeOK
    <3>2. CASE req'[r] = req[r]
      BY <3>1, <3>2
    <3>3. CASE Pending(r)
      BY <3>1, <3>3 DEF Pending
    <3> QED BY <3>2, <3>3 DEF Settles
  <2> QED BY <2>1 DEF OneRunPerApproval
<1>6. PendingIsAwaited'
  <2>1. ASSUME NEW r \in ReqIds, Pending(r)'
        PROVE  Retained(r)' /\ pc'[req'[r].task] = "waiting" /\ cur'[req'[r].task] = r
    <3>1. /\ Pending(r) /\ req'[r] = req[r] /\ Retained(r)
          /\ req[r].task \in Tasks
          /\ pc[req[r].task] = "waiting" /\ cur[req[r].task] = r
      BY <1>a, <1>b, <2>1 DEF RunInv, PendingIsAwaited
    <3>2. Stays(req[r].task)
      BY <3>1 DEF MovesOn, Pending
    <3> QED BY <3>1, <3>2 DEF Stays, Retained
  <2> QED BY <2>1 DEF PendingIsAwaited
<1> QED BY <1>1, <1>2, <1>3, <1>4, <1>5, <1>6 DEF RunInvParts

-----------------------------------------------------------------------------
(* Every step keeps the types.                                             *)

\* Moving on to the next call keeps the types of what it touches.
LEMMA NextCallTyped ==
    ASSUME TypeOK, NEW t \in Tasks, calls[t] # <<>>, NextCall(t)
    PROVE  /\ calls' \in [Tasks -> Seq(Calls)] /\ cur' \in [Tasks -> ReqIds \cup {0}]
           /\ expired' \in [Tasks -> BOOLEAN] /\ status' \in [Tasks -> TaskStatus]
           /\ pc' \in [Tasks -> Places]
<1>1. Tail(calls[t]) \in Seq(Calls)
  BY TailTyped DEF TypeOK
<1>2. OnEvent(status[t]) \in TaskStatus
  BY DEF OnEvent, TypeOK, TaskStatus
<1> QED BY <1>1, <1>2 DEF NextCall, Goto, Places, TypeOK

\* So does starting a tool.
LEMMA RunToolTyped ==
    ASSUME TypeOK, NEW t \in Tasks, RunTool(t)
    PROVE  /\ uses' \in [ReqIds -> Nat] /\ status' \in [Tasks -> TaskStatus]
           /\ pc' \in [Tasks -> Places]
<1>1. OnEvent(status[t]) \in TaskStatus
  BY DEF OnEvent, TypeOK, TaskStatus
<1> QED BY <1>1 DEF RunTool, Goto, Places, TypeOK

\* Every step of the agent graph keeps the types.
LEMMA GraphTyped ==
    ASSUME RunInv, NEW t \in Tasks, Graph(t)
    PROVE  TypeOK'
<1> USE DEF taskVars, runVars, cancelVars, brokerVars
<1>0. TypeOK
  BY DEF RunInv
<1>1. CASE ModelCallsTools(t)
  <2>1. PICK turn \in Turns : calls' = [calls EXCEPT ![t] = turn]
    BY <1>1 DEF ModelCallsTools
  <2>2. turn \in Seq(Calls)
    BY TurnTyped
  <2> QED BY <1>0, <1>1, <2>1, <2>2 DEF ModelCallsTools, Goto, TypeOK, Places
<1>2. CASE ModelAnswers(t) \/ ModelFails(t)
  BY <1>0, <1>2 DEF ModelAnswers, ModelFails, Finish, Goto, TypeOK, Places, TaskStatus
<1>3. CASE EnterTools(t) \/ AfterTools(t) \/ ToolReturnsToVerify(t)
  BY <1>0, <1>3 DEF EnterTools, AfterTools, ToolReturnsToVerify, Goto, TypeOK, Places
<1>4. CASE RefuseCall(t) \/ RepeatRefusal(t) \/ ToolReturns(t) \/ Verified(t)
  <2>1. calls[t] # <<>> /\ NextCall(t)
    BY <1>4 DEF RunInv, InHand, RefuseCall, RepeatRefusal, ToolReturns, Verified, AtCall
  <2>2. UNCHANGED <<nextTask, approved, iterations, cancelVars, brokerVars>>
    BY <1>4 DEF RefuseCall, RepeatRefusal, ToolReturns, Verified
  <2> QED BY <1>0, <2>1, <2>2, NextCallTyped DEF TypeOK
<1>5. CASE AskApproval(t)
  <2>1. Call(t) \in Calls
    BY <1>0, <1>5, TailTyped DEF AskApproval, AtCall, Call, TypeOK
  <2>2. req' \in [ReqIds -> Request]
    BY <1>0, <1>5, <2>1, CreateTyped DEF AskApproval
  <2>3. nextReq' \in 1..(NReqs + 1)
    BY <1>5, BoundsAssumption DEF AskApproval, ReqIds
  <2>4. OnPrompt(status[t]) \in TaskStatus
    BY <1>0 DEF OnPrompt, TypeOK, TaskStatus
  <2>5. /\ cur' = [cur EXCEPT ![t] = nextReq] /\ nextReq \in ReqIds
        /\ status' = [status EXCEPT ![t] = OnPrompt(@)] /\ pc' = [pc EXCEPT ![t] = "waiting"]
        /\ UNCHANGED <<nextTask, approved, iterations, calls, expired, cancelVars, uses>>
    BY <1>5 DEF AskApproval, Goto
  <2> QED BY <1>0, <2>2, <2>3, <2>4, <2>5 DEF TypeOK, Places
<1>6. CASE RunAllowed(t) \/ WokenApproved(t)
  <2>1. /\ RunTool(t)
        /\ UNCHANGED <<nextTask, approved, iterations, calls, cur, expired, cancelVars, nextReq, req>>
    BY <1>6 DEF RunAllowed, WokenApproved
  <2> QED BY <1>0, <2>1, RunToolTyped DEF TypeOK
<1>7. CASE WokenRefused(t)
  <2>1. calls[t] # <<>> /\ NextCall(t)
    BY <1>7 DEF RunInv, InHand, WokenRefused
  <2>2. UNCHANGED <<nextTask, approved, iterations, cancelVars, nextReq, uses>>
    BY <1>7 DEF WokenRefused
  <2>3. cur[t] \in ReqIds
    BY <1>0, <1>7 DEF RunInv, WaitsForItsOwn, WokenRefused, TypeOK
  <2>4. req' \in [ReqIds -> Request]
    <3>1. CASE UNCHANGED req
      BY <1>0, <3>1 DEF TypeOK
    <3>2. CASE Pending(cur[t]) /\ req' = Resolve(cur[t], "expired")
      BY <1>0, <2>3, <3>2, ResolveTyped DEF ReqStatus
    <3> QED BY <1>7, <3>1, <3>2 DEF WokenRefused
  <2> QED BY <1>0, <2>1, <2>2, <2>4, NextCallTyped DEF TypeOK
<1> QED BY <1>1, <1>2, <1>3, <1>4, <1>5, <1>6, <1>7 DEF Graph

\* Steps outside the graph: users, timers, the delivery and end of a cancel.
LEMMA OutsideTyped ==
    ASSUME RunInv, NEW t \in Tasks, NEW r \in ReqIds,
           \/ WaitTimesOut(t) \/ Deliver(t) \/ CancelReturns(t) \/ Launch(t) \/ Teardown(t)
           \/ Approve(r) \/ Deny(r) \/ Cancel(t)
    PROVE  TypeOK'
<1> USE DEF taskVars, runVars, cancelVars, brokerVars
<1>0. TypeOK
  BY DEF RunInv
<1>a. MarkCancelled(status[t]) \in TaskStatus
  BY <1>0 DEF MarkCancelled, TypeOK, TaskStatus
<1>1. CASE WaitTimesOut(t)
  BY <1>0, <1>1 DEF WaitTimesOut, TypeOK
<1>2. CASE DeliverUnstarted(t)
  BY <1>0, <1>2 DEF DeliverUnstarted, Goto, TypeOK, Places
<1>3. CASE DeliverCancel(t)
  <2>1. req' \in [ReqIds -> Request]
    <3>1. CASE pc[t] = "waiting" /\ Pending(cur[t])
      <4>1. cur[t] \in ReqIds
        BY <1>0, <3>1 DEF RunInv, WaitsForItsOwn, TypeOK
      <4> QED BY <1>0, <1>3, <3>1, <4>1, ResolveTyped DEF DeliverCancel, ReqStatus
    <3>2. CASE ~(pc[t] = "waiting" /\ Pending(cur[t]))
      BY <1>0, <1>3, <3>2 DEF DeliverCancel, TypeOK
    <3> QED BY <3>1, <3>2
  <2> QED BY <1>0, <1>3, <2>1 DEF DeliverCancel, Goto, TypeOK, Places
<1>4. CASE CancelReturns(t)
  BY <1>0, <1>a, <1>4 DEF CancelReturns, TypeOK
<1>5. CASE Launch(t)
  BY <1>0, <1>5 DEF Launch, Begin, Prepare, PrepareFails, Finish, Goto, TypeOK, Places,
        TaskStatus
<1>6. CASE Teardown(t)
  <2>1. CASE Unwound(t)
    BY <1>0, <1>a, <2>1, CancelTyped DEF Unwound, Goto, TypeOK, Places
  <2>2. CASE CloseFails(t)
    BY <1>0, <2>2 DEF CloseFails, Finish, Goto, TypeOK, Places, TaskStatus
  <2> QED BY <1>6, <2>1, <2>2 DEF Teardown
<1>7. CASE Approve(r) \/ Deny(r)
  BY <1>0, <1>7, ResolveTyped DEF Approve, Deny, Decide, TypeOK, ReqStatus
<1>8. CASE Cancel(t)
  BY <1>0, <1>8, CancelTyped DEF Cancel, TypeOK
<1> QED BY <1>1, <1>2, <1>3, <1>4, <1>5, <1>6, <1>7, <1>8 DEF Deliver

\* Creating a run keeps the types.
LEMMA StartTyped ==
    ASSUME TypeOK, NEW a \in Approvals, Start(a)
    PROVE  TypeOK'
BY BoundsAssumption, ToolsAssumption
   DEF Start, Goto, TypeOK, Places, Tasks, taskVars, runVars, cancelVars, brokerVars

-----------------------------------------------------------------------------
(* Every step keeps the rest of the invariant.                             *)

\* The next call is taken up with no request in hand.
LEMMA NextCallKeeps ==
    ASSUME RunInv, NEW t \in Tasks, pc[t] # "none", NextCall(t),
           \A r \in ReqIds : Settles(r), pc[t] = "waiting" => req'[cur[t]].status # "pending",
           UNCHANGED <<nextTask, nextReq, approved, uses, cancelling>>
    PROVE  RunInvParts'
<1>0. TypeOK
  BY DEF RunInv
<1>1. MovesOn(t)
  BY <1>0 DEF NextCall, Goto, MovesOn, TypeOK
<1>2. \A u \in Tasks \ {t} : Stays(u)
  BY <1>0 DEF NextCall, Goto, Stays, TypeOK
<1> QED BY <1>1, <1>2, KeepsInv

\* Starting a tool under the request in hand, if there is one: it is approved,
\* for this task and call, and has not been used.
LEMMA RunToolKeeps ==
    ASSUME RunInv, NEW t \in Tasks, pc[t] # "none", calls[t] # <<>>, RunTool(t),
           UNCHANGED <<nextTask, approved, calls, cur, cancelling, nextReq, req>>,
           ~Pending(cur[t]) \/ cur[t] = 0,
           \/ cur[t] = 0 /\ Allowed(t)
           \/ /\ pc[t] = "waiting" /\ Permission[Tool(t)] = "CONFIRM"
              /\ req[cur[t]] = [task |-> t, call |-> Call(t), status |-> "approved"]
    PROVE  RunInvParts'
<1>0. TypeOK
  BY DEF RunInv
<1>a. \A u \in Tasks : pc'[u] = IF u = t THEN "calling" ELSE pc[u]
  BY <1>0 DEF RunTool, Goto, TypeOK
<1>b. \A r \in ReqIds : uses'[r] = IF r = cur[t] THEN uses[r] + 1 ELSE uses[r]
  BY DEF RunTool
<1>1. Unborn'
  <2>1. \A u \in Tasks : IF u >= nextTask THEN pc'[u] = "none" /\ ~cancelling'[u] ELSE pc'[u] # "none"
    BY <1>a DEF RunInv, Unborn
  <2>2. ASSUME NEW r \in ReqIds, r >= nextReq PROVE uses'[r] = 0 /\ req'[r] = NoRequest
    <3>1. cur[t] # 0 => cur[t] < nextReq
      BY DEF RunInv, InHand
    <3>2. r # cur[t]
      BY <1>0, <2>2, <3>1 DEF TypeOK, ReqIds
    <3> QED BY <1>b, <2>2, <3>2 DEF RunInv, Unborn
  <2> QED BY <2>1, <2>2 DEF RunInv, Unborn
<1>2. InHand'
  BY <1>a DEF RunInv, InHand
<1>3. WaitsForItsOwn'
  <2>1. ASSUME NEW u \in Tasks, pc'[u] = "waiting"
        PROVE  /\ cur'[u] # 0 /\ uses'[cur'[u]] = 0 /\ (Permission[Tool(u)])' = "CONFIRM"
               /\ req'[cur'[u]].task = u /\ req'[cur'[u]].call = (Call(u))'
    <3>1. /\ u # t /\ cur[u] \in ReqIds /\ uses[cur[u]] = 0 /\ Permission[Tool(u)] = "CONFIRM"
          /\ req[cur[u]].task = u /\ req[cur[u]].call = Call(u)
      BY <1>0, <1>a, <2>1 DEF RunInv, WaitsForItsOwn, TypeOK
    <3>2. cur[u] # cur[t]
      BY <3>1 DEF ReqIds
    <3> QED BY <1>b, <3>1, <3>2 DEF Tool, Call, ReqIds
  <2> QED BY <2>1 DEF WaitsForItsOwn
<1>4. OnlyPermittedToolsRun'
  <2> DEFINE Ok(u) == \/ Permission[Tool(u)] = "SAFE"
                      \/ /\ Permission[Tool(u)] = "CONFIRM"
                         /\ \/ Tool(u) \in approved[u]
                            \/ cur[u] # 0 /\ req[cur[u]] = [task |-> u, call |-> Call(u), status |-> "approved"]
  <2>1. Ok(t)
    <3>1. CASE cur[t] = 0 /\ Allowed(t)
      BY <3>1 DEF Allowed
    <3>2. CASE pc[t] = "waiting"
      BY <3>2 DEF RunInv, WaitsForItsOwn, ReqIds
    <3> QED BY <3>1, <3>2
  <2>2. ASSUME NEW u \in Tasks \ {t}, pc'[u] \in {"calling", "verifying"} PROVE Ok(u)
    BY <1>a, <2>2 DEF RunInv, OnlyPermittedToolsRun
  <2>3. \A u \in Tasks : Ok(u)' <=> Ok(u)
    BY DEF Tool, Call
  <2> QED BY <2>1, <2>2, <2>3 DEF OnlyPermittedToolsRun
<1>5. OneRunPerApproval'
  <2>1. ASSUME NEW r \in ReqIds
        PROVE  uses'[r] <= (IF req[r].status = "approved" THEN 1 ELSE 0)
    <3>1. CASE r # cur[t]
      BY <1>b, <3>1 DEF RunInv, OneRunPerApproval
    <3>2. CASE r = cur[t]
      <4>1. pc[t] = "waiting" /\ req[r].status = "approved"
        BY <3>2 DEF ReqIds
      <4>2. uses[r] = 0
        BY <3>2, <4>1 DEF RunInv, WaitsForItsOwn
      <4> QED BY <1>b, <3>2, <4>1, <4>2
    <3> QED BY <3>1, <3>2
  <2> QED BY <2>1 DEF OneRunPerApproval
<1>6. PendingIsAwaited'
  <2>1. ASSUME NEW r \in ReqIds, Pending(r)
        PROVE  Retained(r) /\ pc'[req[r].task] = "waiting" /\ cur[req[r].task] = r
    <3>1. /\ Retained(r) /\ req[r].task \in Tasks
          /\ pc[req[r].task] = "waiting" /\ cur[req[r].task] = r
      BY <1>0, <2>1, PendingTyped DEF RunInv, PendingIsAwaited
    <3>2. req[r].task # t
      BY <2>1, <3>1 DEF ReqIds
    <3> QED BY <1>a, <3>1, <3>2
  <2> QED BY <2>1 DEF PendingIsAwaited, Pending, Retained
<1> QED BY <1>1, <1>2, <1>3, <1>4, <1>5, <1>6 DEF RunInvParts

\* Asking opens a request nobody else knows and drops at most the oldest one.
LEMMA AskKeeps ==
    ASSUME RunInv, NEW t \in Tasks, AskApproval(t)
    PROVE  RunInvParts'
<1> USE DEF AskApproval
<1>0. TypeOK
  BY DEF RunInv
<1>a. /\ nextReq \in ReqIds /\ nextReq \in Nat /\ nextReq' = nextReq + 1 /\ nextTask \in Nat
      /\ UNCHANGED <<nextTask, approved, calls, cancelling, uses>>
      /\ calls[t] # <<>> /\ pc[t] = "tools"
  BY <1>0, BoundsAssumption DEF TypeOK, taskVars, cancelVars, AtCall, ReqIds
<1>b. \A u \in Tasks : /\ pc'[u] = IF u = t THEN "waiting" ELSE pc[u]
                       /\ cur'[u] = IF u = t THEN nextReq ELSE cur[u]
  BY <1>0 DEF Goto, TypeOK
<1>c. req'[nextReq] = [task |-> t, call |-> Call(t), status |-> "pending"]
  BY <1>a DEF CreateRequest
<1>d. ASSUME NEW r \in ReqIds, r # nextReq
      PROVE  /\ Settles(r)
             /\ Pending(r)' => Pending(r) /\ req'[r] = req[r] /\ nextReq - r # MaxRequests
  BY <1>d DEF CreateRequest, Settles, Pending, ReqStatus
<1>e. \A u \in Tasks : cur[u] # 0 => cur[u] \in ReqIds /\ cur[u] < nextReq
  BY <1>0 DEF RunInv, InHand, TypeOK
<1>1. Unborn'
  <2>1. \A u \in Tasks : IF u >= nextTask THEN pc'[u] = "none" /\ ~cancelling'[u] ELSE pc'[u] # "none"
    BY <1>a, <1>b DEF RunInv, Unborn
  <2>2. ASSUME NEW r \in ReqIds
        PROVE  IF r >= nextReq + 1 THEN req'[r] = NoRequest /\ uses[r] = 0 ELSE req'[r] # NoRequest
    <3>1. CASE r = nextReq
      BY <1>a, <1>c, <3>1 DEF NoRequest
    <3>2. CASE r > nextReq
      BY <1>a, <1>d, <3>2 DEF RunInv, Unborn, Settles, Pending, NoRequest, ReqIds
    <3>3. CASE r < nextReq
      BY <1>a, <1>d, <3>3 DEF RunInv, Unborn, Settles, Pending, NoRequest, ReqIds, ReqStatus
    <3> QED BY <1>a, <3>1, <3>2, <3>3 DEF ReqIds
  <2> QED BY <1>a, <2>1, <2>2 DEF Unborn
<1>2. InHand'
  BY <1>0, <1>a, <1>b DEF RunInv, InHand, TypeOK, ReqIds
<1>3. WaitsForItsOwn'
  <2>1. ASSUME NEW u \in Tasks, pc'[u] = "waiting"
        PROVE  /\ cur'[u] # 0 /\ uses[cur'[u]] = 0 /\ Permission[Tool(u)] = "CONFIRM"
               /\ req'[cur'[u]].task = u /\ req'[cur'[u]].call = Call(u)
    <3>1. CASE u = t
      BY <1>a, <1>b, <1>c, <3>1 DEF RunInv, Unborn, NeedsConfirmation, ReqIds
    <3>2. CASE u # t
      <4>1. /\ cur'[u] = cur[u] /\ cur[u] \in ReqIds /\ cur[u] # nextReq /\ uses[cur[u]] = 0
            /\ req[cur[u]].task = u /\ req[cur[u]].call = Call(u)
            /\ cur[u] # 0 /\ Permission[Tool(u)] = "CONFIRM"
        BY <1>a, <1>b, <1>e, <2>1, <3>2 DEF RunInv, WaitsForItsOwn
      <4> QED BY <1>d, <4>1 DEF Settles
    <3> QED BY <3>1, <3>2
  <2> QED BY <1>a, <2>1 DEF WaitsForItsOwn, Tool, Call
<1>4. OnlyPermittedToolsRun'
  <2>1. ASSUME NEW u \in Tasks, pc'[u] \in {"calling", "verifying"}
        PROVE  \/ Permission[Tool(u)] = "SAFE"
               \/ /\ Permission[Tool(u)] = "CONFIRM"
                  /\ \/ Tool(u) \in approved[u]
                     \/ cur'[u] # 0 /\ req'[cur'[u]] = [task |-> u, call |-> Call(u), status |-> "approved"]
    <3>1. u # t /\ pc[u] \in {"calling", "verifying"} /\ cur'[u] = cur[u]
      BY <1>b, <2>1
    <3>2. CASE cur[u] # 0 /\ req[cur[u]] = [task |-> u, call |-> Call(u), status |-> "approved"]
      <4>1. cur[u] \in ReqIds /\ cur[u] # nextReq /\ req[cur[u]].status = "approved"
        BY <1>a, <1>e, <3>2
      <4>2. req'[cur[u]] = req[cur[u]]
        BY <1>d, <4>1 DEF Settles, Pending
      <4> QED BY <3>1, <3>2, <4>2 DEF RunInv, OnlyPermittedToolsRun
    <3> QED BY <3>1, <3>2 DEF RunInv, OnlyPermittedToolsRun
  <2> QED BY <1>a, <2>1 DEF OnlyPermittedToolsRun, Tool, Call
<1>5. OneRunPerApproval'
  <2>1. ASSUME NEW r \in ReqIds
        PROVE  uses[r] <= (IF req'[r].status = "approved" THEN 1 ELSE 0)
    <3>1. uses[r] \in Nat /\ uses[r] <= (IF req[r].status = "approved" THEN 1 ELSE 0)
      BY <1>0 DEF RunInv, OneRunPerApproval, TypeOK
    <3>2. CASE r = nextReq
      BY <1>a, <1>c, <3>2 DEF RunInv, Unborn
    <3>3. CASE r # nextReq /\ req'[r] = req[r]
      BY <3>1, <3>3
    <3>4. CASE r # nextReq /\ Pending(r)
      BY <3>1, <3>4 DEF Pending
    <3> QED BY <1>d, <3>2, <3>3, <3>4 DEF Settles
  <2> QED BY <1>a, <2>1 DEF OneRunPerApproval
<1>6. PendingIsAwaited'
  <2>1. ASSUME NEW r \in ReqIds, Pending(r)'
        PROVE  Retained(r)' /\ pc'[req'[r].task] = "waiting" /\ cur'[req'[r].task] = r
    <3>1. CASE r = nextReq
      BY <1>a, <1>b, <1>c, <3>1, BoundsAssumption DEF Retained
    <3>2. CASE r # nextReq
      <4>1. /\ Pending(r) /\ req'[r] = req[r] /\ nextReq - r # MaxRequests
        BY <1>d, <2>1, <3>2
      <4>2. /\ Retained(r) /\ req[r].task \in Tasks
            /\ pc[req[r].task] = "waiting" /\ cur[req[r].task] = r
        BY <1>0, <4>1, PendingTyped DEF RunInv, PendingIsAwaited
      <4>3. Retained(r)'
        BY <1>a, <4>1, <4>2, BoundsAssumption DEF Retained, ReqIds
      <4> QED BY <1>a, <1>b, <4>1, <4>2, <4>3
    <3> QED BY <3>1, <3>2
  <2> QED BY <2>1 DEF PendingIsAwaited
<1> QED BY <1>1, <1>2, <1>3, <1>4, <1>5, <1>6 DEF RunInvParts

\* Every step of the agent graph keeps the rest of the invariant.
LEMMA GraphKeeps ==
    ASSUME RunInv, NEW t \in Tasks, Graph(t)
    PROVE  RunInvParts'
<1> USE DEF taskVars, runVars, cancelVars, brokerVars
<1>0. TypeOK
  BY DEF RunInv
<1>a. req' = req => \A r \in ReqIds : Settles(r)
  BY DEF Settles
<1>1. CASE ModelCallsTools(t) \/ ModelAnswers(t) \/ ModelFails(t) \/ EnterTools(t) \/ AfterTools(t)
  <2>1. /\ \A u \in Tasks \ {t} : Stays(u)
        /\ UNCHANGED <<nextTask, nextReq, approved, uses, cancelling, req>>
    BY <1>0, <1>1 DEF ModelCallsTools, ModelAnswers, ModelFails, EnterTools, AfterTools, Finish,
                      Goto, Stays, TypeOK
  <2>2. MovesOn(t)
    BY <1>0, <1>1 DEF ModelCallsTools, ModelAnswers, ModelFails, EnterTools, AfterTools, Finish,
                      Goto, MovesOn, TypeOK, RunInv, InHand
  <2> QED BY <1>a, <2>1, <2>2, KeepsInv
<1>2. CASE ToolReturnsToVerify(t)
  <2>1. /\ \A u \in Tasks \ {t} : Stays(u)
        /\ UNCHANGED <<nextTask, nextReq, approved, uses, cancelling, req>> /\ MovesOn(t)
    BY <1>0, <1>2 DEF ToolReturnsToVerify, Goto, MovesOn, Stays, TypeOK
  <2> QED BY <1>a, <2>1, KeepsInv
<1>3. CASE RefuseCall(t) \/ RepeatRefusal(t) \/ ToolReturns(t) \/ Verified(t)
  <2>1. /\ NextCall(t) /\ pc[t] \notin {"none", "waiting"}
        /\ UNCHANGED <<nextTask, nextReq, approved, uses, cancelling, req>>
    BY <1>3 DEF RefuseCall, RepeatRefusal, ToolReturns, Verified, AtCall
  <2> QED BY <1>a, <2>1, NextCallKeeps
<1>4. CASE AskApproval(t)
  BY <1>4, AskKeeps
<1>5. CASE RunAllowed(t)
  <2>1. /\ RunTool(t) /\ pc[t] = "tools" /\ calls[t] # <<>> /\ Allowed(t) /\ cur[t] = 0
        /\ UNCHANGED <<nextTask, approved, calls, cur, cancelling, nextReq, req>>
    BY <1>5 DEF RunAllowed, AtCall, RunInv, InHand
  <2> QED BY <2>1, RunToolKeeps
<1>6. CASE WokenApproved(t)
  <2>1. /\ RunTool(t) /\ pc[t] = "waiting" /\ req[cur[t]].status = "approved"
        /\ UNCHANGED <<nextTask, approved, calls, cur, cancelling, nextReq, req>>
    BY <1>6 DEF WokenApproved
  <2>2. /\ calls[t] # <<>> /\ cur[t] # 0 /\ Permission[Tool(t)] = "CONFIRM"
        /\ req[cur[t]].task = t /\ req[cur[t]].call = Call(t) /\ cur[t] < nextReq
    BY <2>1 DEF RunInv, InHand, WaitsForItsOwn
  <2>3. req[cur[t]] \in Request /\ req[cur[t]] # NoRequest
    BY <1>0, <2>1, <2>2 DEF TypeOK, NoRequest
  <2>4. req[cur[t]] = [task |-> t, call |-> Call(t), status |-> "approved"]
    BY <2>1, <2>2, <2>3 DEF Request
  <2> QED BY <2>1, <2>2, <2>4, RunToolKeeps DEF Pending
<1>7. CASE WokenRefused(t)
  <2>1. /\ NextCall(t) /\ pc[t] = "waiting"
        /\ UNCHANGED <<nextTask, nextReq, approved, uses, cancelling>>
    BY <1>7 DEF WokenRefused
  <2>2. cur[t] \in ReqIds
    BY <1>0, <2>1 DEF RunInv, WaitsForItsOwn, TypeOK
  <2>3. (\A r \in ReqIds : Settles(r)) /\ req'[cur[t]].status # "pending"
    <3>1. CASE req[cur[t]].status \in Refused /\ UNCHANGED req
      BY <1>a, <3>1 DEF Refused
    <3>2. CASE Pending(cur[t]) /\ req' = Resolve(cur[t], "expired")
      BY <1>0, <2>2, <3>2, PendingTyped DEF Resolve, Settles, TypeOK, ReqStatus
    <3> QED BY <1>7, <3>1, <3>2 DEF WokenRefused
  <2> QED BY <2>1, <2>3, NextCallKeeps
<1> QED BY <1>1, <1>2, <1>3, <1>4, <1>5, <1>6, <1>7 DEF Graph

\* A new run is nobody's until it is created, and holds nothing.
LEMMA StartKeeps ==
    ASSUME RunInv, NEW a \in Approvals, Start(a)
    PROVE  RunInvParts'
<1> USE DEF taskVars, runVars, cancelVars, brokerVars
<1>0. TypeOK
  BY DEF RunInv
<1>a. /\ nextTask \in Tasks /\ nextTask \in Nat /\ nextTask' = nextTask + 1
      /\ UNCHANGED <<calls, cur, cancelling, nextReq, req, uses>>
      /\ pc[nextTask] = "none" /\ cur[nextTask] = 0
  BY BoundsAssumption DEF Start, RunInv, Unborn, InHand, Tasks
<1>b. \A u \in Tasks : /\ pc'[u] = IF u = nextTask THEN "scheduled" ELSE pc[u]
                       /\ approved'[u] = IF u = nextTask THEN a ELSE approved[u]
  BY <1>0 DEF Start, TypeOK
<1>1. Unborn'
  <2>1. \A u \in Tasks : IF u >= nextTask + 1 THEN pc'[u] = "none" /\ ~cancelling[u] ELSE pc'[u] # "none"
    BY <1>a, <1>b DEF RunInv, Unborn, Tasks
  <2> QED BY <1>a, <2>1 DEF RunInv, Unborn
<1>2. InHand'
  BY <1>a, <1>b DEF RunInv, InHand
<1>3. WaitsForItsOwn'
  BY <1>a, <1>b DEF RunInv, WaitsForItsOwn, Tool, Call
<1>4. OnlyPermittedToolsRun'
  <2>1. ASSUME NEW u \in Tasks, pc'[u] \in {"calling", "verifying"}
        PROVE  pc[u] \in {"calling", "verifying"} /\ approved'[u] = approved[u]
    BY <1>b, <2>1
  <2> QED BY <1>a, <2>1 DEF RunInv, OnlyPermittedToolsRun, Tool, Call
<1>5. OneRunPerApproval'
  BY <1>a DEF RunInv, OneRunPerApproval
<1>6. PendingIsAwaited'
  <2>1. \A r \in ReqIds : Pending(r) => req[r].task \in Tasks
    BY <1>0, PendingTyped
  <2> QED BY <1>a, <1>b, <2>1, ZenonT(30) DEF RunInv, PendingIsAwaited, Pending, Retained
<1> QED BY <1>1, <1>2, <1>3, <1>4, <1>5, <1>6 DEF RunInvParts

\* A step that moves no run, or tears one down, and at most settles requests.
LEMMA OutsideKeeps ==
    ASSUME RunInv, NEW t \in Tasks, NEW r \in ReqIds,
           \/ WaitTimesOut(t) \/ Deliver(t) \/ CancelReturns(t) \/ Launch(t) \/ Teardown(t)
           \/ Approve(r) \/ Deny(r) \/ Cancel(t)
    PROVE  RunInvParts'
<1> USE DEF taskVars, runVars, cancelVars, brokerVars
<1>0. TypeOK
  BY DEF RunInv
<1>a. ASSUME req' = req \/ req' = CancelForTask(t) PROVE \A q \in ReqIds : Settles(q)
  <2>1. ASSUME NEW q \in ReqIds, Pending(q) PROVE [req[q] EXCEPT !.status = "cancelled"] =
            [task |-> req[q].task, call |-> req[q].call, status |-> "cancelled"]
    BY <1>0, <2>1, PendingTyped
  <2> QED BY <1>a, <2>1, ZenonT(30) DEF Settles, CancelForTask, ReqStatus
<1>b. ASSUME NEW q \in ReqIds, Pending(q), NEW s \in ReqStatus \ {"pending"}, req' = Resolve(q, s)
      PROVE  (\A o \in ReqIds : Settles(o)) /\ req'[q].status # "pending"
  BY <1>0, <1>b, PendingTyped DEF Resolve, Settles, TypeOK
<1>1. CASE WaitTimesOut(t) \/ CancelReturns(t)
  <2>1. /\ \A u \in Tasks : Stays(u)
        /\ UNCHANGED <<nextTask, nextReq, approved, uses, cancelling, req>>
    BY <1>1 DEF WaitTimesOut, CancelReturns, Stays
  <2> QED BY <1>a, <2>1, KeepsInv
<1>2. CASE DeliverUnstarted(t)
  <2>1. /\ \A u \in Tasks \ {t} : Stays(u)
        /\ UNCHANGED <<nextTask, nextReq, approved, uses, req>>
        /\ \A u \in Tasks : cancelling'[u] => cancelling[u] /\ MovesOn(t)
    BY <1>0, <1>2 DEF DeliverUnstarted, Goto, MovesOn, Stays, TypeOK, RunInv, InHand
  <2>2. MovesOn(t)
    BY <1>0, <1>2 DEF DeliverUnstarted, Goto, MovesOn, TypeOK, RunInv, InHand
  <2> QED BY <1>a, <2>1, <2>2, KeepsInv
<1>3. CASE DeliverCancel(t)
  <2>1. /\ \A u \in Tasks \ {t} : Stays(u)
        /\ UNCHANGED <<nextTask, nextReq, approved, uses>>
        /\ \A u \in Tasks : cancelling'[u] => cancelling[u]
    BY <1>0, <1>3 DEF DeliverCancel, Goto, Stays, TypeOK
  <2>2. pc[t] = "waiting" => cur[t] \in ReqIds
    BY <1>0 DEF RunInv, WaitsForItsOwn, TypeOK
  <2>3. /\ \A q \in ReqIds : Settles(q)
        /\ pc[t] = "waiting" => req'[cur[t]].status # "pending"
    BY <1>3, <1>a, <1>b, <2>2 DEF DeliverCancel, ReqStatus, Pending
  <2>4. pc[t] # "none"
    BY <1>0, <1>3 DEF DeliverCancel, RunInv, Unborn, InHand
  <2>5. MovesOn(t)
    BY <1>0, <1>3, <2>3, <2>4 DEF DeliverCancel, Goto, MovesOn, TypeOK
  <2> QED BY <2>1, <2>3, <2>5, KeepsInv
<1>4. CASE Launch(t)
  <2>1. /\ \A u \in Tasks \ {t} : Stays(u)
        /\ UNCHANGED <<nextTask, nextReq, approved, uses, cancelling, req>>
    BY <1>0, <1>4 DEF Launch, Begin, Prepare, PrepareFails, Finish, Goto, Stays, TypeOK
  <2>2. MovesOn(t)
    BY <1>0, <1>4 DEF Launch, Begin, Prepare, PrepareFails, Finish, Goto, MovesOn, TypeOK,
          RunInv, InHand
  <2> QED BY <1>a, <2>1, <2>2, KeepsInv
<1>5. CASE Teardown(t)
  <2>1. /\ \A u \in Tasks \ {t} : Stays(u)
        /\ UNCHANGED <<nextTask, nextReq, approved, uses, cancelling>> /\ req' \in {req, CancelForTask(t)}
    BY <1>0, <1>5 DEF Teardown, Unwound, CloseFails, Finish, Goto, Stays, TypeOK
  <2>2. MovesOn(t)
    BY <1>0, <1>5 DEF Teardown, Unwound, CloseFails, Finish, Goto, MovesOn, TypeOK
  <2> QED BY <1>a, <2>1, <2>2, KeepsInv
<1>6. CASE Approve(r) \/ Deny(r)
  <2>1. \A u \in Tasks : Stays(u)
    BY <1>6 DEF Approve, Deny, Decide, Stays
  <2>2. UNCHANGED <<nextTask, nextReq, approved, uses, cancelling>>
    BY <1>6 DEF Approve, Deny, Decide
  <2>3. \A q \in ReqIds : Settles(q)
    BY <1>6, <1>b DEF Approve, Deny, Decide, ReqStatus
  <2> QED BY <2>1, <2>2, <2>3, KeepsInv
<1>7. CASE Cancel(t)
  <2>1. /\ \A u \in Tasks : Stays(u)
        /\ UNCHANGED <<nextTask, nextReq, approved, uses>> /\ req' = CancelForTask(t)
        /\ \A u \in Tasks : cancelling'[u] => cancelling[u] \/ u < nextTask
    BY <1>0, <1>7 DEF Cancel, Stays, InStore, TypeOK
  <2> QED BY <1>a, <2>1, KeepsInv
<1> QED BY <1>1, <1>2, <1>3, <1>4, <1>5, <1>6, <1>7 DEF Deliver

-----------------------------------------------------------------------------
(* The invariant holds.                                                    *)

\* No task, no request and no run at first.
LEMMA InitInv == Init => RunInv
<1> SUFFICES ASSUME Init PROVE RunInv
  OBVIOUS
<1>1. TypeOK
  BY BoundsAssumption DEF Init, TypeOK, TaskStatus, Places, Request
<1>2. Unborn /\ InHand /\ WaitsForItsOwn /\ OnlyPermittedToolsRun
  BY DEF Init, Unborn, InHand, WaitsForItsOwn, OnlyPermittedToolsRun, Tasks, ReqIds
<1>3. OneRunPerApproval /\ PendingIsAwaited
  BY DEF Init, OneRunPerApproval, PendingIsAwaited, Pending, NoRequest
<1> QED BY <1>1, <1>2, <1>3 DEF RunInv

\* The invariant is inductive.
LEMMA StepInv == RunInv /\ [Next]_vars => RunInv'
<1> SUFFICES ASSUME RunInv, [Next]_vars PROVE RunInv'
  OBVIOUS
<1>0. 1 \in Tasks /\ 1 \in ReqIds
  BY BoundsAssumption DEF Tasks, ReqIds
<1>1. ASSUME NEW t \in Tasks, Step(t) PROVE RunInv'
  BY <1>1, GraphTyped, GraphKeeps DEF Step, RunInv, RunInvParts
<1>2. ASSUME NEW t \in Tasks, NEW r \in ReqIds,
             \/ WaitTimesOut(t) \/ Deliver(t) \/ CancelReturns(t) \/ Launch(t) \/ Teardown(t)
             \/ Approve(r) \/ Deny(r) \/ Cancel(t)
      PROVE  RunInv'
  BY <1>2, OutsideTyped, OutsideKeeps DEF RunInv, RunInvParts
<1>3. CASE UNCHANGED vars
  <2> USE DEF vars, taskVars, runVars, cancelVars, brokerVars
  <2>1. TypeOK' /\ Unborn' /\ InHand'
    BY <1>3 DEF RunInv, TypeOK, Unborn, InHand
  <2>2. WaitsForItsOwn' /\ OnlyPermittedToolsRun'
    BY <1>3 DEF RunInv, WaitsForItsOwn, OnlyPermittedToolsRun, Tool, Call
  <2>3. OneRunPerApproval' /\ PendingIsAwaited'
    BY <1>3 DEF RunInv, OneRunPerApproval, PendingIsAwaited, Pending, Retained
  <2> QED BY <2>1, <2>2, <2>3 DEF RunInv
<1>4. ASSUME NEW a \in Approvals, Start(a) PROVE RunInv'
  BY <1>4, StartTyped, StartKeeps DEF RunInv, RunInvParts
<1>5. CASE \E t \in Tasks : Timer(t) \/ Cancels(t) \/ (Idle /\ (Launch(t) \/ Teardown(t)))
  BY <1>0, <1>2, <1>5 DEF Timer, Cancels
<1>6. CASE User
  BY <1>0, <1>2, <1>4, <1>6 DEF User
<1> QED BY <1>1, <1>3, <1>5, <1>6 DEF Next

\* Every reachable state satisfies the invariant.
THEOREM RunInvHolds == Spec => []RunInv
BY InitInv, StepInv, PTL DEF Spec

\* Records, coroutines, requests and history always have their types.
THEOREM TypeCorrect == Spec => []TypeOK
<1>1. RunInv => TypeOK
  BY DEF RunInv
<1> QED BY <1>1, RunInvHolds, PTL

\* No tool ever runs unless it is SAFE, or CONFIRM and named in the request or
\* approved by the user for exactly this task and call.
THEOREM OnlyPermittedToolsEverRun == Spec => []OnlyPermittedToolsRun
<1>1. RunInv => OnlyPermittedToolsRun
  BY DEF RunInv
<1> QED BY <1>1, RunInvHolds, PTL

\* An approved request starts at most one execution, any other none.
THEOREM ApprovalsAreUsedOnce == Spec => []OneRunPerApproval
<1>1. RunInv => OneRunPerApproval
  BY DEF RunInv
<1> QED BY <1>1, RunInvHolds, PTL

\* What is listed as pending is retained by the broker and awaited by its run.
THEOREM PendingIsAlwaysAwaited == Spec => []PendingIsAwaited
<1>1. RunInv => PendingIsAwaited
  BY DEF RunInv
<1> QED BY <1>1, RunInvHolds, PTL

-----------------------------------------------------------------------------
(* Decisions are final, and the approval gate is implemented.              *)

\* Some pending requests are settled, all in the same way.
SettlesSome(s) == \A r \in ReqIds : \/ req'[r] = req[r]
                                    \/ /\ Pending(r) /\ req'[r].status = s
                                       /\ req'[r].task = req[r].task /\ req'[r].call = req[r].call

\* What a step may do to the requests and to the executions they started.
RequestStep ==
    \/ UNCHANGED <<req, uses>>
    \/ UNCHANGED uses /\ \E s \in ReqStatus \ {"pending"} : SettlesSome(s)
    \/ \E t \in Tasks : AskApproval(t)
    \/ /\ UNCHANGED req
       /\ \E r \in ReqIds : /\ req[r].status = "approved" /\ uses[r] = 0
                             /\ uses' = [uses EXCEPT ![r] = 1]

\* Nothing else happens to them.
LEMMA RequestSteps ==
    ASSUME RunInv, [Next]_vars
    PROVE  RequestStep
<1> USE DEF taskVars, runVars, cancelVars, brokerVars
<1>0. TypeOK
  BY DEF RunInv
<1>a. ASSUME NEW t \in Tasks, UNCHANGED uses, req' = CancelForTask(t) PROVE RequestStep
  <2>1. ASSUME NEW r \in ReqIds, Pending(r)
        PROVE  [req[r] EXCEPT !.status = "cancelled"] =
                   [task |-> req[r].task, call |-> req[r].call, status |-> "cancelled"]
    BY <1>0, <2>1, PendingTyped
  <2>2. SettlesSome("cancelled")
    BY <1>a, <2>1 DEF CancelForTask, SettlesSome
  <2> QED BY <1>a, <2>2 DEF RequestStep, ReqStatus
<1>b. ASSUME NEW r \in ReqIds, Pending(r), NEW s \in ReqStatus \ {"pending"},
             UNCHANGED uses, req' = Resolve(r, s)
      PROVE  RequestStep
  <2>1. SettlesSome(s)
    BY <1>0, <1>b, PendingTyped DEF Resolve, SettlesSome, TypeOK
  <2> QED BY <1>b, <2>1 DEF RequestStep
<1>1. ASSUME NEW t \in Tasks, Graph(t) PROVE RequestStep
  <2>1. CASE RunAllowed(t)
    <3>1. /\ UNCHANGED req /\ cur[t] = 0
          /\ uses' = [r \in ReqIds |-> IF r = cur[t] THEN uses[r] + 1 ELSE uses[r]]
      BY <2>1 DEF RunAllowed, RunTool, AtCall, RunInv, InHand
    <3>2. uses' = uses
      BY <1>0, <3>1 DEF TypeOK, ReqIds
    <3> QED BY <3>1, <3>2 DEF RequestStep
  <2>2. CASE WokenApproved(t)
    <3>1. /\ UNCHANGED req /\ cur[t] \in ReqIds /\ uses[cur[t]] = 0 /\ req[cur[t]].status = "approved"
          /\ uses' = [r \in ReqIds |-> IF r = cur[t] THEN uses[r] + 1 ELSE uses[r]]
      BY <1>0, <2>2 DEF WokenApproved, RunTool, RunInv, WaitsForItsOwn, TypeOK
    <3>2. uses' = [uses EXCEPT ![cur[t]] = 1]
      <4>1. uses = [r \in ReqIds |-> uses[r]]
        BY <1>0 DEF TypeOK
      <4>2. [uses EXCEPT ![cur[t]] = 1] = [r \in ReqIds |-> IF r = cur[t] THEN 1 ELSE uses[r]]
        BY <3>1, <4>1
      <4>3. \A r \in ReqIds : (IF r = cur[t] THEN uses[r] + 1 ELSE uses[r])
                              = (IF r = cur[t] THEN 1 ELSE uses[r])
        BY <3>1
      <4> QED BY <3>1, <4>2, <4>3
    <3> QED BY <3>1, <3>2 DEF RequestStep
  <2>3. CASE WokenRefused(t)
    <3>1. cur[t] \in ReqIds
      BY <1>0, <2>3 DEF WokenRefused, RunInv, WaitsForItsOwn, TypeOK
    <3> QED BY <1>b, <2>3, <3>1 DEF WokenRefused, RequestStep, ReqStatus
  <2>4. CASE AskApproval(t)
    BY <2>4 DEF RequestStep
  <2>5. CASE ~(RunAllowed(t) \/ WokenApproved(t) \/ WokenRefused(t) \/ AskApproval(t))
    <3>1. UNCHANGED <<req, uses>>
      BY <1>1, <2>5 DEF Graph, ModelCallsTools, ModelAnswers, ModelFails, Finish, EnterTools,
           RefuseCall, RepeatRefusal, ToolReturnsToVerify, ToolReturns, Verified, AfterTools
    <3> QED BY <3>1 DEF RequestStep
  <2> QED BY <2>1, <2>2, <2>3, <2>4, <2>5
<1>2. ASSUME NEW t \in Tasks, Deliver(t) PROVE RequestStep
  <2>1. CASE DeliverCancel(t) /\ pc[t] = "waiting" /\ Pending(cur[t])
    <3>1. cur[t] \in ReqIds
      BY <1>0, <2>1 DEF RunInv, WaitsForItsOwn, TypeOK
    <3> QED BY <1>b, <2>1, <3>1 DEF DeliverCancel, ReqStatus
  <2>2. CASE ~(DeliverCancel(t) /\ pc[t] = "waiting" /\ Pending(cur[t]))
    BY <1>2, <2>2 DEF Deliver, DeliverUnstarted, DeliverCancel, RequestStep
  <2> QED BY <2>1, <2>2
<1>3. ASSUME NEW t \in Tasks, Teardown(t) \/ Cancel(t) PROVE RequestStep
  BY <1>a, <1>3 DEF Teardown, Unwound, CloseFails, Finish, Cancel, RequestStep
<1>4. ASSUME NEW t \in Tasks, Launch(t) \/ WaitTimesOut(t) \/ CancelReturns(t) PROVE RequestStep
  BY <1>4 DEF Launch, Begin, Prepare, PrepareFails, Finish, WaitTimesOut, CancelReturns,
        RequestStep
<1>5. ASSUME NEW r \in ReqIds, Approve(r) \/ Deny(r) PROVE RequestStep
  BY <1>b, <1>5 DEF Approve, Deny, Decide, ReqStatus
<1>6. ASSUME NEW a \in Approvals, Start(a) PROVE RequestStep
  BY <1>6 DEF Start, RequestStep
<1>7. CASE UNCHANGED vars
  BY <1>7 DEF vars, RequestStep
<1> QED BY <1>1, <1>2, <1>3, <1>4, <1>5, <1>6, <1>7 DEF Next, User, Step, Timer, Cancels

\* Whatever races, only the first decision sets the status of a request.
THEOREM DecisionsAreFinal == Spec => DecisionIsFinal
<1>1. ASSUME RunInv, [Next]_vars, NEW r \in ReqIds, req[r].status \in ReqStatus \ {"pending"}
      PROVE  req'[r] = req[r]
  <2>1. RequestStep
    BY <1>1, RequestSteps
  <2>2. ASSUME NEW t \in Tasks, AskApproval(t) PROVE req'[r] = req[r]
    <3>1. r # nextReq
      BY <1>1 DEF RunInv, TypeOK, Unborn, NoRequest, ReqStatus, ReqIds
    <3> QED BY <1>1, <2>2, <3>1 DEF AskApproval, CreateRequest, Pending
  <2> QED BY <1>1, <2>1, <2>2 DEF RequestStep, SettlesSome, Pending
<1>2. RunInv /\ [Next]_vars =>
        [\A r \in ReqIds : req[r].status \in ReqStatus \ {"pending"} => req'[r] = req[r]]_vars
  BY <1>1
<1> QED BY <1>2, RunInvHolds, PTL DEF Spec, DecisionIsFinal

\* The mapped verdicts of a state.
LEMMA VerdictOf ==
    ASSUME NEW s \in ReqStatus \cup {"unused"}
    PROVE  /\ Verdict(s) = "none" <=> s = "unused"
           /\ Verdict(s) = "open" <=> s = "pending"
           /\ Verdict(s) = "granted" <=> s = "approved"
           /\ s \in ReqStatus \ {"pending"} => Verdict(s) \in {"granted", "refused"}
BY DEF Verdict, ReqStatus

\* A step of the agent runtime is a step of the gate or leaves it alone.
LEMMA GateStep ==
    ASSUME RunInv, [Next]_vars
    PROVE  [Gate!GateNext]_(Gate!gateVars)
<1> DEFINE V == [r \in ReqIds |-> Verdict(req[r].status)]
<1> DEFINE Op == {r \in ReqIds : V[r] = "open"}
<1>0. TypeOK
  BY DEF RunInv
<1>a. \A r \in ReqIds : req[r].status \in ReqStatus \cup {"unused"}
  BY <1>0 DEF TypeOK, Request, NoRequest
<1>b. \A r \in ReqIds : Pending(r) <=> r \in Op
  BY <1>a, VerdictOf DEF Pending
<1>c. RequestStep
  BY RequestSteps
<1>1. CASE UNCHANGED <<req, uses>>
  BY <1>1 DEF Gate!gateVars
<1>2. CASE UNCHANGED uses /\ \E s \in ReqStatus \ {"pending"} : SettlesSome(s)
  <2>1. PICK s \in ReqStatus \ {"pending"} : SettlesSome(s)
    BY <1>2
  <2> DEFINE S == {r \in ReqIds : Pending(r) /\ req'[r].status = s}
  <2>2. S \in SUBSET Op
    BY <1>b
  <2>3. ASSUME NEW r \in ReqIds
        PROVE  Verdict(req'[r].status) = IF r \in S THEN Verdict(s) ELSE V[r]
    BY <2>1, <2>3 DEF SettlesSome
  <2>4. V' = [r \in ReqIds |-> IF r \in S THEN Verdict(s) ELSE V[r]]
    BY <2>3
  <2>5. Verdict(s) \in {"granted", "refused"}
    BY VerdictOf
  <2>6. Gate!Settle(S, Verdict(s))
    BY <1>2, <2>4, <2>5 DEF Gate!Settle, Gate!Settled
  <2> QED BY <2>2, <2>5, <2>6 DEF Gate!GateNext, Gate!Open
<1>3. ASSUME NEW t \in Tasks, AskApproval(t) PROVE Gate!GateNext
  <2> DEFINE D == {r \in ReqIds : r # nextReq /\ nextReq - r = MaxRequests /\ Pending(r)}
  <2>1. nextReq \in ReqIds /\ req[nextReq] = NoRequest /\ UNCHANGED uses
    BY <1>3 DEF AskApproval, RunInv, Unborn, ReqIds
  <2>2. D \in SUBSET Op
    BY <1>b
  <2>3. V[nextReq] = "none"
    BY <2>1, VerdictOf DEF NoRequest
  <2>4. ASSUME NEW r \in ReqIds
        PROVE  Verdict(req'[r].status) = IF r = nextReq THEN "open"
                                         ELSE IF r \in D THEN "refused" ELSE V[r]
    <3>1. CASE r = nextReq
      BY <1>3, <3>1, VerdictOf DEF AskApproval, CreateRequest, ReqStatus
    <3>2. CASE r \in D
      <4>1. req'[r] = [req[r] EXCEPT !.status = "expired"]
        BY <1>3, <3>2 DEF AskApproval, CreateRequest
      <4>2. req'[r].status = "expired"
        BY <1>0, <3>2, <4>1, PendingTyped
      <4> QED BY <3>2, <4>2 DEF Verdict
    <3>3. CASE r # nextReq /\ r \notin D
      BY <1>3, <3>3 DEF AskApproval, CreateRequest
    <3> QED BY <3>1, <3>2, <3>3
  <2>5. V' = [[r \in ReqIds |-> IF r \in D THEN "refused" ELSE V[r]] EXCEPT ![nextReq] = "open"]
    BY <2>1, <2>4
  <2>6. Gate!Ask(nextReq, D)
    BY <2>1, <2>3, <2>5 DEF Gate!Ask, Gate!Settled
  <2> QED BY <2>1, <2>2, <2>6 DEF Gate!GateNext, Gate!Open
<1>4. ASSUME UNCHANGED req, NEW r \in ReqIds, req[r].status = "approved", uses[r] = 0,
             uses' = [uses EXCEPT ![r] = 1]
      PROVE  Gate!GateNext
  <2>1. V[r] = "granted" /\ V' = V
    BY <1>4, VerdictOf DEF ReqStatus
  <2> QED BY <1>4, <2>1 DEF Gate!GateNext, Gate!RunOnce
<1> QED BY <1>c, <1>1, <1>2, <1>3, <1>4 DEF RequestStep

\* The broker, its waiters and the tool node implement the approval gate.
THEOREM GateIsImplemented == Spec => ImplementsGate
<1>1. Init => Gate!GateInit
  BY DEF Init, Gate!GateInit, NoRequest, Verdict
<1> QED BY <1>1, GateStep, RunInvHolds, PTL DEF Spec, ImplementsGate, Gate!GateSpec

-----------------------------------------------------------------------------
(* The end of a run.  Beside RunInv, a cancel call polls, and a record says *)
(* cancelled, only when the coroutine has left its body.                   *)

\* The coroutine has left its body.
Down(p) == p \in {"unwinding", "done"}

CancelInv ==
    /\ EndedRunsAreRecorded
    /\ \A t \in Tasks : canceller[t] = "polling" \/ status[t] = "cancelled" => Down(pc[t])

\* What a step may do to where a run stands, its record and its cancel call:
\* nothing; go on or finish; go down for a cancel; be marked; be asked to stop.
Fate(p, s, c, p1, s1, c1) ==
    \/ p1 = p /\ s1 = s /\ c1 = c
    \/ /\ ~Down(p) /\ c1 = c
       /\ \/ p1 = "done" /\ s1 \in {"completed", "error"}
          \/ p1 \notin {"none", "done"} /\ (s1 = "cancelled" => s = "cancelled")
    \/ p # "done" /\ Down(p1) /\ s1 = s /\ c1 \in {c, "polling"} /\ (p1 = "done" => c1 = "polling")
    \/ p = "unwinding" /\ p1 = "done" /\ Terminal(s1) /\ c1 = c
    \/ p1 = p /\ c1 = "none" /\ Terminal(s1) /\ (s1 = s \/ c = "polling")
    \/ p1 = p /\ s1 = s /\ c1 \in {"issued", "polling"} /\ (c1 = "polling" <=> c = "polling" \/ p = "done")

FateOf(t) == Fate(pc[t], status[t], canceller[t], pc'[t], status'[t], canceller'[t])

\* In a step of the agent graph a run goes on or finishes.
LEMMA GraphFate ==
    ASSUME TypeOK, NEW t \in Tasks, Graph(t)
    PROVE  \A u \in Tasks : FateOf(u)
<1> USE DEF Goto, cancelVars, taskVars, runVars
<1>1. canceller' = canceller /\ ~Down(pc[t])
  BY DEF Graph, ModelCallsTools, ModelAnswers, ModelFails, Finish, EnterTools, RefuseCall, RepeatRefusal,
         AskApproval, RunAllowed, WokenApproved, WokenRefused, ToolReturnsToVerify, ToolReturns, Verified,
         AfterTools, AtCall, Down
<1>2. /\ \E p \in Places : pc' = [pc EXCEPT ![t] = p]
      /\ \E s \in TaskStatus : status' = [status EXCEPT ![t] = s]
  <2>1. \A x \in TaskStatus : OnEvent(x) \in TaskStatus /\ OnPrompt(x) \in TaskStatus
    BY DEF OnEvent, OnPrompt, TaskStatus
  <2>2. status[t] \in TaskStatus /\ status = [status EXCEPT ![t] = status[t]]
    BY DEF TypeOK
  <2> QED BY <2>1, <2>2
       DEF Graph, ModelCallsTools, ModelAnswers, ModelFails, Finish, EnterTools, RefuseCall, RepeatRefusal,
           AskApproval, RunAllowed, RunTool, WokenApproved, WokenRefused, NextCall, ToolReturnsToVerify,
           ToolReturns, Verified, AfterTools, Places, TaskStatus
<1>3. \/ pc'[t] = "done" /\ status'[t] \in {"completed", "error"}
      \/ /\ pc'[t] \in {"routed", "tools", "waiting", "calling", "verifying", "model"}
         /\ status'[t] \in {status[t], OnEvent(status[t]), OnPrompt(status[t])}
  BY DEF TypeOK, Graph, ModelCallsTools, ModelAnswers, ModelFails, Finish, EnterTools, RefuseCall,
         RepeatRefusal, AskApproval, RunAllowed, RunTool, WokenApproved, WokenRefused, NextCall,
         ToolReturnsToVerify, ToolReturns, Verified, AfterTools
<1>4. FateOf(t)
  BY <1>1, <1>3 DEF FateOf, Fate, OnEvent, OnPrompt, Terminal
<1>5. ASSUME NEW u \in Tasks, u # t PROVE FateOf(u)
  BY <1>1, <1>2, <1>5 DEF FateOf, Fate, TypeOK
<1> QED BY <1>4, <1>5

\* So it is with each step outside the graph: timeouts, cancels, the unwinding.
LEMMA OutsideFate ==
    ASSUME TypeOK, NEW t \in Tasks,
           \/ WaitTimesOut(t) \/ Deliver(t) \/ CancelReturns(t) \/ Launch(t) \/ Teardown(t) \/ Cancel(t)
    PROVE  \A u \in Tasks : FateOf(u)
<1> USE DEF Goto, cancelVars, taskVars, runVars
<1>1. CASE WaitTimesOut(t)
  BY <1>1 DEF WaitTimesOut, FateOf, Fate
<1>2. CASE DeliverUnstarted(t)
  BY <1>2 DEF DeliverUnstarted, FateOf, Fate, TypeOK, Down
<1>3. CASE DeliverCancel(t)
  BY <1>3 DEF DeliverCancel, FateOf, Fate, TypeOK, Down
<1>4. CASE CancelReturns(t)
  BY <1>4 DEF CancelReturns, FateOf, Fate, TypeOK, MarkCancelled, Terminal
<1>5. CASE Launch(t)
  BY <1>5 DEF Launch, Begin, Prepare, PrepareFails, Finish, FateOf, Fate, TypeOK, Down
<1>6. CASE Teardown(t)
  BY <1>6 DEF Teardown, Unwound, CloseFails, Finish, FateOf, Fate, TypeOK, MarkCancelled, Terminal
<1>7. CASE Cancel(t)
  BY <1>7 DEF Cancel, FateOf, Fate, TypeOK
<1> QED BY <1>1, <1>2, <1>3, <1>4, <1>5, <1>6, <1>7 DEF Deliver

\* So it is with any step: a run that is created had no place before.
LEMMA StepFate ==
    ASSUME RunInv, [Next]_vars, NEW u \in Tasks
    PROVE  FateOf(u)
<1>0. TypeOK
  BY DEF RunInv
<1>1. ASSUME NEW t \in Tasks, Graph(t) PROVE FateOf(u)
  BY <1>0, <1>1, GraphFate
<1>2. ASSUME NEW t \in Tasks,
             \/ WaitTimesOut(t) \/ Deliver(t) \/ CancelReturns(t) \/ Launch(t) \/ Teardown(t) \/ Cancel(t)
      PROVE  FateOf(u)
  BY <1>0, <1>2, OutsideFate
<1>3. ASSUME NEW r \in ReqIds, Approve(r) \/ Deny(r) PROVE FateOf(u)
  BY <1>3 DEF Approve, Deny, Decide, FateOf, Fate, taskVars, runVars, cancelVars
<1>4. ASSUME NEW a \in Approvals, Start(a) PROVE FateOf(u)
  <2>1. pc[nextTask] = "none"
    <3>1. Unborn /\ nextTask \in Tasks /\ nextTask \in Nat
      BY <1>0, <1>4 DEF RunInv, Start, TypeOK, Tasks
    <3>2. nextTask >= nextTask
      BY <3>1
    <3> QED BY <3>1, <3>2 DEF Unborn
  <2> QED BY <1>0, <1>4, <2>1 DEF Start, FateOf, Fate, Down, cancelVars, TypeOK
<1>5. CASE UNCHANGED vars
  BY <1>5 DEF vars, taskVars, runVars, cancelVars, FateOf, Fate
<1> QED BY <1>1, <1>2, <1>3, <1>4, <1>5 DEF Next, User, Step, Timer, Cancels

\* The end of a run and of its cancel leave the record as it should be.
LEMMA CancelStep ==
    ASSUME RunInv, CancelInv, [Next]_vars
    PROVE  CancelInv'
<1> SUFFICES ASSUME NEW t \in Tasks
             PROVE  /\ pc'[t] = "done" => Terminal(status'[t]) \/ canceller'[t] # "none"
                    /\ canceller'[t] = "polling" \/ status'[t] = "cancelled" => Down(pc'[t])
  BY DEF CancelInv, EndedRunsAreRecorded
<1>1. /\ pc[t] = "done" => Terminal(status[t]) \/ canceller[t] # "none"
      /\ canceller[t] = "polling" \/ status[t] = "cancelled" => Down(pc[t])
  BY DEF CancelInv, EndedRunsAreRecorded
<1>2. FateOf(t)
  BY StepFate
<1> QED BY <1>1, <1>2 DEF FateOf, Fate, Down, Terminal

\* Every reachable state satisfies it.
LEMMA CancelInvHolds == Spec => []CancelInv
<1>1. Init => CancelInv
  BY DEF Init, CancelInv, EndedRunsAreRecorded, Terminal
<1> QED BY <1>1, CancelStep, RunInvHolds, PTL DEF Spec

\* A run that has ended leaves a finished record, or a cancel call that will
\* finish it (_run_record, AgentRunner.cancel).
THEOREM EndedRunsHaveRecords == Spec => []EndedRunsAreRecorded
<1>1. CancelInv => EndedRunsAreRecorded
  BY DEF CancelInv
<1> QED BY <1>1, CancelInvHolds, PTL

\* No tool is started for a task whose record says cancelled (AgentRunner.cancel).
THEOREM CancelledRunsNothing == Spec => NothingRunsAfterCancel
<1>1. ASSUME RunInv, CancelInv, [Next]_vars, NEW t \in Tasks, status[t] = "cancelled"
      PROVE  pc'[t] # "calling"
  <2>1. Down(pc[t]) /\ FateOf(t)
    BY <1>1, StepFate DEF CancelInv
  <2> QED BY <2>1 DEF FateOf, Fate, Down
<1>2. RunInv /\ CancelInv /\ [Next]_vars =>
        [\A t \in Tasks : status[t] = "cancelled" => uses' = uses \/ pc'[t] # "calling"]_vars
  BY <1>1
<1> QED BY <1>2, RunInvHolds, CancelInvHolds, PTL DEF Spec, NothingRunsAfterCancel

-----------------------------------------------------------------------------
(* What a refusal decides.  A run that waits, waits for the last request its *)
(* task has made: what is settled from outside has no successor.             *)

WaitsForItsLast ==
    \A t \in Tasks : pc[t] = "waiting" => \A n \in ReqIds : n < nextReq /\ req[n].task = t => n <= cur[t]

\* Only a prompt makes a run wait, or makes a request.
WaitStep ==
    \/ \E t \in Tasks : AskApproval(t)
    \/ /\ UNCHANGED nextReq
       /\ \A t \in Tasks : pc'[t] = "waiting" => pc[t] = "waiting" /\ cur'[t] = cur[t]

LEMMA WaitSteps ==
    ASSUME TypeOK, [Next]_vars
    PROVE  WaitStep
<1> USE DEF taskVars, runVars, cancelVars, brokerVars
<1>1. ASSUME NEW t \in Tasks, Graph(t), ~AskApproval(t) PROVE WaitStep
  BY <1>1 DEF WaitStep, TypeOK, Graph, ModelCallsTools, ModelAnswers, ModelFails, Finish, EnterTools, RefuseCall,
       RepeatRefusal, RunAllowed, RunTool, WokenApproved, WokenRefused, NextCall, ToolReturnsToVerify,
       ToolReturns, Verified, AfterTools, Goto
<1>2. ASSUME NEW t \in Tasks,
             \/ WaitTimesOut(t) \/ Deliver(t) \/ CancelReturns(t) \/ Launch(t) \/ Teardown(t) \/ Cancel(t)
      PROVE  WaitStep
  BY <1>2 DEF WaitStep, TypeOK, WaitTimesOut, Deliver, DeliverUnstarted, DeliverCancel, CancelReturns, Launch,
       Begin, Prepare, PrepareFails, Teardown, Unwound, CloseFails, Finish, Cancel, Goto
<1>3. ASSUME NEW r \in ReqIds, Approve(r) \/ Deny(r) PROVE WaitStep
  BY <1>3 DEF WaitStep, Approve, Deny, Decide
<1>4. ASSUME NEW a \in Approvals, Start(a) PROVE WaitStep
  BY <1>4 DEF WaitStep, TypeOK, Start, Goto
<1>5. CASE UNCHANGED vars
  BY <1>5 DEF WaitStep, vars
<1> QED BY <1>1, <1>2, <1>3, <1>4, <1>5 DEF WaitStep, Next, User, Step, Timer, Cancels

\* Both hold whatever a step does: a new request is made for no refused tool, and
\* the pending request it settles is the last of its task.
LEMMA RefusalStep ==
    ASSUME RunInv, RefusalIsLast, WaitsForItsLast, [Next]_vars
    PROVE  RefusalIsLast' /\ WaitsForItsLast'
<1>0. TypeOK /\ WaitStep /\ RequestStep
  BY WaitSteps, RequestSteps DEF RunInv
<1>1. ASSUME NEW t \in Tasks, AskApproval(t) PROVE RefusalIsLast' /\ WaitsForItsLast'
  <2> USE DEF cancelVars
  <2>1. /\ nextReq \in ReqIds /\ nextReq' = nextReq + 1 /\ cur' = [cur EXCEPT ![t] = nextReq]
        /\ pc' = [pc EXCEPT ![t] = "waiting"] /\ ~PreviousRefusal(t, Tool(t))
        /\ req' = CreateRequest(t, Call(t)) /\ Tool(t) = ToolOf[Call(t)]
    BY <1>0, <1>1 DEF AskApproval, ReqIds, TypeOK, Goto, Tool
  <2>2. req'[nextReq] = [task |-> t, call |-> Call(t), status |-> "pending"]
    BY <2>1 DEF CreateRequest
  <2>3. \A r \in ReqIds : r # nextReq => req'[r].task = req[r].task /\ req'[r].call = req[r].call
    BY <1>0, <2>1, PendingTyped DEF CreateRequest
  <2>4. \A r \in ReqIds : r # nextReq /\ nextReq - r # MaxRequests => req'[r] = req[r]
    BY <2>1 DEF CreateRequest
  <2>5. WaitsForItsLast'
    <3> SUFFICES ASSUME NEW u \in Tasks, pc'[u] = "waiting", NEW n \in ReqIds, n < nextReq', req'[n].task = u
                 PROVE  n <= cur'[u]
      BY DEF WaitsForItsLast
    <3>1. CASE u = t
      BY <1>0, <2>1, <3>1 DEF TypeOK, ReqIds
    <3>2. CASE u # t
      <4>1. pc[u] = "waiting" /\ cur'[u] = cur[u]
        BY <1>0, <2>1, <3>2 DEF TypeOK
      <4>2. n # nextReq
        BY <2>2, <3>2
      <4>3. n < nextReq /\ req[n].task = u
        BY <2>1, <2>3, <4>2 DEF ReqIds
      <4> QED BY <4>1, <4>3 DEF WaitsForItsLast
    <3> QED BY <3>1, <3>2
  <2>6. SUFFICES ASSUME NEW r \in ReqIds, NEW n \in ReqIds, Retained(r)', r < n, n < nextReq',
                        IsFor(r, req[n].task, ToolOf[req[n].call])'
                 PROVE  req'[r].status \notin Refused
    BY <2>5 DEF RefusalIsLast
  <2>7. r < nextReq /\ Retained(r) /\ nextReq - r # MaxRequests
    BY <2>1, <2>6, BoundsAssumption DEF Retained, ReqIds
  <2>8. req'[r] = req[r]
    BY <2>4, <2>7 DEF ReqIds
  <2>9. CASE n = nextReq
    <3>1. IsFor(r, t, Tool(t))
      BY <2>1, <2>2, <2>6, <2>8, <2>9 DEF IsFor
    <3> QED BY <2>1, <2>7, <2>8, <3>1 DEF PreviousRefusal
  <2>10. CASE n # nextReq
    <3>1. n < nextReq /\ IsFor(r, req[n].task, ToolOf[req[n].call])
      BY <2>1, <2>3, <2>6, <2>7, <2>10 DEF IsFor, ReqIds
    <3> QED BY <2>6, <2>7, <2>8, <3>1 DEF RefusalIsLast
  <2> QED BY <2>9, <2>10
<1>2. ASSUME ~ \E t \in Tasks : AskApproval(t) PROVE RefusalIsLast' /\ WaitsForItsLast'
  <2>1. /\ nextReq' = nextReq
        /\ \A t \in Tasks : pc'[t] = "waiting" => pc[t] = "waiting" /\ cur'[t] = cur[t]
    BY <1>0, <1>2 DEF WaitStep
  <2>2. \/ UNCHANGED req
        \/ \E s \in ReqStatus \ {"pending"} : SettlesSome(s)
    BY <1>0, <1>2 DEF RequestStep
  <2>3. \A r \in ReqIds : /\ req'[r].task = req[r].task /\ req'[r].call = req[r].call
                          /\ req'[r] = req[r] \/ Pending(r)
    BY <1>0, <2>2, PendingTyped DEF SettlesSome
  <2>4. WaitsForItsLast'
    BY <2>1, <2>3 DEF WaitsForItsLast
  <2>5. SUFFICES ASSUME NEW r \in ReqIds, NEW n \in ReqIds, Retained(r), r < n, n < nextReq,
                        IsFor(r, req[n].task, ToolOf[req[n].call])
                 PROVE  req'[r].status \notin Refused
    BY <2>1, <2>3, <2>4 DEF RefusalIsLast, Retained, IsFor
  <2>6. req[r].status \notin Refused
    BY <2>5 DEF RefusalIsLast
  <2>7. ~Pending(r)
    <3>1. SUFFICES ASSUME Pending(r) PROVE FALSE
      OBVIOUS
    <3>2. req[r].task \in Tasks /\ pc[req[r].task] = "waiting" /\ cur[req[r].task] = r
      BY <1>0, <3>1, PendingTyped DEF RunInv, PendingIsAwaited
    <3>3. req[n].task = req[r].task
      BY <2>5 DEF IsFor
    <3>4. n <= r
      BY <2>5, <3>2, <3>3 DEF WaitsForItsLast
    <3> QED BY <2>5, <3>4 DEF ReqIds
  <2> QED BY <2>3, <2>6, <2>7
<1> QED BY <1>1, <1>2

\* A refusal is the last word on its tool while the broker remembers it: no later
\* request of the task is for that tool, and none with a successor turns refused
\* (previous_refusal, _decide, wait, cancel_for_task).
THEOREM RefusalsStand == Spec => []RefusalIsLast
<1>1. Init => RefusalIsLast /\ WaitsForItsLast
  BY BoundsAssumption DEF Init, RefusalIsLast, WaitsForItsLast, Retained, ReqIds, Tasks
<1> QED BY <1>1, RefusalStep, RunInvHolds, PTL DEF Spec
=============================================================================

---------------------------- MODULE ApprovalGate ----------------------------
(***************************************************************************)
(* What the approval machinery promises, without tasks, timers, queues or  *)
(* coroutines: a request is opened once, settled once, and only a granted  *)
(* one ever starts a tool, once.  AgentRun implements this.                *)
(***************************************************************************)
EXTENDS Naturals

CONSTANT Ids
VARIABLES verdict, runs

gateVars == <<verdict, runs>>

Verdicts == {"none", "open", "granted", "refused"}

GateInit ==
    /\ verdict = [r \in Ids |-> "none"]
    /\ runs = [r \in Ids |-> 0]

\* Settle some of the open requests.
Settled(S, v) == [r \in Ids |-> IF r \in S THEN v ELSE verdict[r]]

Open == {r \in Ids : verdict[r] = "open"}

\* A new request; requests that no longer fit beside it are refused.
Ask(r, dropped) ==
    /\ verdict[r] = "none"
    /\ verdict' = [Settled(dropped, "refused") EXCEPT ![r] = "open"]
    /\ UNCHANGED runs

Settle(S, v) ==
    /\ v \in {"granted", "refused"}
    /\ verdict' = Settled(S, v)
    /\ UNCHANGED runs

RunOnce(r) ==
    /\ verdict[r] = "granted" /\ runs[r] = 0
    /\ runs' = [runs EXCEPT ![r] = 1]
    /\ UNCHANGED verdict

GateNext ==
    \/ \E r \in Ids : \E dropped \in SUBSET Open : Ask(r, dropped)
    \/ \E S \in SUBSET Open : \E v \in {"granted", "refused"} : Settle(S, v)
    \/ \E r \in Ids : RunOnce(r)

GateSpec == GateInit /\ [][GateNext]_gateVars
=============================================================================

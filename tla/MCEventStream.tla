--------------------------- MODULE MCEventStream ---------------------------
(***************************************************************************)
(* Instance, for TLC, of how a task is watched: the stream of events to    *)
(* two clients, and the panel that a mission has in the browser.  Each     *)
(* part on its own, the other at rest in one state.                        *)
(***************************************************************************)
EXTENDS EventStream, MissionPanel

VARIABLE part \* the one that moves

WatchingInit ==
    /\ part \in {"stream", "panel"} /\ StreamInit /\ PanelInit
    /\ part = "panel" \/ sessions = "own"

WatchingNext ==
    \/ part = "stream" /\ StreamNext /\ UNCHANGED <<panelVars, part>>
    \/ part = "panel" /\ PanelNext /\ UNCHANGED <<streamVars, part>>

WatchingSpec == WatchingInit /\ [][WatchingNext]_<<streamVars, panelVars, part>>

\* A mission's task, the task of one of its steps, and the clients.
CONSTANTS missionTask, stepTask, c1, c2
MCTasks == {missionTask, stepTask}
MCMissionOf == stepTask :> missionTask
MCConns == {c1, c2}
OneConn == {c1}
ConnSymmetry == Permutations(MCConns)

\* No plan, and one whose first step asks the user and is looked into by the second.
S(id, tool, deps, runIf) == [id |-> id, tool |-> tool, deps |-> deps, runIf |-> runIf]
Watch == <<S("a", "start", {}, "always"), S("b", "look", {"a"}, "on_success")>>
MCRawPlans == {<<>>, Watch}
MCPermission == "start" :> "CONFIRM" @@ "look" :> "SAFE"
MCApproved == {}
=============================================================================

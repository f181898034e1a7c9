---------------------------- MODULE MissionPanel ----------------------------
(***************************************************************************)
(* A mission and the browser that watches it: the events the engine        *)
(* publishes under the mission's task, on their way over the socket, the   *)
(* panel that useNexus builds of them, and the safety net that builds it   *)
(* anew from the record. The mission is that of Mission, step for step;    *)
(* here each of its steps says what it publishes.                          *)
(*                                                                         *)
(* The socket is in order and loses what is on it when it closes; the      *)
(* response of the POST is not ordered with it. The events of a step's own *)
(* task bear that task's id, and the panel knows none but the mission's.   *)
(* Cancelling the task of a step, which publishes nothing under the        *)
(* mission's, is left to Mission.                                          *)
(***************************************************************************)
EXTENDS Mission

CONSTANTS
    MaxOnWay,     \* bound: events on their way
    MaxPanelDrops \* bound: times the socket closes

ASSUME PanelAssumption == MaxOnWay \in Nat \ {0} /\ MaxPanelDrops \in Nat

VARIABLES
    onWay,   \* events on the socket
    wire,    \* the socket: up or down
    losses,  \* bound: how often it closed
    post,    \* POST /api/chat: posted, or known once its response is in
    active,  \* activeTask.current is the mission's task
    panel,   \* the mission useNexus keeps: its steps' states, NoPanel for null
    net,     \* the safety net: off, armed, asked, back, failed
    logged,  \* what rebuildFromEvents makes of the record's events
    missed   \* history: an event was lost, or came before the response

browserVars == <<onWay, wire, losses, post, active, panel, net, logged, missed>>
panelVars == <<missionVars, browserVars>>

NoPanel == [known |-> FALSE, steps |-> <<>>, finished |-> FALSE]
NewPanel == [NoPanel EXCEPT !.known = TRUE]

\* Mission events by what they mean to a panel; "ended" is the task's last one.
Of(what, step) == [what |-> what, step |-> step]
Started == Of("started", 0)
Over    == Of("over", 0)     \* mission_completed, _failed, _cancelled
Ended   == Of("ended", 0)    \* task_completed, _error, _cancelled

-----------------------------------------------------------------------------
(* The panel.                                                              *)

StepStates == {"running", "waiting", "done", "failed", "skipped"}

\* One event more, as it is heard and as rebuildFromEvents replays it.
AdvanceOnce(p, e) ==                     \* variant: what failed is not run again
    IF e.what = "started" THEN NewPanel
    ELSE IF p.known /\ e.what = "planned" THEN [p EXCEPT !.steps = [i \in 1..e.step |-> "pending"]]
    ELSE IF /\ p.known /\ e.what \in StepStates
            /\ e.step \in DOMAIN p.steps /\ p.steps[e.step] # "failed"
         THEN [p EXCEPT !.steps[e.step] = e.what]
    ELSE IF p.known /\ e.what = "over" THEN [p EXCEPT !.finished = TRUE]
    ELSE p
Advance(p, e) ==
    IF e.what = "started" THEN NewPanel
    ELSE IF p.known /\ e.what = "planned" THEN [p EXCEPT !.steps = [i \in 1..e.step |-> "pending"]]
    ELSE IF p.known /\ e.what \in StepStates /\ e.step \in DOMAIN p.steps
         THEN [p EXCEPT !.steps[e.step] = e.what]
    ELSE IF p.known /\ e.what = "over" THEN [p EXCEPT !.finished = TRUE]
    ELSE p

\* rebuildFromEvents: one event after the other.
Rebuilt(p, events) == FoldLeft(Advance, p, events)

-----------------------------------------------------------------------------
(* The engine, and what it publishes.                                      *)

Tell(events) ==
    /\ logged' = Rebuilt(logged, events)
    /\ IF wire = "up" THEN /\ Len(onWay \o events) <= MaxOnWay
                           /\ onWay' = onWay \o events /\ UNCHANGED missed
                      ELSE missed' = (missed \/ events # <<>>) /\ UNCHANGED onWay
    /\ UNCHANGED <<wire, losses, post, active, panel, net>>

\* task_error follows mission_failed at once.
TellEnd ==
    Tell(CASE mission' = "FAILED"    -> <<Over, Ended>>
           [] mission' = "COMPLETED" -> <<Over>>
           [] OTHER                  -> <<>>)

PlanningTold ==
    \/ Open /\ Tell(<<Started>>)
    \/ OpenFails /\ Tell(<<Ended>>)
    \/ \E raw \in RawPlans :
          \/ PlanAccepted(raw) /\ Tell(<<Of("planned", Len(raw))>>)
          \/ (PlanTooLong(raw) \/ PlanRejected(raw)) /\ TellEnd

LoopTold ==
    \/ \E why \in {"max_loop_iterations", "max_runtime", "max_tool_calls"} : Halt(why) /\ TellEnd
    \/ \E i \in Steps : SkipStep(i) /\ Tell(<<Of("skipped", i)>>)
    \/ \E i \in Steps : StartStep(i) /\ Tell(<<Of("running", i)>>)
    \/ EndLoop /\ TellEnd

StepTold ==
    \/ \E r \in {"ok", "failed"} : (CallTool(r) \/ Resume(r)) /\ Tell(<<>>)
    \/ AskUser /\ Tell(<<Of("waiting", cur)>>)
    \/ AlreadyRefused /\ Tell(<<>>)
    \/ \E error, unmet \in BOOLEAN :
          StepEnds(error, unmet) /\ Tell(<<Of(IF stat'[cur] = "COMPLETED" THEN "done" ELSE "failed", cur)>>)

EndTold ==
    \/ Summarised /\ Tell(<<>>)
    \/ CloseMission /\ Tell(IF mission = "COMPLETED" THEN <<Ended>> ELSE <<>>)
    \/ CloseFails /\ Tell(<<Ended>>)

\* mission_cancelled where the engine was cancelled, task_cancelled once.
CancelTold ==
    \/ DeliverCancel /\ Tell(<<Over>>)
    \/ DeliverOutside /\ Tell(<<>>)
    \/ (Unwound \/ CancelReturns) /\ Tell(IF Terminal(rec) THEN <<>> ELSE <<Ended>>)

EngineTold ==
    \/ PlanningTold \/ LoopTold \/ StepTold \/ EndTold
    \/ Expires /\ Tell(<<>>)
    \/ place # "loop" /\ (CancelTold \/ ((UserDecides \/ Cancel) /\ Tell(<<>>)))

-----------------------------------------------------------------------------
(* The browser.                                                            *)

\* The response: the task is the active one, and has no panel yet.
PostReturns ==
    /\ post = "posted" /\ post' = "known"
    /\ active' = TRUE /\ panel' = NoPanel /\ net' = "armed"
    /\ UNCHANGED <<missionVars, onWay, wire, losses, logged, missed>>

\* onmessage: an event of the active task; any other is passed over.
Hear ==
    /\ onWay # <<>> /\ onWay' = Tail(onWay)
    /\ IF active THEN /\ panel' = Advance(panel, Head(onWay))
                      /\ active' = (Head(onWay) # Ended)
                 ELSE UNCHANGED <<panel, active>>
    /\ missed' = (missed \/ post = "posted")
    /\ UNCHANGED <<missionVars, wire, losses, post, net, logged>>

NetLooks ==
    /\ net = "armed" /\ net' = IF active THEN "asked" ELSE "off"
    /\ UNCHANGED <<missionVars, onWay, wire, losses, post, active, panel, logged, missed>>

\* The record is served; unless it is terminal there is nothing to do.
NetServed ==
    /\ net = "asked" /\ net' = IF Terminal(rec) THEN "back" ELSE "off"
    /\ UNCHANGED <<missionVars, onWay, wire, losses, post, active, panel, logged, missed>>

\* A turn with its response, the panel its events make, and the task is over.
\* Nothing but an end is published on a record that is terminal: logged is as it was served.
NetShows ==
    /\ net = "back" /\ net' = "off"
    /\ active' = FALSE
    /\ IF logged.known THEN panel' = logged /\ missed' = FALSE ELSE UNCHANGED <<panel, missed>>
    /\ UNCHANGED <<missionVars, onWay, wire, losses, post, logged>>

NetFails ==
    /\ net \in {"asked", "back"} /\ net' = "failed"
    /\ UNCHANGED <<missionVars, onWay, wire, losses, post, active, panel, logged, missed>>

SocketCloses ==
    /\ wire = "up" /\ losses < MaxPanelDrops
    /\ wire' = "down" /\ losses' = losses + 1
    /\ onWay' = <<>> /\ missed' = (missed \/ onWay # <<>>)
    /\ UNCHANGED <<missionVars, post, active, panel, net, logged>>

\* The lists are read anew (Client), the panel is not.
SocketReopens ==
    /\ wire = "down" /\ wire' = "up"
    /\ UNCHANGED <<missionVars, onWay, losses, post, active, panel, net, logged, missed>>

Browser ==
    \/ PostReturns \/ Hear
    \/ NetLooks \/ NetServed \/ NetShows \/ NetFails
    \/ SocketCloses \/ SocketReopens

PanelInit ==
    /\ MissionInit
    /\ onWay = <<>> /\ wire = "up" /\ losses = 0 /\ post = "posted" /\ active = FALSE
    /\ panel = NoPanel /\ net = "off" /\ logged = NoPanel /\ missed = FALSE

PanelNext == EngineTold \/ Browser

PanelSpec == PanelInit /\ [][PanelNext]_panelVars

-----------------------------------------------------------------------------
(* Properties.                                                             *)

\* Every variable has its type.
PanelTypes ==
    LET panels == [known : BOOLEAN, steps : Seq(StepStates \cup {"pending"}), finished : BOOLEAN]
    IN  /\ MissionTypes
        /\ onWay \in Seq([what : StepStates \cup {"started", "planned", "over", "ended"}, step : Nat])
        /\ wire \in {"up", "down"} /\ losses \in 0..MaxPanelDrops /\ post \in {"posted", "known"}
        /\ {active, missed} \subseteq BOOLEAN /\ {panel, logged} \subseteq panels
        /\ net \in {"off", "armed", "asked", "back", "failed"}

\* What the user may be told of step i. One that waits to be retried is shown as
\* failed; of what a cancelled mission left, the last that was heard is shown.
MayShow(i) ==
    CASE stat[i] = "COMPLETED" -> {"done"}
      [] stat[i] = "FAILED"    -> {"failed"}
      [] stat[i] = "SKIPPED"   -> {"skipped"}
      [] stat[i] = "RUNNING"   -> {"running"}
      [] stat[i] = "WAITING_APPROVAL" -> {"waiting"}
      [] stat[i] = "PENDING"   -> IF retries[i] = 0 THEN {"pending"} ELSE {"failed"}
      [] stat[i] = "CANCELLED" -> {"pending", "running", "waiting", "failed"}

\* Types hold. "The frontend adds no state the backend lacks" (useNexus): a panel
\* of which nothing was missed shows, once what is on its way is heard, every
\* step as the engine has it and the mission's end when it has ended; and what
\* was missed, or came in the wrong order with the response or with the record,
\* never makes it show as done or skipped a step that is not.
PanelIsTrue ==
    LET heard == IF active THEN Rebuilt(panel, onWay) ELSE panel
    IN  /\ PanelTypes
        /\ post = "known" /\ ~missed =>
              /\ heard.known = (mission # "none")
              /\ heard.finished = MissionDone(mission)
              /\ DOMAIN heard.steps = Steps
              /\ \A i \in Steps : heard.steps[i] \in MayShow(i)
        /\ \A i \in DOMAIN panel.steps : panel.steps[i] \in {"done", "skipped"} => panel.steps[i] \in MayShow(i)
=============================================================================

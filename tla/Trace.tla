------------------------------- MODULE Trace -------------------------------
(***************************************************************************)
(* The execution trace: what the user is shown a request to have done,     *)
(* projected from the events of its record (backend/app/trace). The events *)
(* are those of a run, or of a mission whose steps are runs one after      *)
(* another, in the order in which the agent's nodes publish them.          *)
(*                                                                         *)
(* The broker's decisions are on no event. They are kept here beside the   *)
(* events, to compare what is shown with what happened.                    *)
(***************************************************************************)
EXTENDS Naturals, Sequences, SequencesExt, FiniteSets

CONSTANTS
    Tools,            \* the tools called
    LevelOf,          \* their classification
    MaxCalls,         \* bound: calls requested in a record
    MaxMissionSteps,  \* bound: steps of a mission
    MaxTraceItems,    \* MAX_TRACE_ITEMS
    Contexts,         \* what may have been gathered: sequences of [kind, active]
    Absent            \* Python's None

ASSUME TraceAssumption ==
    MaxCalls \in Nat /\ MaxTraceItems \in Nat /\ LevelOf \in [Tools -> {"SAFE", "CONFIRM", "RESTRICTED"}]

VARIABLES
    happened,   \* the record's events
    toCall,      \* calls of this round still to be made
    doing,       \* "agent", "tools", "asking", "approved", "running", "verifying", "ended"
    refusals,    \* tools refused in this run: never asked for again
    decided,     \* decided[i]: the answer to the prompt that is the i-th event
    mission,     \* the record is a mission's
    beforehand,  \* approved_tools
    given        \* the context gathered before the run

traceVars == <<happened, toCall, doing, refusals, decided, mission, beforehand, given>>

Entry(type, tool) == [type |-> type, tool |-> tool, success |-> TRUE, found |-> Absent]
Completed(tool, ok) == [Entry("tool_completed", tool) EXCEPT !.success = ok]
VerifiedAs(tool, verdict) == [Entry("verification_completed", tool) EXCEPT !.found = verdict]

Occurs(type) == \E i \in DOMAIN happened : happened[i].type = type
Begun(tool) == \E i \in DOMAIN happened : happened[i].type = "tool_started" /\ happened[i].tool = tool
Prompts == {i \in DOMAIN happened : happened[i].type = "permission_required"}

(***************************************************************************)
(* The projection (builder.build).                                         *)
(***************************************************************************)

\* variant: something ran after all
AnythingRan(tool) == IF Occurs("tool_started") THEN "ok"
                     ELSE IF Occurs("task_cancelled") THEN "skipped" ELSE "denied"

\* _permission_outcome: read off what became of the tool.
PermissionOutcome(tool) == IF Begun(tool) THEN "ok"
                           ELSE IF Occurs("task_cancelled") THEN "skipped" ELSE "denied"

Line(section, label, mark, tool) == [phase |-> section, label |-> label, mark |-> mark, tool |-> tool]

\* How many statements and unknowns a verdict carries.
StatementsOf(verdict) == IF verdict = "UNKNOWN" THEN 0 ELSE 1
UnknownsOf(verdict) == IF verdict = "FAILED" THEN 0 ELSE 1

\* The lines one event becomes.
Lines(e) ==
    CASE e.type = "tool_requested" -> <<Line("ACTION", "requested", "info", e.tool)>>
      [] e.type = "permission_required" ->
            LET mark == PermissionOutcome(e.tool)
            IN <<Line("APPROVAL", "required", IF mark = "skipped" THEN "waiting" ELSE mark, e.tool)>>
      [] e.type = "tool_started" -> <<Line("ACTION", "ran", "info", e.tool)>>
      [] e.type = "tool_completed" -> <<Line("ACTION", "returned", IF e.success THEN "ok" ELSE "failed", e.tool)>>
      [] e.type = "verification_started" -> <<Line("VERIFICATION", "checking", "info", e.tool)>>
      [] e.type = "verification_completed" ->
            [i \in 1..StatementsOf(e.found) |->
                Line("VERIFICATION", "evidence", IF e.found = "FAILED" THEN "failed" ELSE "ok", e.tool)]
            \o [i \in 1..UnknownsOf(e.found) |-> Line("VERIFICATION", "not established", "skipped", e.tool)]
            \o <<Line("OUTCOME", e.found, CASE e.found = "SUCCESS" -> "ok" [] e.found = "FAILED" -> "failed"
                                   [] OTHER -> "skipped", e.tool)>>
      [] e.type = "task_cancelled" -> <<Line("OUTCOME", "cancelled", "skipped", Absent)>>
      [] e.type = "task_error" -> <<Line("OUTCOME", "failed", "failed", Absent)>>
      [] e.type = "mission_cancelled" -> <<>>
      [] e.type \in {"mission_step_failed", "mission_failed"} -> <<Line("MISSION", e.type, "failed", Absent)>>
      [] e.type = "mission_step_skipped" -> <<Line("MISSION", e.type, "skipped", Absent)>>
      [] OTHER -> <<Line("MISSION", e.type, "ok", Absent)>>

\* A workspace reached the agent only if it was made the active one.
Provided(item) == item.kind = "workspace" => item.active

\* _context_items: at most six memories and three workspaces are listed.
ContextItems ==
    LET Kind(k) == SelectSeq(given, LAMBDA item : item.kind = k)
        First(n, s) == SubSeq(s, 1, IF Len(s) < n THEN Len(s) ELSE n)
    IN First(6, Kind("memory")) \o First(3, Kind("workspace"))
       \o Kind("processes") \o Kind("observations") \o Kind("machine")

AllLines ==
    (IF ContextItems = <<>> THEN <<>> ELSE <<Line("CONTEXT", "gathered", "info", Absent)>>)
    \o FlattenSeq([i \in DOMAIN happened |-> Lines(happened[i])])

Shown == SubSeq(AllLines, 1, IF Len(AllLines) < MaxTraceItems THEN Len(AllLines) ELSE MaxTraceItems)

\* The prompts counted as approved, or as denied.
Marked(mark) == {i \in Prompts : PermissionOutcome(happened[i].tool) = mark}

\* The last verification speaks for the request.
Outcome ==
    LET checks == {i \in DOMAIN happened : happened[i].type = "verification_completed"}
    IN IF checks = {} THEN Absent ELSE happened[Max(checks)].found

\* explain.summarise: the clauses of the one sentence.
Summary ==
    LET gathered == SelectSeq(ContextItems, LAMBDA item : Provided(item))
        did == IF Occurs("tool_started")
               THEN IF Marked("ok") # {} THEN {"ran after you approved it"} ELSE {"ran"}
               ELSE IF Marked("denied") # {} THEN {"stopped because you declined"} ELSE {}
    IN IF Occurs("task_cancelled") THEN {"cancelled"}
       ELSE IF did = {} /\ gathered = <<>> THEN {"answered without any tools"}
       ELSE did \cup (IF gathered = <<>> THEN {} ELSE {"gathered"})
                \cup (IF Outcome = Absent THEN {} ELSE {Outcome})

(***************************************************************************)
(* The events of a record.                                                 *)
(***************************************************************************)

Record(es) == happened' = happened \o es

\* The model asks for tools; each request is told before any is looked at.
AgentAsks(calls) ==
    /\ doing = "agent"
    /\ Cardinality({i \in DOMAIN happened : happened[i].type = "tool_requested"}) + Len(calls) <= MaxCalls
    /\ Record([i \in DOMAIN calls |-> Entry("tool_requested", calls[i])])
    /\ toCall' = calls
    /\ doing' = "tools"
    /\ UNCHANGED <<refusals, decided, mission, beforehand, given>>

MayRun(tool) == LevelOf[tool] = "SAFE" \/ (LevelOf[tool] = "CONFIRM" /\ tool \in beforehand)

\* A RESTRICTED tool, or one the user has refused in this run.
Refuse ==
    /\ doing = "tools" /\ toCall # <<>>
    /\ ~MayRun(Head(toCall))
    /\ LevelOf[Head(toCall)] = "RESTRICTED" \/ Head(toCall) \in refusals
    /\ Record(<<Completed(Head(toCall), FALSE)>>)
    /\ toCall' = Tail(toCall)
    /\ UNCHANGED <<doing, refusals, decided, mission, beforehand, given>>

AskUser ==
    /\ doing = "tools" /\ toCall # <<>>
    /\ ~MayRun(Head(toCall))
    /\ LevelOf[Head(toCall)] = "CONFIRM" /\ Head(toCall) \notin refusals
    /\ Record(<<Entry("permission_required", Head(toCall))>>)
    /\ doing' = "asking"
    /\ UNCHANGED <<toCall, refusals, decided, mission, beforehand, given>>

\* The prompt is the last event while it waits for its answer.
DecidedAs(answer) ==
    decided' = [i \in DOMAIN decided \cup {Len(happened)} |-> IF i = Len(happened) THEN answer ELSE decided[i]]

Approve ==
    /\ doing = "asking"
    /\ DecidedAs("approved")
    /\ doing' = "approved"
    /\ UNCHANGED <<happened, toCall, refusals, mission, beforehand, given>>

\* Declined, or nobody answered in time.
Decline ==
    /\ doing = "asking"
    /\ DecidedAs("refused")
    /\ refusals' = refusals \cup {Head(toCall)}
    /\ Record(<<Completed(Head(toCall), FALSE)>>)
    /\ toCall' = Tail(toCall)
    /\ doing' = "tools"
    /\ UNCHANGED <<mission, beforehand, given>>

StartTool ==
    /\ toCall # <<>>
    /\ doing = "approved" \/ (doing = "tools" /\ MayRun(Head(toCall)))
    /\ Record(<<Entry("tool_started", Head(toCall))>>)
    /\ doing' = "running"
    /\ UNCHANGED <<toCall, refusals, decided, mission, beforehand, given>>

\* It returns, with an error or not, or fails; what returned and changes
\* something is verified, if its contract says how.
ToolReturns(ok, verify) ==
    /\ doing = "running"
    /\ verify => LevelOf[Head(toCall)] # "SAFE"
    /\ Record(<<Completed(Head(toCall), ok)>>
               \o IF verify THEN <<Entry("verification_started", Head(toCall))>> ELSE <<>>)
    /\ IF verify THEN doing' = "verifying" /\ UNCHANGED toCall
       ELSE doing' = "tools" /\ toCall' = Tail(toCall)
    /\ UNCHANGED <<refusals, decided, mission, beforehand, given>>

\* A verification that raised tells nothing.
Verified(verdict) ==
    /\ doing = "verifying"
    /\ Record(IF verdict = Absent THEN <<>> ELSE <<VerifiedAs(Head(toCall), verdict)>>)
    /\ toCall' = Tail(toCall)
    /\ doing' = "tools"
    /\ UNCHANGED <<refusals, decided, mission, beforehand, given>>

RoundEnds ==
    /\ doing = "tools" /\ toCall = <<>>
    /\ doing' = "agent"
    /\ UNCHANGED <<happened, toCall, refusals, decided, mission, beforehand, given>>

\* A step of a mission is over: the next is a run of its own, without the
\* refusals of this one.
MissionStepEnds(how) ==
    /\ mission /\ doing = "agent"
    /\ Cardinality({i \in DOMAIN happened : happened[i].tool = Absent}) < MaxMissionSteps
    /\ Record(<<Entry(how, Absent)>>)
    /\ refusals' = {}
    /\ UNCHANGED <<toCall, doing, decided, mission, beforehand, given>>

\* The run ends by itself, or with an error.
RunEnds(ok) ==
    /\ doing = "agent"
    /\ doing' = "ended"
    /\ Record((IF mission THEN <<Entry(IF ok THEN "mission_completed" ELSE "mission_failed", Absent)>> ELSE <<>>)
               \o IF ok THEN <<>> ELSE <<Entry("task_error", Absent)>>)
    /\ UNCHANGED <<toCall, refusals, decided, mission, beforehand, given>>

CancelRun ==
    /\ doing # "ended"
    /\ doing' = "ended"
    /\ IF doing = "asking" THEN DecidedAs("cancelled") ELSE UNCHANGED decided
    /\ Record((IF mission THEN <<Entry("mission_cancelled", Absent)>> ELSE <<>>)
               \o <<Entry("task_cancelled", Absent)>>)
    /\ UNCHANGED <<toCall, refusals, mission, beforehand, given>>

NothingHappened ==
    /\ happened = <<>> /\ toCall = <<>> /\ decided = <<>>
    /\ doing = "agent"
    /\ refusals = {}

RecordKinds ==
    /\ mission \in BOOLEAN
    /\ beforehand \in {{}, Tools}
    /\ given \in Contexts

TraceInit == NothingHappened /\ RecordKinds

TraceNext ==
    \/ \E calls \in UNION {[1..n -> Tools] : n \in 1..MaxCalls} : AgentAsks(calls)
    \/ Refuse \/ AskUser \/ Approve \/ Decline \/ StartTool
    \/ \E ok \in BOOLEAN, verify \in BOOLEAN : ToolReturns(ok, verify)
    \/ \E verdict \in {"SUCCESS", "PARTIAL_SUCCESS", "FAILED", "UNKNOWN", Absent} : Verified(verdict)
    \/ RoundEnds \/ CancelRun
    \/ \E how \in {"mission_step_completed", "mission_step_failed", "mission_step_skipped"} : MissionStepEnds(how)
    \/ \E ok \in BOOLEAN : RunEnds(ok)

TraceSpec == TraceInit /\ [][TraceNext]_traceVars

(***************************************************************************)
(* Properties.                                                             *)
(***************************************************************************)

AnswersOn(tool) == {decided[i] : i \in {j \in DOMAIN decided : happened[j].tool = tool}}
FirstPrompt(i) == \A j \in Prompts : j < i => happened[j].tool # happened[i].tool
Cancelled == Occurs("task_cancelled")
Agreed == \E i \in DOMAIN decided : decided[i] = "approved"

\* No approval is shown that nobody gave, and none that was given and acted on
\* is shown refused: a prompt marked approved is for a tool approved in this
\* record; marked refused, for one that never was; and of a run that was not
\* cancelled, the first prompt for a tool says what the user answered.
ApprovalsAreTrue ==
    \A i \in Prompts :
        LET mark == PermissionOutcome(happened[i].tool) IN
        /\ mark = "ok" => "approved" \in AnswersOn(happened[i].tool)
        /\ mark = "denied" => AnswersOn(happened[i].tool) = {"refused"}
        /\ mark = "skipped" => Cancelled
        /\ (FirstPrompt(i) /\ ~mission /\ ~Cancelled) => (mark = "ok") = (decided[i] = "approved")

\* The sentence claims an approval only if there was one, and leaves none out;
\* a refusal only if nothing ran; a verdict only on something that ran.
SummaryIsTrue ==
    /\ "ran after you approved it" \in Summary => Agreed
    /\ (Agreed /\ ~Cancelled) => "ran after you approved it" \in Summary
    /\ "stopped because you declined" \in Summary => ~Agreed /\ \E i \in DOMAIN decided : decided[i] = "refused"
    /\ "answered without any tools" \in Summary => DOMAIN decided = {} /\ ~Occurs("tool_started")
    /\ Outcome # Absent => Occurs("tool_started")

\* However much is cut off, a tool that needs a confirmation is never shown to
\* have run unless the approval is shown before it.
ApprovalComesFirst ==
    \A i \in DOMAIN Shown :
        (Shown[i].label = "ran" /\ LevelOf[Shown[i].tool] = "CONFIRM" /\ beforehand = {}) =>
            \E j \in 1..(i - 1) : /\ Shown[j].phase = "APPROVAL"
                                   /\ Shown[j].tool = Shown[i].tool
                                   /\ Shown[j].mark = "ok"

\* What the trace of a record that has ended says of its approvals is true.
TraceIsTrue == doing = "ended" => ApprovalsAreTrue /\ SummaryIsTrue /\ ApprovalComesFirst

\* "a tool that started after being requested was approved; one that never
\* started was not" (builder.py:150-151): each prompt is shown as it was answered.
PromptsTellTheirAnswer ==
    (doing = "ended" /\ ~Cancelled) =>
        \A i \in Prompts : (PermissionOutcome(happened[i].tool) = "ok") = (decided[i] = "approved")
=============================================================================

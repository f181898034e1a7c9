---------------------------- MODULE Verification ----------------------------
(***************************************************************************)
(* What becomes of an action that returned: the plan built from the tool's *)
(* declared contract, the checks made through the registry while the       *)
(* machine goes on changing, the one wait for a service to settle, the     *)
(* verdict, and what is announced of it (backend/app/verification and      *)
(* AgentRunner._record_outcomes).                                          *)
(*                                                                         *)
(* A process, its port and an application are observed by one read-only    *)
(* call each; what is true when one of them answers may change before the  *)
(* next, or before the verdict.                                            *)
(***************************************************************************)
EXTENDS Naturals, Sequences, FiniteSets

CONSTANTS
    Budgets,  \* what max_tool_calls may be
    Unread    \* Python's None, for what a check was to find out

Strategies == {"process", "process_stopped", "local_service", "exit_code", "application"}
Checks == {"process_status", "check_local_service", "running_processes"}
MaxSettleRetries == 1

ASSUME BudgetsAssumption == Budgets \subseteq Nat
ASSUME UnreadAssumption ==
    Unread \notin {"alive", "dead", "answers", "silent", "found", "missing", "refused",
                   "SUCCESS", "PARTIAL_SUCCESS", "FAILED", "UNKNOWN", "ERROR"}

\* A completed action: the strategy its tool declares ("none" for no contract
\* or one that is not known), whether an id, a URL and a name are found where
\* the contract says, what the result says of its success, and its exit code.
Actions == [strategy : Strategies \cup {"none"}, subject : BOOLEAN, url : BOOLEAN,
            said : {"done", "failed", "nothing"}, code : {"zero", "other", "none"}]

\* What is there to be observed. A process that is dead may also be forgotten
\* by its manager.
Worlds == [proc : {"alive", "dead", "forgotten"}, port : BOOLEAN, app : BOOLEAN]

Verdicts == {"SUCCESS", "PARTIAL_SUCCESS", "FAILED", "UNKNOWN"}

VARIABLES
    act,       \* the action that is verified
    level,     \* level[c]: the registry's classification of check c, or "missing"
    budget,    \* max_tool_calls
    world,     \* the machine
    stage,     \* "returned", "checking", "settling", "judging", "judged", "told"
    todo,      \* checks of the plan that are still to be made
    gathered,  \* gathered[c]: what check c answered
    spent,     \* calls made
    retries,   \* times the service was asked again
    verdict,   \* the outcome, Unread before there is one
    announced, \* severity of the observation recorded, Unread for none
    been,      \* history: what has been true of the world since the action returned
    trouble    \* history: something kept a check from answering

verificationVars == <<act, level, budget, world, stage, todo, gathered, spent, retries, verdict,
                      announced, been, trouble>>

(***************************************************************************)
(* The plan.                                                               *)
(***************************************************************************)

\* planner.build: nothing can be checked without an id, a URL or a name. A URL
\* only matters for what should be up now, and only if it can be asked.
Plan ==
    IF ~act.subject THEN <<>> ELSE
    CASE act.strategy = "process" ->
            IF act.url /\ level["check_local_service"] # "missing"
            THEN <<"process_status", "check_local_service">> ELSE <<"process_status">>
      [] act.strategy = "process_stopped" -> <<"process_status">>
      [] act.strategy = "local_service" -> <<"check_local_service">>
      [] act.strategy = "application" /\ level["running_processes"] # "missing" -> <<"running_processes">>
      [] OTHER -> <<>>

(***************************************************************************)
(* The rules.                                                              *)
(***************************************************************************)

Alive == gathered["process_status"] = "alive"

\* variant: a process that cannot be looked up is taken to be gone
LostIsGone(status, service) ==
    IF status # "alive" THEN "FAILED"
    ELSE IF service = "answers" THEN "SUCCESS" ELSE "PARTIAL_SUCCESS"

\* rules.process_running
ProcessRunning(status, service) ==
    IF status \in {Unread, "refused"} THEN "UNKNOWN"
    ELSE IF status # "alive" THEN "FAILED"
    ELSE IF service = "answers" THEN "SUCCESS" ELSE "PARTIAL_SUCCESS"

\* rules.process_stopped
ProcessStopped(status) ==
    IF status \in {Unread, "refused"} THEN "UNKNOWN"
    ELSE IF status = "alive" THEN "FAILED" ELSE "SUCCESS"

\* rules.local_service
LocalService(service) ==
    IF service \in {Unread, "refused"} THEN "UNKNOWN"
    ELSE IF service = "answers" THEN "SUCCESS" ELSE "FAILED"

\* rules.exit_code
ExitCode ==
    IF act.said # "done" THEN "FAILED"
    ELSE IF act.code = "none" THEN "UNKNOWN"
    ELSE IF act.code = "zero" THEN "SUCCESS" ELSE "FAILED"

\* rules.application: absence proves nothing.
Application(found) == IF found = "found" THEN "SUCCESS" ELSE "UNKNOWN"

Rule ==
    CASE act.strategy = "process" ->
            ProcessRunning(gathered["process_status"], gathered["check_local_service"])
      [] act.strategy = "process_stopped" -> ProcessStopped(gathered["process_status"])
      [] act.strategy = "local_service" -> LocalService(gathered["check_local_service"])
      [] act.strategy = "application" -> Application(gathered["running_processes"])

(***************************************************************************)
(* The verifier.                                                           *)
(***************************************************************************)

Judged(v) ==
    /\ verdict' = v
    /\ stage' = "judged"

\* Its own result says that the action failed: no call is needed.
SelfReported ==
    /\ stage = "returned"
    /\ act.said = "failed"
    /\ Judged("FAILED")
    /\ UNCHANGED <<act, level, budget, world, todo, gathered, spent, retries, announced, been, trouble>>

\* The plan is made before anything runs.
MakePlan ==
    /\ stage = "returned"
    /\ act.said # "failed"
    /\ todo' = Plan
    /\ IF act.strategy = "exit_code" THEN Judged(ExitCode)
       ELSE IF Plan = <<>> THEN Judged("UNKNOWN")
       ELSE stage' = "checking" /\ UNCHANGED verdict
    /\ trouble' = (Plan = <<>> /\ act.strategy # "exit_code")
    /\ UNCHANGED <<act, level, budget, world, gathered, spent, retries, announced, been>>

\* What check c answers now; a tool can also refuse the question.
Answers(c) ==
    CASE c = "process_status" -> {IF world.proc = "forgotten" THEN "refused" ELSE world.proc}
      [] c = "check_local_service" -> {IF world.port THEN "answers" ELSE "silent", "refused"}
      [] c = "running_processes" -> {IF world.app THEN "found" ELSE "missing", "refused"}

\* _call_safe: only a SAFE tool is called, and only within the budget; a call
\* that fails is no answer.
CallSafe(c, answer) ==
    IF level[c] = "SAFE" /\ spent < budget
    THEN spent' = spent + 1 /\ answer \in Answers(c) \cup {Unread}
    ELSE answer = Unread /\ UNCHANGED spent

Trouble(answer) == trouble' = (trouble \/ answer \in {Unread, "refused"})

\* One check of the plan.
Check(answer) ==
    /\ stage = "checking"
    /\ todo # <<>>
    /\ CallSafe(Head(todo), answer)
    /\ gathered' = [gathered EXCEPT ![Head(todo)] = answer]
    /\ todo' = Tail(todo)
    /\ stage' = IF todo' = <<>> THEN "settling" ELSE "checking"
    /\ Trouble(answer)
    /\ UNCHANGED <<act, level, budget, world, retries, verdict, announced, been>>

\* A live process whose port was asked and did not answer gets one more chance.
MaySettle ==
    /\ act.strategy = "process"
    /\ Alive
    /\ gathered["check_local_service"] \notin {Unread, "answers"}
    /\ retries < MaxSettleRetries

\* After SETTLE_SECONDS, ask again; no answer leaves the old one.
Settle(answer) ==
    /\ stage = "settling"
    /\ MaySettle
    /\ CallSafe("check_local_service", answer)
    /\ gathered' = IF answer = Unread THEN gathered
                   ELSE [gathered EXCEPT !["check_local_service"] = answer]
    /\ retries' = retries + 1
    /\ stage' = "judging"
    /\ Trouble(answer)
    /\ UNCHANGED <<act, level, budget, world, todo, verdict, announced, been>>

Judge ==
    /\ \/ stage = "settling" /\ ~MaySettle
       \/ stage = "judging"
    /\ Judged(Rule)
    /\ UNCHANGED <<act, level, budget, world, todo, gathered, spent, retries, announced, been, trouble>>

\* A call or the wait to settle is under way.
Awaiting == stage = "checking" \/ (stage = "settling" /\ MaySettle)

\* asyncio.timeout around the whole of it: what was found out is given up.
VerificationTimesOut ==
    /\ Awaiting
    /\ Judged("UNKNOWN")
    /\ trouble' = TRUE
    /\ UNCHANGED <<act, level, budget, world, todo, gathered, spent, retries, announced, been>>

\* to_observation: UNKNOWN is not recorded, SUCCESS only of a started process.
Severity ==
    CASE verdict = "FAILED" -> "ERROR"
      [] verdict = "PARTIAL_SUCCESS" -> "NOTICE"
      [] verdict = "SUCCESS" /\ act.strategy = "process" -> "INFO"
      [] OTHER -> Unread

\* The run ends and its outcomes are recorded.
RecordOutcome ==
    /\ stage = "judged"
    /\ stage' = "told"
    /\ announced' = Severity
    /\ UNCHANGED <<act, level, budget, world, todo, gathered, spent, retries, verdict, been, trouble>>

(***************************************************************************)
(* The machine, which does not wait. Only what the checks of this action   *)
(* look at is followed.                                                    *)
(***************************************************************************)

TrueOf(w) ==
    {IF w.proc = "alive" THEN "alive" ELSE "not alive",
     IF w.port THEN "answering" ELSE "silent",
     IF w.app THEN "app is up" ELSE "app is down"}

ProcessStrategies == {"process", "process_stopped"}
ServiceStrategies == {"process", "local_service"}

\* The process dies or is forgotten, a port opens or closes (whoever holds it),
\* an application starts or quits.
WorldMoves(w) ==
    /\ Awaiting
    /\ \/ act.strategy \in ProcessStrategies
          /\ w = [world EXCEPT !.proc = IF @ = "alive" THEN "dead" ELSE "forgotten"]
       \/ act.strategy \in ServiceStrategies /\ w = [world EXCEPT !.port = ~@]
       \/ act.strategy = "application" /\ w = [world EXCEPT !.app = ~@]
    /\ world' = w
    /\ been' = been \cup TrueOf(w)
    /\ UNCHANGED <<act, level, budget, stage, todo, gathered, spent, retries, verdict, announced, trouble>>

(***************************************************************************)
(* The specification.                                                      *)
(***************************************************************************)

\* What is irrelevant to a strategy has one value.
Matters ==
    /\ act.strategy # "process" => act.url
    /\ act.strategy # "exit_code" => act.code = "none"
    /\ act.strategy \notin ProcessStrategies => level["process_status"] = "SAFE" /\ world.proc = "alive"
    /\ act.strategy \notin ServiceStrategies => level["check_local_service"] = "SAFE" /\ world.port
    /\ act.strategy # "application" => level["running_processes"] = "SAFE" /\ world.app

ToVerify ==
    /\ act \in Actions
    /\ level \in [Checks -> {"SAFE", "CONFIRM", "missing"}]
    /\ budget \in Budgets
    /\ world \in Worlds
    /\ Matters
    /\ been = TrueOf(world)

NothingDone ==
    /\ stage = "returned"
    /\ todo = <<>>
    /\ gathered = [c \in Checks |-> Unread]
    /\ spent = 0 /\ retries = 0
    /\ verdict = Unread /\ announced = Unread
    /\ trouble = FALSE

VerificationInit == ToVerify /\ NothingDone

Answer == {"alive", "dead", "answers", "silent", "found", "missing", "refused", Unread}

VerificationNext ==
    \/ SelfReported \/ MakePlan \/ Judge \/ VerificationTimesOut \/ RecordOutcome
    \/ \E answer \in Answer : Check(answer) \/ Settle(answer)
    \/ \E w \in Worlds : WorldMoves(w)

VerificationSpec == VerificationInit /\ [][VerificationNext]_verificationVars

(***************************************************************************)
(* Properties.                                                             *)
(***************************************************************************)

\* What the goal of each strategy asks of the world, and what speaks against it.
Needs == [process |-> {"alive", "answering"}, process_stopped |-> {"not alive"},
          local_service |-> {"answering"}, application |-> {"app is up"},
          exit_code |-> {}, none |-> {"undefined"}]
Against == [process |-> {"not alive"}, process_stopped |-> {"alive"},
            local_service |-> {"silent"}, application |-> {}, exit_code |-> {}, none |-> {}]

\* A success was true: all that the goal asks of the world has been so at some
\* moment since the action returned.
SuccessWasTrue ==
    verdict = "SUCCESS" =>
        /\ act.said # "failed"
        /\ Needs[act.strategy] \subseteq been
        /\ act.strategy = "exit_code" => act.said = "done" /\ act.code = "zero"

\* A failure was true too, and nothing else raises an ERROR: the tool said so
\* itself, or something was seen that the goal excludes. A check that could not
\* be made is never a failure.
FailureWasTrue ==
    verdict = "FAILED" \/ announced = "ERROR" =>
        \/ act.said = "failed"
        \/ act.strategy = "exit_code" /\ (act.said # "done" \/ act.code = "other")
        \/ Against[act.strategy] \cap been # {}

\* The verdict is honest whatever happens between the checks, to the checks and
\* to the machine: success and failure were true, part of a success was, and
\* only something in the way, or the absence of an application, is UNKNOWN.
VerdictIsHonest ==
    /\ SuccessWasTrue
    /\ FailureWasTrue
    /\ verdict = "PARTIAL_SUCCESS" => "alive" \in been
    /\ verdict = "UNKNOWN" => \/ trouble \/ act.strategy = "application"
                              \/ act.strategy = "exit_code" /\ act.code = "none"
=============================================================================

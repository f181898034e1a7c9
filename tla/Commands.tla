------------------------------ MODULE Commands ------------------------------
(***************************************************************************)
(* run_command (nexus_mac_mcp/tools/commands.py): one request, the checks  *)
(* it passes, and the process it becomes. The leader is the child that the *)
(* server spawned, in a group of its own; the leader may leave a process   *)
(* in that group that holds the pipes it was given. What is "stubborn"     *)
(* ignores SIGTERM; nothing survives SIGKILL for its grace period.         *)
(***************************************************************************)
EXTENDS CommandPolicy

CONSTANT CommandRequests \* the requests the model may make

Answers == {"rejected", "unsupported", "unavailable", "failed", "completed", "timeout"}

\* CommandRequest: a name and a tuple of tokens.
ASSUME RequestsAssumption ==
    /\ CommandRequests \subseteq
          [executable : STRING, args : Seq(STRING), clean : BOOLEAN, byPath : BOOLEAN]
    /\ Nil \notin Answers

VARIABLES
    request,  \* [executable, args, clean, byPath]
    stage,    \* where run_command is
    answer,   \* the status it answers with, Nil before
    running,  \* the leader: none, alive or stubborn, or how it ended: zero, nonzero
    leftover  \* the other process of its group: none, alive, stubborn

groupVars == <<running, leftover>>
commandVars == <<request, stage, answer, groupVars>>

StillRuns == {"alive", "stubborn"}
HasExited == {"zero", "nonzero"}

\* The write end of the pipes is held, so the reader threads are reading.
PipesHeld == running \in StillRuns \/ leftover \in StillRuns

CommandInit ==
    /\ request \in CommandRequests
    /\ stage = "asked" /\ answer = Nil /\ running = "none" /\ leftover = "none"

Say(status) == stage' = "answered" /\ answer' = status /\ UNCHANGED <<request, groupVars>>
Proceed(where) == stage' = where /\ UNCHANGED <<request, answer, groupVars>>

(***************************************************************************)
(* run_command: the checks.                                                *)
(***************************************************************************)

\* The policy refuses the text, or the working directory is not allowed.
Reject ==
    /\ stage = "asked" /\ ~Validated(request)
    /\ Say("rejected")
RejectDirectory ==
    /\ stage = "asked" /\ Validated(request)
    /\ Say("rejected")

\* A server is start_process's job.
SendAway ==
    /\ stage = "asked" /\ Validated(request) /\ FormOf(request).longRunning
    /\ Say("unsupported")

\* The executable is not on the controlled path, or cannot be spawned.
NotSpawned ==
    /\ stage = "asked" /\ Validated(request) /\ ~FormOf(request).longRunning
    /\ Say("unavailable") \/ Say("failed")

SpawnCommand ==
    /\ stage = "asked" /\ Validated(request) /\ ~FormOf(request).longRunning
    /\ stage' = "waiting"
    /\ running' \in StillRuns
    /\ UNCHANGED <<request, answer, leftover>>

(***************************************************************************)
(* _execute: the wait, and what follows it.                                *)
(***************************************************************************)

CommandFinished == stage = "waiting" /\ running \in HasExited /\ Proceed("joining")

\* process.wait gives up; the leader may still end before it is signalled.
TimesOut == stage = "waiting" /\ running \in StillRuns /\ Proceed("expired")

\* _terminate: SIGTERM to the group, if the group can still be looked up.
Terminate ==
    /\ stage = "expired" /\ stage' = "terminating"
    /\ running' = IF running = "alive" THEN "nonzero" ELSE running
    /\ leftover' = IF leftover = "alive" THEN "none" ELSE leftover
    /\ UNCHANGED <<request, answer>>
NothingToTerminate == stage = "expired" /\ running \in HasExited /\ Proceed("joining late")

\* The leader is waited for, not the group.
LeaderWent == stage = "terminating" /\ running \in HasExited /\ Proceed("joining late")

\* Past the grace period, SIGKILL.
KillGroup ==
    /\ stage = "terminating" /\ running \in StillRuns /\ stage' = "joining late"
    /\ running' = "nonzero" /\ leftover' = "none"
    /\ UNCHANGED <<request, answer>>

\* The readers are joined, for their grace period each: they have ended or not.
Join ==
    \/ stage = "joining" /\ Proceed("closing")
    \/ stage = "joining late" /\ Proceed("closing late")

\* A buffered pipe is closed under the lock that a read in progress holds.
ClosePipes ==
    /\ ~PipesHeld
    /\ \/ stage = "closing" /\ Say(IF running = "zero" THEN "completed" ELSE "failed")
       \/ stage = "closing late" /\ Say("timeout")

(***************************************************************************)
(* What the processes do, at any time.                                     *)
(***************************************************************************)

LeaderEnds ==
    /\ running \in StillRuns
    /\ running' \in HasExited
    /\ UNCHANGED <<request, stage, answer, leftover>>

\* The leader spawns another, which may go on for ever.
LeaderForks ==
    /\ running \in StillRuns /\ leftover = "none"
    /\ leftover' \in StillRuns
    /\ UNCHANGED <<request, stage, answer, running>>

\* It ends, or lets go of the pipes.
LeftoverEnds ==
    /\ leftover \in StillRuns
    /\ leftover' = "none"
    /\ UNCHANGED <<request, stage, answer, running>>

RunCommand ==
    \/ Reject \/ RejectDirectory \/ SendAway \/ NotSpawned \/ SpawnCommand
    \/ CommandFinished \/ TimesOut \/ Terminate \/ NothingToTerminate \/ LeaderWent \/ KillGroup
    \/ Join \/ ClosePipes

CommandNext == RunCommand \/ LeaderEnds \/ LeaderForks \/ LeftoverEnds

\* The server's thread goes on; what it runs need not.
CommandSpec == CommandInit /\ [][CommandNext]_commandVars /\ WF_commandVars(RunCommand)

(***************************************************************************)
(* Properties.                                                             *)
(***************************************************************************)

CommandTypes ==
    /\ request \in CommandRequests
    /\ stage \in {"asked", "waiting", "expired", "terminating", "joining", "joining late",
                  "closing", "closing late", "answered"}
    /\ answer \in {Nil} \cup Answers
    /\ running \in {"none"} \cup StillRuns \cup HasExited
    /\ leftover \in {"none"} \cup StillRuns

\* Whatever the model asks for, the policy is right about it (PolicyIsRight);
\* what it refuses is never spawned, a server is sent to start_process, which
\* takes it; and an answer about a process comes after its end: nothing is
\* reported finished or timed out that still runs, at 120 s or at the kill.
CommandsAreRight ==
    /\ PolicyIsRight(request)
    /\ running # "none" => SpelledOut(request) /\ ~Supervised(request)
    /\ answer = "unsupported" => Supervised(request)
    /\ answer \in {"completed", "timeout"} => running \in HasExited
    /\ answer = "completed" => running = "zero"

\* tools/commands.py: "**Bounded time**, with SIGTERM before SIGKILL." A call
\* that has spawned its process is answered, whatever that process does.
CommandsAreBounded == stage = "waiting" ~> stage = "answered"
=============================================================================

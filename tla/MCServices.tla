----------------------------- MODULE MCServices -----------------------------
(***************************************************************************)
(* Instance, for TLC, of the services that are asked for something and owe *)
(* an answer: the engine that runs a mission, and what lives at the MCP    *)
(* boundary, the processes of the Mac server, the commands it is asked to  *)
(* run, and the sessions the backend reaches it through. The four share no *)
(* state, so interleaving them would add no behaviour of any: a run of TLC *)
(* explores each in turn.                                                  *)
(***************************************************************************)
EXTENDS ProcessManager, ToolCatalog, Commands, Mission, TLC

VARIABLE part \* the one that moves

ServiceVars == <<vars, catalogVars, commandVars, missionVars, part>>

NoCommand == [executable |-> "rm", args |-> <<>>, clean |-> TRUE, byPath |-> FALSE]

ServiceInit ==
    /\ part \in {"processes", "sessions", "commands", "mission"}
    /\ Init /\ CatalogInit /\ CommandInit /\ MissionInit
    /\ part = "commands" \/ request = NoCommand
    /\ part = "mission" \/ sessions = "own"

ServiceNext ==
    \/ part = "processes" /\ Next /\ UNCHANGED <<catalogVars, commandVars, missionVars, part>>
    \/ part = "sessions" /\ CatalogNext /\ UNCHANGED <<vars, commandVars, missionVars, part>>
    \/ part = "commands" /\ CommandNext /\ UNCHANGED <<vars, catalogVars, missionVars, part>>
    \/ part = "mission" /\ MissionNext /\ UNCHANGED <<vars, catalogVars, commandVars, part>>

\* Each part's own fairness, asked of the part that moves.
Moves(name, A) == part = name /\ A
ServiceFairness ==
    /\ \A t \in Threads : WF_vars(Moves("processes", Serve(t)))
    /\ \A r \in Runs :
        /\ WF_catalogVars(Moves("sessions", Proceeds(r)))
        /\ WF_catalogVars(Moves("sessions", IsAnswered(r)))
    /\ WF_missionVars(Moves("mission", Loop))
    /\ WF_missionVars(Moves("mission", InStep))
    /\ WF_missionVars(Moves("mission", Expires))

ServiceSpec == ServiceInit /\ [][ServiceNext]_ServiceVars /\ ServiceFairness

\* The commands alone, with a thread that goes on.
HangingSpec ==
    /\ ServiceInit /\ part = "commands" /\ [][ServiceNext]_ServiceVars
    /\ WF_commandVars(RunCommand)

\* What is asked of a service comes to an end: a call to the process manager,
\* however stubborn the process it has to stop, and a run's wait for its registry,
\* whatever befell the run before it (stop, _refresh).
AnswersCome == CallsReturn /\ RefreshEnds

\* Two runs, two servers that both list one tool, with different levels.
CONSTANTS r1, r2, s1, s2, tool1, tool2, tool3

MCServers == <<s1, s2>>
MCDeclared ==
    s1 :> (tool1 :> "CONFIRM" @@ tool2 :> "undeclared" @@ tool3 :> "absent") @@
    s2 :> (tool1 :> "SAFE" @@ tool2 :> "absent" @@ tool3 :> "SAFE")
MCBaseline == tool1 :> "RESTRICTED" @@ tool2 :> "RESTRICTED" @@ tool3 :> "SAFE"

(***************************************************************************)
(* Commands: every short line over the words a form is made of, and the    *)
(* longer lines that start a server.                                       *)
(***************************************************************************)

MCDashed == PolicyFlags \cup {"--force"}
MCInsidePaths == {"run", "python", "uvicorn", "build", "start", "push", "app.py",
                  "pytest", "app:main", "8000", "80", "localhost", "json.tool"}
MCAsgiTargets == {"app:main"}
MCPortNumbers == {"8000", "9000"}
MCLocalHosts == {"localhost", "127.0.0.1"}
MCBlockedNames == {"rm", "pip"}

Words == {"run", "-m", "-c", "--version", "-q", "pytest", "build", "start", "push", "../app.py"}
ServerWords == {"app:main", "app.py", "--host", "--port", "--reload", "localhost", "0.0.0.0", "8000", "80"}

Lines(words, n) == UNION {[1..k -> words] : k \in 0..n}
Line(executable, args) == [executable |-> executable, args |-> args, clean |-> TRUE, byPath |-> FALSE]

MCCommandRequests ==
    {Line(e, args) : e \in (DOMAIN Profiles \cup {"rm", "npx"}) \ {"git", "python3"}, args \in Lines(Words, 2)}
    \cup {Line("python3", args) : args \in Lines(Words, 1)}
    \cup {Line("git", args) : args \in Lines({"status", "log", "diff", "--stat", "-n5", "push"}, 2)}
    \cup {Line("uv", <<"run", "python">> \o args) : args \in Lines({"-m", "json.tool", "app.py", "-q"}, 2)}
    \cup {Line("python", <<"-m">> \o args) : args \in Lines({"json.tool", "app.py", "-q"}, 2)}
    \cup {Line("uvicorn", args) : args \in Lines(ServerWords, 2)}
    \cup {Line("uvicorn", <<"app:main">> \o args) : args \in Lines(ServerWords, 3)}
    \cup {Line("uvicorn", <<"app:main", "--host", "localhost">> \o args) : args \in Lines(ServerWords, 3)}
    \cup {Line("uv", <<"run", "uvicorn">> \o args) : args \in Lines(ServerWords, 2)}
    \cup {Line("uv", <<"run", "uvicorn", "app:main", "--reload">> \o args) : args \in Lines(ServerWords, 2)}
    \cup {[Line("pytest", <<"app.py">>) EXCEPT !.clean = c, !.byPath = ~c] : c \in BOOLEAN}

(***************************************************************************)
(* A mission: valid plans with every run_if condition, and one plan for    *)
(* each way of being rejected.                                             *)
(***************************************************************************)

MCPermission == "look" :> "SAFE" @@ "start" :> "CONFIRM" @@ "trusted" :> "CONFIRM" @@ "wipe" :> "RESTRICTED"
MCApproved == {"trusted"}

S(id, tool, deps, runIf) == [id |-> id, tool |-> tool, deps |-> deps, runIf |-> runIf]

Recovery == <<S("a", "start", {}, "always"), S("b", "look", {"a"}, "on_failure"),
              S("c", "trusted", {"a", "b"}, "on_success")>>
OutOfOrder == <<S("a", "look", {"b"}, "on_success"), S("b", "start", {}, "always"),
                S("c", "trusted", {"a", "b"}, "always")>>
Apart  == <<S("a", "start", {}, "always"), S("b", "look", {}, "always")>>
Loop3  == <<S("a", "look", {"c"}, "always"), S("b", "look", {"a"}, "always"), S("c", "look", {"b"}, "always")>>
Twice  == <<S("a", "look", {}, "always"), S("a", "start", {}, "always")>>
Self   == <<S("a", "look", {"a"}, "always")>>
Astray == <<S("a", "look", {"z"}, "always")>>
Banned == <<S("a", "wipe", {}, "always")>>
Unknown == <<S("a", "nonesuch", {}, "always")>>
TooLong == Append(Recovery, S("d", "look", {}, "always"))

MCRawPlans == {<<>>, Recovery, OutOfOrder, Apart, Loop3, Twice, Self, Astray, Banned, Unknown, TooLong}
=============================================================================

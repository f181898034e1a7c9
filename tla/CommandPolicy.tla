--------------------------- MODULE CommandPolicy ----------------------------
(***************************************************************************)
(* Which commands may run at all (core/commands.py), and which of them     *)
(* only as a supervised process (core/process_policy.py). A command is its *)
(* executable and its arguments; what the regular expressions and path     *)
(* checks say of an argument is given by the sets it belongs to.           *)
(***************************************************************************)
EXTENDS Integers, Sequences

CONSTANTS
    Dashed,        \* arguments that start with "-"
    InsidePaths,   \* those that name a path inside the working directory
    AsgiTargets,   \* those of the form module:app
    PortNumbers,   \* those that are a port from MIN_PORT to MAX_PORT
    LocalHosts,    \* LOCAL_HOSTS
    BlockedNames,  \* BLOCKED_EXECUTABLES
    MaxArguments,  \* MAX_ARGUMENTS
    Nil            \* Python's None

PolicyFlags == {"-m", "-c", "-e", "--eval", "--version", "--reload", "--stat", "--host", "--port",
                "-q", "-v", "-vv", "-x", "--no-header", "--tb=short", "--oneline", "-n5", "-n10", "-n20"}

\* Paths, targets, ports and hosts have no dash in front (_is_safe_relative_path,
\* _ASGI_TARGET, isdigit, LOCAL_HOSTS); DEFAULT_HOST and UVICORN_DEFAULT_PORT pass.
ASSUME PolicyAssumption ==
    /\ PolicyFlags \subseteq Dashed
    /\ Dashed \cap (InsidePaths \cup AsgiTargets \cup PortNumbers \cup LocalHosts) = {}
    /\ "127.0.0.1" \in LocalHosts /\ "8000" \in PortNumbers
    /\ MaxArguments \in Nat

(***************************************************************************)
(* The profiles.                                                           *)
(***************************************************************************)

ApprovedModules == {"pytest", "unittest", "compileall", "json.tool"}
PytestFlags == {"-q", "-v", "-vv", "-x", "--no-header", "--tb=short"}
LogFlags == {"--oneline", "-n5", "-n10", "-n20", "--stat"}

Form(prefix) == [prefix |-> prefix, leading |-> Nil, trailing |-> "none", flags |-> {},
                 options |-> {}, longRunning |-> FALSE]
PathsForm(prefix, flags) == [Form(prefix) EXCEPT !.trailing = "paths", !.flags = flags]
ModuleForm(prefix) == [Form(prefix) EXCEPT !.trailing = "module"]
LongForm(prefix) == [Form(prefix) EXCEPT !.longRunning = TRUE]
AsgiForm(prefix) == [LongForm(prefix) EXCEPT !.leading = "asgi", !.flags = {"--reload"},
                                             !.options = {"--host", "--port"}]

PythonForms == <<ModuleForm(<<"-m">>), Form(<<"--version">>), PathsForm(<<>>, {})>>

Profiles == [
    pytest  |-> <<PathsForm(<<>>, PytestFlags)>>,
    uv      |-> <<PathsForm(<<"run", "pytest">>, PytestFlags), ModuleForm(<<"run", "python", "-m">>),
                  AsgiForm(<<"run", "uvicorn">>), PathsForm(<<"run", "python">>, {}), Form(<<"--version">>)>>,
    npm     |-> <<LongForm(<<"run", "dev">>), LongForm(<<"run", "start">>), LongForm(<<"start">>),
                  Form(<<"run", "build">>), Form(<<"run", "test">>), Form(<<"run", "lint">>),
                  Form(<<"test">>), Form(<<"--version">>)>>,
    node    |-> <<Form(<<"--version">>), PathsForm(<<>>, {})>>,
    python  |-> PythonForms,
    python3 |-> PythonForms,
    uvicorn |-> <<AsgiForm(<<>>)>>,
    git     |-> <<Form(<<"status">>), Form(<<"branch">>), [Form(<<"log">>) EXCEPT !.flags = LogFlags],
                  Form(<<"diff", "--stat">>), Form(<<"--version">>)>>]

\* BLOCKED_EXECUTABLES has no name of PROFILES.
ASSUME BlocklistAssumption == BlockedNames \cap DOMAIN Profiles = {}

BlockedCombinations ==
    ({"git"} \X {"push", "reset", "clean", "checkout", "commit", "merge", "rebase", "rm", "add", "config",
                 "remote", "fetch", "pull", "tag", "stash"})
    \cup ({"npm"} \X {"publish", "install", "uninstall", "audit", "update", "link", "exec"})
    \cup ({"uv"} \X {"add", "remove", "pip", "publish", "sync", "tool", "self"})
    \cup {<<"python", "-c">>, <<"python3", "-c">>, <<"node", "-e">>, <<"node", "--eval">>}

(***************************************************************************)
(* Matching a form.                                                        *)
(***************************************************************************)

\* variant: the value of an option is accepted as it comes
AnyValue(option, value) == value \notin Dashed

\* OPTION_VALIDATORS
ValidOption(option, value) == IF option = "--port" THEN value \in PortNumbers ELSE value \in LocalHosts

StartsWith(args, prefix) == Len(args) >= Len(prefix) /\ SubSeq(args, 1, Len(prefix)) = prefix
After(args, n) == SubSeq(args, n + 1, Len(args))

\* The loop over what follows the prefix: fits[i] is what it says from the i-th
\* argument on. An option takes the next argument with it, whatever that is.
Walk(form, rest) ==
    LET fits[i \in 1..(Len(rest) + 1)] ==
            IF i > Len(rest) THEN TRUE
            ELSE IF rest[i] \in form.options
                 THEN i < Len(rest) /\ ValidOption(rest[i], rest[i + 1]) /\ fits[i + 2]
            ELSE IF rest[i] \in Dashed THEN rest[i] \in form.flags /\ fits[i + 1]
            ELSE form.trailing = "paths" /\ rest[i] \in InsidePaths /\ fits[i + 1]
    IN  fits[1]

\* _matches
Matches(form, args) ==
    LET rest == After(args, Len(form.prefix))
        tail == IF form.leading = Nil THEN rest ELSE Tail(rest)
    IN  /\ StartsWith(args, form.prefix)
        /\ form.leading # Nil => rest # <<>> /\ rest[1] \in AsgiTargets
        /\ IF form.trailing = "module" THEN Len(tail) = 1 /\ tail[1] \in ApprovedModules
           ELSE Walk(form, tail)

(***************************************************************************)
(* The policy.                                                             *)
(***************************************************************************)

\* parse_command: the text is printable and short, and a name comes first.
Parses(request) == request.clean /\ ~request.byPath /\ Len(request.args) <= MaxArguments

\* _check_blocklist: combinations have one argument.
Blocklisted(request) ==
    \/ request.executable \in BlockedNames
    \/ request.args # <<>> /\ <<request.executable, request.args[1]>> \in BlockedCombinations

FormsOf(request) == IF request.executable \in DOMAIN Profiles THEN Profiles[request.executable] ELSE <<>>
Matching(request) == {i \in DOMAIN FormsOf(request) : Matches(FormsOf(request)[i], request.args)}

\* validate_command_text: the first form that matches.
Validated(request) == Parses(request) /\ ~Blocklisted(request) /\ Matching(request) # {}
FormOf(request) == FormsOf(request)[CHOOSE i \in Matching(request) : \A j \in Matching(request) : i <= j]

\* process_policy: who may be supervised, in order, with a default port.
ProcessProfiles == <<
    [executable |-> "npm", prefix |-> <<"run", "dev">>, port |-> Nil],
    [executable |-> "npm", prefix |-> <<"start">>, port |-> Nil],
    [executable |-> "npm", prefix |-> <<"run", "start">>, port |-> Nil],
    [executable |-> "uvicorn", prefix |-> <<>>, port |-> "8000"],
    [executable |-> "uv", prefix |-> <<"run", "uvicorn">>, port |-> "8000"]>>

Supervises(i, request) ==
    /\ ProcessProfiles[i].executable = request.executable
    /\ StartsWith(request.args, ProcessProfiles[i].prefix)
Supervisors(request) == {i \in DOMAIN ProcessProfiles : Supervises(i, request)}
Supervised(request) == Validated(request) /\ Supervisors(request) # {}

\* option_value: the first that has a value.
OptionValue(args, option, default) ==
    LET given == {i \in 1..(Len(args) - 1) : args[i] = option}
    IN  IF given = {} THEN default ELSE args[1 + CHOOSE i \in given : \A j \in given : i <= j]

\* _network_details
HostOf(request) == OptionValue(request.args, "--host", "127.0.0.1")
PortOf(request) ==
    OptionValue(request.args, "--port",
        ProcessProfiles[CHOOSE i \in Supervisors(request) : \A j \in Supervisors(request) : i <= j].port)

(***************************************************************************)
(* Properties of the policy, for one request.                              *)
(***************************************************************************)

\* Some of the arguments from a place on are options that take the next as their
\* value, and the others are flags or paths.
Spells(form, args, first, taking) ==
    LET taken == {i + 1 : i \in taking} IN
    /\ taken \subseteq first..Len(args) /\ taking \cap taken = {}
    /\ \A i \in taking : \/ args[i] = "--port" /\ args[i + 1] \in PortNumbers
                         \/ args[i] # "--port" /\ args[i + 1] \in LocalHosts
    /\ \A i \in (first..Len(args)) \ (taking \cup taken) :
            args[i] \in form.flags \/ (form.trailing = "paths" /\ args[i] \in InsidePaths)
SpelledFrom(form, args, first) ==
    \E taking \in SUBSET {i \in first..Len(args) : args[i] \in form.options} :
        Spells(form, args, first, taking)

\* The grammar of a form, said without the loop.
InGrammar(form, args) ==
    LET skipped == Len(form.prefix) + (IF form.leading = Nil THEN 0 ELSE 1)
    IN  /\ Len(args) >= skipped
        /\ \A i \in DOMAIN form.prefix : args[i] = form.prefix[i]
        /\ form.leading # Nil => args[skipped] \in AsgiTargets
        /\ IF form.trailing = "module" THEN Len(args) = skipped + 1 /\ args[skipped + 1] \in ApprovedModules
           ELSE SpelledFrom(form, args, skipped + 1)

\* A request is let through just when some form of its executable spells it.
SpelledOut(request) == \E i \in DOMAIN FormsOf(request) : InGrammar(FormsOf(request)[i], request.args)

\* The layers agree: the blocklist never saves the profiles, and what passes is
\* spelled out; every command has one door, to run_command if it finishes and to
\* start_process if it does not; and what is supervised is bound to this machine.
PolicyIsRight(request) ==
    /\ Validated(request) = (Parses(request) /\ SpelledOut(request))
    /\ Blocklisted(request) => Matching(request) = {}
    /\ Validated(request) => (FormOf(request).longRunning = Supervised(request))
    /\ Supervised(request) => /\ HostOf(request) \in LocalHosts
                              /\ PortOf(request) \in PortNumbers \cup {Nil}
=============================================================================

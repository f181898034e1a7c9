---------------------------- MODULE MCDecisions ----------------------------
(***************************************************************************)
(* Instance, for TLC, of the parts that share no state with any other: the *)
(* checks on a mission plan, the memory of the Mac server, the             *)
(* verification of an action, the trace of a request, the context it is    *)
(* given, the tools that look at files and the evaluation harness.         *)
(* Interleaving them would add no behaviour of any: a run of TLC explores  *)
(* each in turn.                                                           *)
(***************************************************************************)
EXTENDS PlanGraph, MemoryStore, Verification, Trace, Context, Files, Evaluation, TLC

VARIABLE part \* the one that moves

\* A root with a directory that is passed over (2), one with a nested one
\* (4, 6), in it one that cannot be listed (11), a file that may hold credentials
\* (8) and a link to a directory outside (9, 10); limits that cut a walk short,
\* each at one of them.
MCParent == 1 :> 0 @@ 2 :> 1 @@ 3 :> 2 @@ 4 :> 1 @@ 5 :> 4 @@ 6 :> 4 @@ 7 :> 6 @@ 8 :> 1 @@ 9 :> 1 @@ 10 :> 0
            @@ 11 :> 6 @@ 12 :> 11
MCAbove ==
    LET up[e \in 0..12] == IF e = 0 THEN {} ELSE {e} \cup up[MCParent[e]]
    IN  [e \in 1..12 |-> up[e]]
MCTarget == [e \in 1..12 |-> IF e = 9 THEN 10 ELSE e]
MCKind(five, eight) ==
    [e \in 1..12 |-> CASE e \in {1, 2, 4, 6, 10, 11} -> "directory"
                       [] e \in {3, 7, 12} -> "file"
                       [] e = 9 -> "symlink"
                       [] e = 5 -> five
                       [] e = 8 -> eight]
MCKinds == {MCKind("file", "file"), MCKind("directory", "file"), MCKind("other", "directory")}
MCLimits == [entries |-> 9, matches |-> 9, depth |-> 9, visits |-> 9, queue |-> 9, overview |-> 9]
MCPolicies ==
    {MCLimits, [MCLimits EXCEPT !.entries = 3, !.matches = 2, !.overview = 5],
     [MCLimits EXCEPT !.entries = 4, !.visits = 2], [MCLimits EXCEPT !.depth = 1],
     [MCLimits EXCEPT !.queue = 1, !.overview = 4]}

DecisionVars == <<vars, memoryVars, verificationVars, traceVars, contextVars, filesVars, evaluationVars, part>>

\* A part that does not move has one initial state.
DecisionInit ==
    /\ part \in {"plan", "memory", "verification", "trace", "context", "files", "evaluation"}
    /\ Init /\ (part = "plan" \/ depends = [n \in Nodes |-> <<>>])
    /\ MemoryInit
    /\ NothingDone
    /\ IF part = "verification" THEN ToVerify
       ELSE act = Unread /\ level = Unread /\ budget = 0 /\ world = Unread /\ been = {}
    /\ NothingHappened
    /\ IF part = "trace" THEN RecordKinds ELSE mission = FALSE /\ beforehand = {} /\ given = <<>>
    /\ IF part = "context" THEN ContextInit
       ELSE memories = <<>> /\ running = <<>> /\ disk = {} /\ changes = 0
            /\ work = [r \in Collections |-> Idle]
    /\ IF part = "files" THEN FilesInit
       ELSE /\ limits = MCLimits /\ kind = MCKind("file", "file")
            /\ size = [e \in Entries |-> MaxBytes] /\ job = NoJob /\ calm = TRUE
    /\ EvaluationInit /\ (part = "evaluation" \/ options = [approve |-> FALSE, concurrency |-> 2])

DecisionNext ==
    \/ part = "plan" /\ Next
       /\ UNCHANGED <<memoryVars, verificationVars, traceVars, contextVars, filesVars, evaluationVars, part>>
    \/ part = "memory" /\ MemoryNext
       /\ UNCHANGED <<vars, verificationVars, traceVars, contextVars, filesVars, evaluationVars, part>>
    \/ part = "verification" /\ VerificationNext
       /\ UNCHANGED <<vars, memoryVars, traceVars, contextVars, filesVars, evaluationVars, part>>
    \/ part = "trace" /\ TraceNext
       /\ UNCHANGED <<vars, memoryVars, verificationVars, contextVars, filesVars, evaluationVars, part>>
    \/ part = "context" /\ ContextNext
       /\ UNCHANGED <<vars, memoryVars, verificationVars, traceVars, filesVars, evaluationVars, part>>
    \/ part = "files" /\ FilesNext
       /\ UNCHANGED <<vars, memoryVars, verificationVars, traceVars, contextVars, evaluationVars, part>>
    \/ part = "evaluation" /\ EvaluationNext
       /\ UNCHANGED <<vars, memoryVars, verificationVars, traceVars, contextVars, filesVars, part>>

DecisionSpec == DecisionInit /\ [][DecisionNext]_DecisionVars

\* Every plan of four steps whose dependency lists are empty, one id (a
\* dangling one too), or two ids in dict order.
MCLists  == {<<>>} \cup {<<d>> : d \in 0..N} \cup {<<p[1], p[2]>> : p \in {q \in Nodes \X Nodes : q[1] < q[2]}}
MCGraphs == [Nodes -> MCLists]

\* Two workers of the pooled server and one of a run's own; delete by type and
\* name, by name alone, by id, and everything.
CONSTANTS a, b, c, pooled, own, k1, k2

MCProcessOf == a :> pooled @@ b :> pooled @@ c :> own
MCScopes ==
    {[scope |-> {k1}, ids |-> Ids, one |-> FALSE],
     [scope |-> {k1, k2}, ids |-> {1}, one |-> TRUE],
     [scope |-> {k1, k2}, ids |-> Ids, one |-> TRUE],
     [scope |-> {k1, k2}, ids |-> Ids, one |-> FALSE]}

\* A workspace that was only a candidate, and a memory.
MCLevelOf == [t \in Tools |-> IF t = "read" THEN "SAFE" ELSE "CONFIRM"]
MCContexts == {<<[kind |-> "workspace", active |-> FALSE]>>, <<[kind |-> "memory", active |-> FALSE]>>}

\* Two requests that overlap: one asks where the user is, the other is a
\* mission, a look at what is remembered, or names its paths. What is
\* remembered has paths that resolve alike, lie within one another or are
\* none, and ports that processes agree or disagree with.
CONSTANTS first, second

Objective(typed, intent, planned) == [named |-> typed, intent |-> intent, mission |-> planned]
MCObjectives ==
    first :> {Objective(<<>>, "ORIENT", FALSE)} @@
    second :> {Objective(<<>>, "RECALL", FALSE), Objective(<<>>, "GENERAL", TRUE),
               Objective(<<"/n/app">>, "CONTINUE", FALSE)}

Remembered(i, k, type, where, port) ==
    [id |-> i, key |-> k, type |-> type, high |-> FALSE, path |-> where, port |-> port, status |-> "ACTIVE"]
MCStores ==
    {<<Remembered(1, "other", "PROJECT", "~/n", 8000), Remembered(2, "nexus", "DECISION", "/n/app", 8000)>>,
     <<Remembered(1, "nexus", "WORKSPACE", "/n", 0), Remembered(2, "other", "PROJECT", "/n", 9000),
       Remembered(3, "other", "DECISION", Nowhere, 0)>>}

On(dir, port) == [dir |-> dir, port |-> port]
MCProcessLists == {<<>>, <<On("/n", 8000), On("/n", 9000)>>, <<On("/n/app", 9000)>>}
MCDisks == {{"/n", "/n/app"}}
MCCanonical == ("~/n" :> "/n") @@ ("/n" :> "/n") @@ ("/n/app" :> "/n/app")
MCWithin == {<<p, p>> : p \in DOMAIN MCCanonical} \cup {<<"/n/app", "/n">>}
MCSaid == ("nexus" :> 10) @@ ("other" :> 0)
MCRestated == {[path |-> "/n/app", port |-> 9000]}

\* A refusal, and a CONFIRM case that expects one of the two tools its task may
\* call; a prompt may be answered by the harness, one case at a time, or by
\* nobody it knows of, two at a time.
MCExpected ==
    [i \in {1, 2} |-> IF i = 1 THEN [tools |-> {}, outcome |-> "REFUSED", tags |-> {"refusal"}]
                     ELSE [tools |-> Tools, outcome |-> "SUCCESS", tags |-> {"confirm"}]]
MCAgentTools == [i \in {1, 2} |-> IF i = 1 THEN {"act"} ELSE Tools]
MCEndings ==
    {[outcome |-> "", refuses |-> TRUE, keywords |-> 2], [outcome |-> "FAILED", refuses |-> FALSE, keywords |-> 1]}
MCRuns == {[approve |-> FALSE, concurrency |-> 2], [approve |-> TRUE, concurrency |-> 2]}

\* The two workers of one process are interchangeable.
Interchangeable == Permutations({a, b})
=============================================================================

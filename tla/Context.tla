------------------------------ MODULE Context ------------------------------
(***************************************************************************)
(* The context a request is given before the model is asked: what NEXUS    *)
(* remembers, where the user works and what runs, gathered by SAFE tool    *)
(* calls one after the other while the user, the processes, the disk and   *)
(* other requests go on (context/collector.py, relevance.py, intent.py and *)
(* AgentRunner._contextual_prompt).                                        *)
(*                                                                         *)
(* A path is a value; what it resolves to and which paths lie within which *)
(* are constants. The words of a request are the points they give a        *)
(* memory. Git and machine facts, which nothing decides on, are left out.  *)
(***************************************************************************)
EXTENDS Integers, Sequences, FiniteSets, SequencesExt

CONSTANTS
    Collections,   \* the collections of context
    Objectives,    \* Objectives[c]: records [named, intent, mission]: the paths
                   \* typed, the kind
    Stores,        \* what may be remembered at first: sequences, newest first
    ProcessLists,  \* what list_processes may return: sequences of [dir, port]
    Disks,         \* which directories may exist at first
    Dirs,          \* directories that may come and go
    Canonical,     \* Canonical[p]: the directory a path resolves to
    Within,        \* pairs <<p, q>>: q starts with p
    Said,          \* Said[k]: points the words of the request give a key
    Restated,      \* records [path, port] a user may save instead
    MaxMemories, MaxWorkspaceFacts, MaxCandidates,
    MaxChanges,    \* bound: changes of the world
    Nowhere        \* no path, no packet

VARIABLES
    memories, \* the rows of the store, newest first
    running,  \* what list_processes returns
    disk,     \* the directories that exist
    work,     \* work[c]: where a collection is and what it has gathered
    changes   \* how often the world has changed

contextVars == <<memories, running, disk, work, changes>>

MemoryType ==
    {"USER_PREFERENCE", "PROJECT", "WORKSPACE", "WORKFLOW", "DECISION", "TASK_CONTEXT", "FACT"}

Paths == DOMAIN Canonical \cup {Nowhere}

\* A row of the store, without those deleted, and what is read of it.
MemoryRows == [id : Nat, key : DOMAIN Said, type : MemoryType, high : BOOLEAN,
               path : Paths, port : Nat, status : {"ACTIVE", "STALE"}]

ProcessRows == [dir : DOMAIN Canonical, port : Nat]

\* A store numbers its rows and starts with nothing found stale.
ASSUME ContextAssumption ==
    /\ {MaxMemories, MaxWorkspaceFacts, MaxCandidates, MaxChanges} \subseteq Nat
    /\ \A k \in DOMAIN Said : Said[k] \in Nat
    /\ \A p \in DOMAIN Canonical : Canonical[p] \in DOMAIN Canonical
    /\ \A s \in Stores : /\ s \in Seq(MemoryRows)
                         /\ \A i, j \in DOMAIN s : s[i].id = s[j].id => i = j
                         /\ \A i \in DOMAIN s : s[i].status = "ACTIVE"
    /\ \A s \in ProcessLists : s \in Seq(ProcessRows)
    /\ \A c \in Collections : \A o \in Objectives[c] : o.named \in Seq(DOMAIN Canonical)
    /\ Restated \subseteq [path : Paths, port : Nat]

\* The elements of S, each after those before it.
Sorted(S, before) ==
    [r \in 1..Cardinality(S) |-> CHOOSE i \in S : Cardinality({j \in S : <<j, i>> \in before}) = r - 1]

\* s[:n]
Cut(s, n) == SubSeq(s, 1, IF Len(s) < n THEN Len(s) ELSE n)

(***************************************************************************)
(* What to gather (intent.py).                                             *)
(***************************************************************************)

ContextPlan(o) ==
    [memories  |-> o.mission \/ o.intent \notin {"WHAT_CHANGED", "RECENT"},
     workspace |-> o.mission \/ o.intent \in {"CONTINUE", "WHAT_CHANGED", "ORIENT", "INVESTIGATE"},
     processes |-> o.mission \/ o.intent \in {"CONTINUE", "ORIENT", "INVESTIGATE"}]

(***************************************************************************)
(* What is relevant (relevance.py). Ages are not passed on by the          *)
(* collector, so nothing is scored for being recent.                       *)
(***************************************************************************)

INTENT_TYPES(intent) ==
    CASE intent = "CONTINUE" -> {"TASK_CONTEXT", "DECISION", "PROJECT", "WORKSPACE"}
      [] intent = "ORIENT" -> {"TASK_CONTEXT", "PROJECT", "WORKSPACE"}
      [] intent = "WHAT_CHANGED" -> {"DECISION", "TASK_CONTEXT"}
      [] OTHER -> {}

MIN_SCORE == 4

PathScore(path, o, active) ==
    IF path = Nowhere THEN 0
    ELSE IF path \in ToSet(o.named) THEN 9
    ELSE IF active # Nowhere /\ {<<path, active>>, <<active, path>>} \cap Within # {} THEN 8
    ELSE 0

\* The score of a memory as it was read.
ScoreMemory(m, o, active) ==
    LET intent == IF o.mission THEN "GENERAL" ELSE o.intent
    IN  Said[m.key] + PathScore(m.path, o, active)
        + (IF m.type \in INTENT_TYPES(intent) THEN 4 ELSE 0)
        + (IF m.high THEN 1 ELSE 0) - (IF m.stale THEN 5 ELSE 0)

\* The relevant ones, best first and otherwise in the order they were read;
\* all of them, in that order, when the question is what is remembered.
Rank(read, o, active) ==
    LET score(i) == ScoreMemory(read[i], o, active)
        better(i, j) == score(i) > score(j) \/ (score(i) = score(j) /\ i < j)
        relevant == {i \in DOMAIN read : score(i) >= MIN_SCORE}
        order == Sorted(relevant, {p \in relevant \X relevant : better(p[1], p[2])})
    IN  IF o.intent = "RECALL" /\ ~o.mission THEN read ELSE [i \in DOMAIN order |-> read[order[i]]]

(***************************************************************************)
(* Where the user may be working (collector.py).                           *)
(***************************************************************************)

\* Each path once, where it comes first.
EachOnce(s) ==
    LET firsts == {i \in DOMAIN s : s[i] # Nowhere /\ \A j \in 1..(i - 1) : s[j] # s[i]}
        order == Sorted(firsts, {p \in firsts \X firsts : p[1] < p[2]})
    IN  [r \in DOMAIN order |-> s[order[r]]]

Observed(read, processes) ==
    [i \in DOMAIN processes |-> processes[i].dir] \o [i \in DOMAIN read |-> read[i].path]

\* variant: typed paths come first, but decide nothing
CandidatesAll(o, read, processes) == EachOnce(o.named \o Observed(read, processes))

\* Typed paths decide; otherwise those of processes, then of memories.
WorkspaceCandidates(o, read, processes) ==
    EachOnce(IF o.named # <<>> THEN o.named ELSE Observed(read, processes))

ActiveIn(found) ==
    LET on == {i \in DOMAIN found : found[i].active}
    IN  IF on = {} THEN Nowhere ELSE found[CHOOSE i \in on : TRUE].path

\* The first that verifies is the active one.
WithWorkspace(found, path, verified) ==
    Append(found, [path |-> IF verified THEN Canonical[path] ELSE path, verified |-> verified,
                   active |-> verified /\ ~\E i \in DOMAIN found : found[i].active])

(***************************************************************************)
(* What is contradicted (collector.py, _reconcile).                        *)
(***************************************************************************)

\* The last process of a directory speaks for it, whatever its status.
Verdict(m, found, processes) ==
    LET there == {i \in DOMAIN processes : processes[i].dir = m.path /\ processes[i].port # 0}
        last == CHOOSE i \in there : \A j \in there : j <= i
        path(verified) == \E i \in DOMAIN found : found[i].verified = verified /\ found[i].path = m.path
    IN  IF there # {} /\ m.port # 0 /\ processes[last].port # m.port THEN "port"
        ELSE IF (there = {} \/ m.port = 0) /\ path(FALSE) THEN "missing"
        ELSE IF path(TRUE) /\ ~m.stale THEN "confirmed"
        ELSE "none"

Contradicted == {"port", "missing"}

\* A memory as it is shown.
Compared(m, found, processes) ==
    LET verdict == Verdict(m, found, processes)
    IN  IF verdict \in Contradicted THEN [m EXCEPT !.stale = TRUE, !.conflict = verdict] ELSE m

\* mark_stale: an ACTIVE row becomes STALE, and is the newest.
MarkStale(rows, id) ==
    LET hit == {i \in DOMAIN rows : rows[i].id = id /\ rows[i].status = "ACTIVE"}
    IN  IF hit = {} THEN rows
        ELSE LET i == CHOOSE j \in hit : TRUE
             IN  <<[rows[i] EXCEPT !.status = "STALE"]>> \o RemoveAt(rows, i)

(***************************************************************************)
(* A collection.                                                           *)
(***************************************************************************)

Idle ==
    [stage |-> "idle", objective |-> Nowhere, processes |-> <<>>, read |-> <<>>, toTry |-> <<>>,
     found |-> <<>>, toCheck |-> <<>>, shown |-> <<>>, truncated |-> FALSE, packet |-> Nowhere]

\* The limit of every read of the store.
MEMORY_READ_LIMIT == 50

\* list_memories: STALE rows and those whose path is not there are stale.
Listed(rows) ==
    [i \in DOMAIN rows |->
        [id |-> rows[i].id, key |-> rows[i].key, type |-> rows[i].type, high |-> rows[i].high,
         path |-> rows[i].path, port |-> rows[i].port, conflict |-> "none",
         stale |-> \/ rows[i].status = "STALE"
                   \/ rows[i].path # Nowhere /\ Canonical[rows[i].path] \notin disk]]

\* The packet, which AgentRunner keeps for the task.
Packed(w) ==
    [w EXCEPT !.stage = "done",
              !.packet = [memories |-> w.shown,
                          workspaces |-> Cut(w.found, MaxWorkspaceFacts),
                          truncated |-> w.truncated]]

\* Memories are ranked again, now that the active workspace is known, and cut.
Rescored(w) ==
    LET ranked == Rank(w.read, w.objective, ActiveIn(w.found))
        kept == Cut(ranked, MaxMemories)
        next == [w EXCEPT !.stage = "reconcile", !.toCheck = kept, !.truncated = Len(ranked) > MaxMemories]
    IN  IF kept = <<>> THEN Packed(next) ELSE next

Begin(c) ==
    /\ work[c].stage = "idle"
    /\ \E o \in Objectives[c] :
        \E seen \in IF ContextPlan(o).processes THEN {running, <<>>} ELSE {<<>>} :
            work' = [work EXCEPT ![c] =
                [Idle EXCEPT !.stage = "memories", !.objective = o, !.processes = seen]]
    /\ UNCHANGED <<memories, running, disk, changes>>

\* One broad read of the store, then the candidates.
RetrieveMemories(c) ==
    /\ work[c].stage = "memories"
    /\ LET o == work[c].objective
           listed == Cut(Listed(memories), MEMORY_READ_LIMIT)
       IN  \E read \in IF ContextPlan(o).memories THEN {listed, <<>>} ELSE {<<>>} :
            LET all == IF ContextPlan(o).workspace
                       THEN WorkspaceCandidates(o, read, work[c].processes) ELSE <<>>
                tried == Cut(all, MaxCandidates)
                w == [work[c] EXCEPT !.read = read, !.toTry = tried, !.stage = "detect"]
            IN  work' = [work EXCEPT ![c] = IF tried = <<>> THEN Rescored(w) ELSE w]
    /\ UNCHANGED <<memories, running, disk, changes>>

\* detect_workspace of the next candidate; a call that fails verifies nothing.
VerifyWorkspace(c) ==
    /\ work[c].stage = "detect"
    /\ LET path == Head(work[c].toTry)
       IN  \E verified \in {FALSE, Canonical[path] \in disk} :
            LET w == [work[c] EXCEPT !.toTry = Tail(@),
                                     !.found = WithWorkspace(@, path, verified)]
            IN  work' = [work EXCEPT ![c] = IF w.toTry = <<>> THEN Rescored(w) ELSE w]
    /\ UNCHANGED <<memories, running, disk, changes>>

\* The next memory is compared with what was observed, and what was decided
\* is told to the store, by id; that call may fail.
Reconcile(c) ==
    /\ work[c].stage = "reconcile"
    /\ LET m == Head(work[c].toCheck)
           shown == Compared(m, work[c].found, work[c].processes)
           w == [work[c] EXCEPT !.toCheck = Tail(@), !.shown = Append(@, shown)]
       IN  /\ work' = [work EXCEPT ![c] = IF w.toCheck = <<>> THEN Packed(w) ELSE w]
           /\ \E told \in {shown.conflict \in Contradicted, FALSE} :
                memories' = IF told THEN MarkStale(memories, m.id) ELSE memories
    /\ UNCHANGED <<running, disk, changes>>

\* Anything unexpected: the request goes on without context.
GoWithout(c) ==
    /\ work[c].stage \in {"memories", "detect", "reconcile"}
    /\ work' = [work EXCEPT ![c].stage = "without"]
    /\ UNCHANGED <<memories, running, disk, changes>>

(***************************************************************************)
(* Meanwhile.                                                              *)
(***************************************************************************)

\* save_memory for a key that is known: the row is rewritten and the newest.
SaveAgain(i) ==
    /\ \E r \in Restated :
        memories' = <<[memories[i] EXCEPT !.path = r.path, !.port = r.port, !.status = "ACTIVE"]>>
                    \o RemoveAt(memories, i)
    /\ UNCHANGED <<running, disk>>

ForgetMemory(i) ==
    /\ memories' = RemoveAt(memories, i)
    /\ UNCHANGED <<running, disk>>

ProcessesChange ==
    /\ running' \in ProcessLists \ {running}
    /\ UNCHANGED <<memories, disk>>

DirectoryComesOrGoes ==
    /\ \E d \in Dirs : disk' = (disk \ {d}) \cup ({d} \ disk)
    /\ UNCHANGED <<memories, running>>

WorldChanges ==
    /\ changes < MaxChanges
    /\ changes' = changes + 1
    /\ UNCHANGED work
    /\ \/ \E i \in DOMAIN memories : SaveAgain(i)
       \/ \E i \in DOMAIN memories : ForgetMemory(i)
       \/ ProcessesChange
       \/ DirectoryComesOrGoes

(***************************************************************************)
(* The specification.                                                      *)
(***************************************************************************)

ContextInit ==
    /\ memories \in Stores
    /\ running \in ProcessLists
    /\ disk \in Disks
    /\ work = [c \in Collections |-> Idle]
    /\ changes = 0

CollectionStep(c) ==
    Begin(c) \/ RetrieveMemories(c) \/ VerifyWorkspace(c) \/ Reconcile(c) \/ GoWithout(c)

ContextNext == WorldChanges \/ \E c \in Collections : CollectionStep(c)

ContextSpec == ContextInit /\ [][ContextNext]_contextVars

(***************************************************************************)
(* Properties.                                                             *)
(***************************************************************************)

Done(c) == work[c].stage = "done"

\* Of the workspaces at most one is active; it is verified, nothing before it
\* is, and there is one if any is verified. A user who typed paths is shown
\* no other.
WorkspaceIsTheUsers ==
    \A c \in Collections : Done(c) =>
        LET found == work[c].found
            named == work[c].objective.named
        IN  /\ \A i \in DOMAIN found :
                found[i].active <=> /\ found[i].verified
                                    /\ \A j \in 1..(i - 1) : ~found[j].verified
            /\ named # <<>> => \A i \in DOMAIN found :
                \E p \in ToSet(named) : found[i].path \in {p, Canonical[p]}

\* What is shown as a conflict is one with the evidence of this very request,
\* and shown as stale; what its evidence only contradicts is never shown as
\* agreed.
ConflictsAreReal ==
    \A c \in Collections : Done(c) =>
        \A m \in ToSet(work[c].packet.memories) :
            LET ports == {p.port : p \in {q \in ToSet(work[c].processes) : q.dir = m.path}} \ {0}
                gone == \E w \in ToSet(work[c].found) : ~w.verified /\ w.path = m.path
            IN  /\ m.conflict = "port" => m.stale /\ m.port # 0 /\ ports \ {m.port} # {}
                /\ m.conflict = "missing" => m.stale /\ gone
                /\ (m.port # 0 /\ ports # {} /\ m.port \notin ports) => m.conflict = "port"
                /\ (gone /\ ports = {}) => m.conflict = "missing"

\* The packet says it was truncated exactly when something relevant was left
\* out, and what was left out is no better than what is shown.
TruncationIsTold ==
    \A c \in Collections : Done(c) =>
        LET w == work[c]
            shown == {m.id : m \in ToSet(w.packet.memories)}
            score(m) == ScoreMemory(m, w.objective, ActiveIn(w.found))
            recall == w.objective.intent = "RECALL" /\ ~w.objective.mission
            left == {m \in ToSet(w.read) : m.id \notin shown /\ (recall \/ score(m) >= MIN_SCORE)}
        IN  /\ w.packet.truncated <=> left # {}
            /\ Cardinality(shown) <= MaxMemories
            /\ ~recall => \A m \in left : \A n \in ToSet(w.read) : n.id \in shown => score(m) <= score(n)

\* A memory is STALE in the store only if some request has found a conflict
\* with it, and reports that.
StaleIsReported ==
    \A i \in DOMAIN memories : memories[i].status = "STALE" =>
        \E c \in Collections :
            /\ work[c].stage # "idle"
            /\ \E m \in ToSet(work[c].shown) : m.id = memories[i].id /\ m.conflict # "none"

\* The context of a request is honest, whatever changes while it is gathered:
\* the workspace it names, the conflicts it reports and records, and its being
\* cut short (ContextCollector.collect).
ContextIsHonest ==
    WorkspaceIsTheUsers /\ ConflictsAreReal /\ TruncationIsTold /\ StaleIsReported
=============================================================================

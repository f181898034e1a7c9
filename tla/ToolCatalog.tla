----------------------------- MODULE ToolCatalog -----------------------------
(***************************************************************************)
(* How a run comes by its tools: the pool of MCP sessions the application  *)
(* opens at startup, the sessions a run opens for itself when there is no  *)
(* pool, the catalog each session's source keeps, the registry a run       *)
(* builds from the catalogs, and the calls it makes through it             *)
(* (backend/app/mcp/registry.py, mcp/client.py, tools/registry.py and      *)
(* AgentRunner._open_registry).                                            *)
(*                                                                         *)
(* One step ends at an await: everything between two awaits of a coroutine *)
(* is atomic on the event loop.                                            *)
(***************************************************************************)
EXTENDS Naturals, Sequences, FiniteSets

CONSTANTS
    Runs,       \* what opens a registry: agent runs, GET /api/tools, the panels
    Servers,    \* the configured servers, in configuration order
    Tools,      \* tool names
    Declared,   \* Declared[s][t]: what server s says of tool t (see Offers)
    Baseline,   \* Baseline[t]: DEFAULT_PERMISSIONS.get(t, RESTRICTED)
    MaxRunCalls, \* bound: calls one run makes
    MaxCrashes, \* bound: servers that die
    None        \* Python's None

Levels == {"SAFE", "CONFIRM", "RESTRICTED"}
ServerSet == {Servers[i] : i \in 1..Len(Servers)}
Pool == "pool"
Probe == "probe"
Users == Runs \cup {Pool, Probe}

ASSUME ServersAssumption ==
    /\ Servers \in Seq(ServerSet)
    /\ \A i, j \in 1..Len(Servers) : Servers[i] = Servers[j] => i = j
    /\ Servers # <<>>
ASSUME DeclaredAssumption ==
    Declared \in [ServerSet -> [Tools -> Levels \cup {"undeclared", "absent"}]]
ASSUME BaselineAssumption == Baseline \in [Tools -> Levels]
ASSUME BoundsAssumption == MaxRunCalls \in Nat /\ MaxCrashes \in Nat
ASSUME NamesAssumption == {Pool, Probe} \cap Runs = {} /\ None \notin Users

VARIABLES
    pool,     \* "starting", "open", "failed", "closing" or "closed"
    open,     \* the sessions <<user, server>> that are open
    dead,     \* sessions whose server died
    cache,    \* cache[x]: MCPToolSource._definitions of session x
    holder,   \* holder[x]: the run inside _discovery_lock
    answered, \* discoveries whose tools/list the server has answered
    phase,    \* phase[r] of a run
    through,  \* through[r]: whose sessions it uses, the pool's or its own
    at,       \* at[r]: servers dealt with in this phase
    registry, \* registry[r]: tool -> server; the local dictionaries of
              \* refresh() until the run is ready, the registry's own after
    busy,     \* busy[r]: the tool it is calling
    made,     \* made[r]: calls it has made
    noticed   \* history: dead sessions on which a call has failed while no
              \* discovery was in flight

serverVars == <<open, dead, noticed>>
sourceVars == <<cache, holder, answered>>
runVars == <<phase, through, at, registry, busy, made>>
catalogVars == <<pool, serverVars, sourceVars, runVars>>

Sessions == (Runs \cup {Pool, Probe}) \X ServerSet
NumServers == Len(Servers)
Empty == [t \in {} |-> None]
Up(x) == x \in open \ dead

(***************************************************************************)
(* Catalogs and registries.                                                *)
(***************************************************************************)

\* The tools a server lists.
Offers(s) == {t \in Tools : Declared[s][t] # "absent"}

\* What a tool declares of itself wins, if it is a level at all.
Classify(s, t) ==
    IF Declared[s][t] \in Levels THEN Declared[s][t] ELSE Baseline[t]

\* ToolRegistry.refresh: the first source to claim a name keeps it.
Merge(owners, s, offered) ==
    [t \in DOMAIN owners \cup offered |-> IF t \in DOMAIN owners THEN owners[t] ELSE s]

\* The tools the model is told of, and may call.
ModelSpecs(owners) == {t \in DOMAIN owners : Classify(owners[t], t) # "RESTRICTED"}

\* The session of the source a run is refreshing from, and that of a call.
Source(r) == <<through[r], Servers[at[r] + 1]>>
Owner(r) == <<through[r], registry[r][busy[r]]>>

(***************************************************************************)
(* The pool, opened by the application's startup and closed by its end.    *)
(***************************************************************************)

\* open_sources on the pool's stack, one server after another.
PoolOpens(s) ==
    /\ pool = "starting"
    /\ s = Servers[Cardinality({x \in open : x[1] = Pool}) + 1]
    /\ open' = open \cup {<<Pool, s>>}
    /\ pool' = IF s = Servers[NumServers] THEN "open" ELSE pool
    /\ UNCHANGED <<dead, noticed, sourceVars, runVars>>

\* A server does not start: what was opened is closed again, and runs open
\* their own.
PoolFails ==
    /\ pool = "starting"
    /\ pool' = "failed"
    /\ open' = {x \in open : x[1] # Pool}
    /\ UNCHANGED <<dead, noticed, sourceVars, runVars>>

\* close() empties the pool, and only then awaits the stack.
PoolCloses ==
    /\ pool = "open"
    /\ pool' = "closing"
    /\ UNCHANGED <<serverVars, sourceVars, runVars>>

PoolClosed ==
    /\ pool = "closing"
    /\ pool' = "closed"
    /\ open' = {x \in open : x[1] # Pool}
    /\ UNCHANGED <<dead, noticed, sourceVars, runVars>>

(***************************************************************************)
(* A run's registry.                                                       *)
(***************************************************************************)

\* _open_registry looks at the pool once.
StartRun(r) ==
    /\ phase[r] = "idle"
    /\ pool \notin {"starting", "closed"}
    /\ LET pooled == pool = "open"
       IN  /\ through' = [through EXCEPT ![r] = IF pooled THEN Pool ELSE r]
           /\ phase' = [phase EXCEPT ![r] = IF pooled THEN "refreshing" ELSE "opening"]
    /\ UNCHANGED <<pool, serverVars, sourceVars, at, registry, busy, made>>

\* MCPClient.session of the next server, on the run's own stack.
OpenOwn(r) ==
    /\ phase[r] = "opening"
    /\ open' = open \cup {Source(r)}
    /\ at' = [at EXCEPT ![r] = (@ + 1) % NumServers]
    /\ phase' = [phase EXCEPT ![r] = IF at'[r] = 0 THEN "refreshing" ELSE @]
    /\ UNCHANGED <<pool, dead, noticed, sourceVars, through, registry, busy, made>>

\* variant: the lock is left only when the discovery succeeds
EndRunHoldingLock(r) ==
    /\ phase[r] \notin {"idle", "ended"}
    /\ phase' = [phase EXCEPT ![r] = "ended"]
    /\ open' = {x \in open : x[1] # r}
    /\ UNCHANGED <<pool, dead, noticed, sourceVars, through, at, registry, busy, made>>

\* The run is over, by its end, an error or a cancel: its stack is closed and
\* the discovery lock, if it is inside, is left.
EndRun(r) ==
    /\ phase[r] \notin {"idle", "ended"}
    /\ phase' = [phase EXCEPT ![r] = "ended"]
    /\ open' = {x \in open : x[1] # r}
    /\ holder' = [x \in Sessions |-> IF holder[x] = r THEN None ELSE holder[x]]
    /\ answered' = {x \in answered : holder[x] # r}
    /\ UNCHANGED <<pool, dead, noticed, cache, through, at, registry, busy, made>>

\* variant: a later source takes over the names it lists
UseListLastWins(r, offered) ==
    /\ registry' = [registry EXCEPT ![r] =
           [t \in DOMAIN @ \cup offered |-> IF t \in offered THEN Servers[at[r] + 1] ELSE @[t]]]
    /\ at' = [at EXCEPT ![r] = (@ + 1) % NumServers]
    /\ phase' = [phase EXCEPT ![r] = IF at'[r] = 0 THEN "ready" ELSE @]

\* What refresh() does with the list of one source, before it awaits the next.
UseList(r, offered) ==
    /\ registry' = [registry EXCEPT ![r] = Merge(@, Servers[at[r] + 1], offered)]
    /\ at' = [at EXCEPT ![r] = (@ + 1) % NumServers]
    /\ phase' = [phase EXCEPT ![r] = IF at'[r] = 0 THEN "ready" ELSE @]

\* list_tools finds the catalog, at once or when the lock is its own.
TakeCatalog(r) ==
    /\ phase[r] = "refreshing"
    /\ cache[Source(r)] # None
    /\ UseList(r, cache[Source(r)])
    /\ UNCHANGED <<pool, serverVars, sourceVars, through, busy, made>>

\* There is none: inside the lock, the server is asked.
Discover(r) ==
    /\ phase[r] = "refreshing"
    /\ cache[Source(r)] = None
    /\ holder[Source(r)] = None
    /\ holder' = [holder EXCEPT ![Source(r)] = r]
    /\ UNCHANGED <<pool, serverVars, cache, answered, runVars>>

ServerAnswers(x) ==
    /\ holder[x] # None
    /\ Up(x)
    /\ answered' = answered \cup {x}
    /\ UNCHANGED <<pool, serverVars, cache, holder, runVars>>

\* The answer is classified, kept, and returned without another await.
Discovered(r) ==
    /\ phase[r] = "refreshing"
    /\ holder[Source(r)] = r
    /\ Source(r) \in answered
    /\ cache' = [cache EXCEPT ![Source(r)] = Offers(Source(r)[2])]
    /\ holder' = [holder EXCEPT ![Source(r)] = None]
    /\ answered' = answered \ {Source(r)}
    /\ UseList(r, cache'[Source(r)])
    /\ UNCHANGED <<pool, serverVars, through, busy, made>>

\* tools/list is lost with the server; the error ends the run.
DiscoveryFails(r) ==
    /\ holder[Source(r)] = r
    /\ Source(r) \notin answered
    /\ ~Up(Source(r))
    /\ EndRun(r)

\* variant: a failed call leaves the catalog as it is
KeepCatalog(x) == cache' = cache

\* MCPToolSource.invalidate
Invalidate(x) == cache' = [cache EXCEPT ![x] = None]

(***************************************************************************)
(* Calls.                                                                  *)
(***************************************************************************)

BeginCall(r, t) ==
    /\ phase[r] = "ready"
    /\ t \in ModelSpecs(registry[r])
    /\ made[r] < MaxRunCalls
    /\ busy' = [busy EXCEPT ![r] = t]
    /\ made' = [made EXCEPT ![r] = @ + 1]
    /\ phase' = [phase EXCEPT ![r] = "calling"]
    /\ UNCHANGED <<pool, serverVars, sourceVars, through, at, registry>>

CallReturns(r) ==
    /\ phase[r] = "calling"
    /\ Up(Owner(r))
    /\ phase' = [phase EXCEPT ![r] = "ready"]
    /\ UNCHANGED <<pool, serverVars, sourceVars, through, at, registry, busy, made>>

\* The transport or the protocol failed: the catalog is discarded, and the run
\* goes on with what the model makes of the error.
CallFails(r) ==
    /\ phase[r] = "calling"
    /\ Invalidate(Owner(r))
    /\ phase' = [phase EXCEPT ![r] = "ready"]
    /\ noticed' = noticed \cup {x \in dead : x = Owner(r) /\ holder[x] = None}
    /\ UNCHANGED <<pool, open, dead, holder, answered, through, at, registry, busy, made>>

(***************************************************************************)
(* Servers that die, and the status probe with sessions of its own.        *)
(***************************************************************************)

Crash(x) ==
    /\ Up(x)
    /\ Cardinality(dead) < MaxCrashes
    /\ dead' = dead \cup {x}
    /\ UNCHANGED <<pool, open, noticed, sourceVars, runVars>>

\* probe() reaches one server after another, on a session of its own that is
\* closed when its tools are offered or cannot be.
ProbeConnects(s) ==
    /\ \A x \in open : x[1] # Probe
    /\ open' = open \cup {<<Probe, s>>}
    /\ UNCHANGED <<pool, dead, noticed, sourceVars, runVars>>

ProbeEnds(s) ==
    /\ <<Probe, s>> \in open
    /\ open' = open \ {<<Probe, s>>}
    /\ UNCHANGED <<pool, dead, noticed, sourceVars, runVars>>

(***************************************************************************)
(* The specification.                                                      *)
(***************************************************************************)

CatalogInit ==
    /\ pool = "starting"
    /\ open = {} /\ dead = {} /\ noticed = {}
    /\ cache = [x \in Sessions |-> None]
    /\ holder = [x \in Sessions |-> None]
    /\ answered = {}
    /\ phase = [r \in Runs |-> "idle"]
    /\ through = [r \in Runs |-> r]
    /\ at = [r \in Runs |-> 0]
    /\ registry = [r \in Runs |-> Empty]
    /\ busy = [r \in Runs |-> None]
    /\ made = [r \in Runs |-> 0]

RunStep(r) ==
    \/ StartRun(r) \/ OpenOwn(r) \/ TakeCatalog(r) \/ Discover(r) \/ Discovered(r)
    \/ CallReturns(r) \/ CallFails(r) \/ EndRun(r)
    \/ \E t \in Tools : BeginCall(r, t)

CatalogNext ==
    \/ PoolFails \/ PoolCloses \/ PoolClosed
    \/ \E s \in ServerSet : PoolOpens(s) \/ ProbeConnects(s) \/ ProbeEnds(s)
    \/ \E x \in Sessions : ServerAnswers(x) \/ Crash(x)
    \/ \E r \in Runs : RunStep(r)

\* A run that is getting its registry goes on when it can, with the error if
\* its tools/list is lost with the server; a server that lives answers.
Proceeds(r) == OpenOwn(r) \/ TakeCatalog(r) \/ Discover(r) \/ Discovered(r) \/ DiscoveryFails(r)
IsAnswered(r) == holder[Source(r)] = r /\ ServerAnswers(Source(r))

CatalogFairness == \A r \in Runs : WF_catalogVars(Proceeds(r)) /\ WF_catalogVars(IsAnswered(r))

CatalogSpec == CatalogInit /\ [][CatalogNext]_catalogVars /\ CatalogFairness

(***************************************************************************)
(* Properties.                                                             *)
(***************************************************************************)

CatalogTypes ==
    /\ pool \in {"starting", "open", "failed", "closing", "closed"}
    /\ open \subseteq Sessions /\ dead \subseteq Sessions /\ noticed \subseteq Sessions
    /\ answered \subseteq Sessions
    /\ cache \in [Sessions -> (SUBSET Tools) \cup {None}]
    /\ holder \in [Sessions -> Runs \cup {None}]
    /\ phase \in [Runs -> {"idle", "opening", "refreshing", "ready", "calling", "ended"}]
    /\ through \in [Runs -> Runs \cup {Pool}]
    /\ at \in [Runs -> 0..NumServers - 1]
    /\ made \in [Runs -> 0..MaxRunCalls]

\* A discovery is one run's, which is waiting for it; an answer belongs to one.
DiscoveryIsOwned ==
    /\ \A x \in Sessions : holder[x] # None =>
        /\ phase[holder[x]] = "refreshing"
        /\ x = Source(holder[x])
        /\ cache[x] = None
    /\ \A x \in answered : holder[x] # None

\* The first server, in configuration order, that lists a tool.
FirstClaim(t) ==
    LET claims == {i \in 1..NumServers : t \in Offers(Servers[i])}
    IN  Servers[CHOOSE i \in claims : \A j \in claims : i <= j]

\* A registry is never built from part of a catalog, whatever was invalidated
\* or asked again while it was being built: it holds every tool, and each is
\* owned by the first server that lists it, so the permission the run goes by
\* is the one declared by the server that will run the call.
RegistryIsRight ==
    \A r \in Runs : phase[r] \in {"ready", "calling"} =>
        registry[r] = [t \in UNION {Offers(s) : s \in ServerSet} |-> FirstClaim(t)]

\* A session that is open belongs to the pool, to a run that has opened it for
\* itself and is not over, or to a probe: no child is left behind by an error
\* half way, and no run starts servers of its own beside a pool it uses.
SessionsAreAccountedFor ==
    \A x \in open :
        \/ x[1] = Probe
        \/ x[1] = Pool /\ pool \in {"starting", "open", "closing"}
        \/ /\ x[1] \in Runs
           /\ phase[x[1]] \notin {"idle", "ended"}
           /\ through[x[1]] = x[1]

\* A run has the right tools, on sessions that are its own or its pool's: the
\* two above.
CatalogIsRight == RegistryIsRight /\ SessionsAreAccountedFor

\* Once a call has failed on a dead server with no discovery in flight, its
\* catalog is gone for good: no later run is offered tools that cannot run.
\* (A discovery whose answer arrived before the death still puts it back, until
\* the next call fails.)
DeadServerIsNoticed ==
    DiscoveryIsOwned /\ \A x \in noticed : cache[x] = None

\* Getting a registry comes to an end: a run waiting for the discovery lock is
\* not left waiting by one that failed or was cancelled inside it.
RefreshEnds ==
    \A r \in Runs :
        phase[r] \in {"opening", "refreshing"} ~> phase[r] \notin {"opening", "refreshing"}
=============================================================================

---------------------------- MODULE ServiceProofs ----------------------------
(***************************************************************************)
(* Theorems about the services at the MCP boundary: the processes of the   *)
(* Mac server, the catalogs a run is given, and the commands that may run. *)
(***************************************************************************)
EXTENDS ProcessManager, ToolCatalog, Commands, SequenceTheorems, WellFoundedInduction, TLAPS

(***************************************************************************)
(* ProcessManager, for any threads, starts and limit.                      *)
(***************************************************************************)

\* A refresh writes an end only over an active status and of a dead leader, and
\* otherwise nothing.
LEMMA RefreshedIs ==
    ASSUME NEW p \in Pids
    PROVE  \/ Refreshed(p) = status[p]
           \/ /\ status[p] \in Active /\ leader[p] \in Exited
              /\ Refreshed(p) \in Ended
BY DEF Refreshed, AfterExit, Ended

\* Whoever ends a record ends that of a dead leader.
LEMMA EndsAreDead ==
    ASSUME Supervision, NEW p \in Pids, NEW s \in {status[p], Refreshed(p)}
    PROVE  /\ s \in Active \cup Ended \cup {"none"}
           /\ s \in Ended => leader[p] \in Exited
           /\ s = "none" <=> status[p] = "none"
           /\ leader[p] \in Alive => s = status[p]
BY RefreshedIs DEF Supervision, TypeOK, EndedIsDead, Active, Ended, Alive, Exited

\* The states of the program satisfy Supervision at the start.
LEMMA InitSupervision == Init => Supervision
BY DEF Init, Supervision, TypeOK, EndedIsDead, EveryLeaderIsTracked, Born, Claims, AtRest,
       Active, Ended, Alive, Exited, Places

\* A step of the processes keeps Supervision: leaders that were alive may have
\* ended, workers are gone or as they were, and no record is touched.
LEMMA MachineStep ==
    ASSUME Supervision, UNCHANGED <<status, listed, reaped, pc, arg, server, stopped>>,
           leader' \in [Pids -> Alive \cup Exited \cup {"none"}],
           worker' \in [Pids -> Alive \cup {"none"}],
           \A p \in Pids : leader'[p] # leader[p] => leader[p] \in Alive /\ leader'[p] \in Exited
    PROVE  Supervision'
<1>1. TypeOK'
  BY DEF Supervision, TypeOK
<1>2. EndedIsDead' /\ EveryLeaderIsTracked'
  BY DEF Supervision, EndedIsDead, EveryLeaderIsTracked, Alive, Exited
<1>3. Born'
  BY DEF Supervision, TypeOK, Born, Alive, Exited
<1>4. Claims'
  BY DEF Supervision, TypeOK, Claims, Alive, Exited
<1>5. AtRest'
  BY DEF Supervision, AtRest
<1> QED BY <1>1, <1>2, <1>3, <1>4, <1>5 DEF Supervision

-----------------------------------------------------------------------------
(* The steps of a call.                                                    *)

\* A call to start refreshes the listed records and changes no other.
LEMMA StartCallKeeps ==
    ASSUME Supervision, NEW t \in Threads, StartCall(t)
    PROVE  Supervision'
<1>1. TypeOK'
  BY EndsAreDead DEF Supervision, TypeOK, StartCall, Goto, Seen, Places
<1>2. EndedIsDead'
  BY EndsAreDead DEF EndedIsDead, StartCall
<1>3. EveryLeaderIsTracked'
  BY EndsAreDead DEF Supervision, TypeOK, EveryLeaderIsTracked, StartCall, Goto
<1>4. Born'
  BY EndsAreDead DEF Supervision, TypeOK, Born, StartCall, Seen
<1>5. Claims'
  BY DEF Supervision, TypeOK, Claims, StartCall, Goto
<1>6. AtRest'
  BY DEF AtRest, StartCall
<1> QED BY <1>1, <1>2, <1>3, <1>4, <1>5, <1>6 DEF Supervision

\* A start that fails leaves nothing behind.
LEMMA StartFailsKeeps ==
    ASSUME Supervision, NEW t \in Threads, StartFails(t)
    PROVE  Supervision'
<1>1. TypeOK'
  BY DEF Supervision, TypeOK, StartFails, Goto, records, machine, Places
<1>2. EndedIsDead'
  BY DEF Supervision, EndedIsDead, StartFails, records, machine
<1>3. EveryLeaderIsTracked'
  BY DEF Supervision, EveryLeaderIsTracked, StartFails, Goto, records, machine
<1>4. Born'
  BY DEF Supervision, Born, StartFails, records, machine
<1>5. Claims'
  BY DEF Supervision, Claims, StartFails, Goto, records, machine
<1>6. AtRest'
  BY DEF Supervision, AtRest, StartFails
<1> QED BY <1>1, <1>2, <1>3, <1>4, <1>5, <1>6 DEF Supervision

\* A new leader is tracked by the call that spawned it.
LEMMA SpawnKeeps ==
    ASSUME Supervision, NEW t \in Threads, Spawn(t)
    PROVE  Supervision'
<1>1. TypeOK'
  BY DEF Supervision, TypeOK, Spawn, Goto, Active, Places
<1>2. EndedIsDead'
  BY DEF Supervision, EndedIsDead, Spawn, Ended
<1>3. EveryLeaderIsTracked'
  BY DEF Supervision, TypeOK, EveryLeaderIsTracked, Spawn, Goto
<1>4. Born'
  BY DEF Supervision, TypeOK, Born, Spawn, Alive, Exited
<1>5. Claims'
  BY DEF Supervision, TypeOK, Born, Claims, Spawn, Goto
<1>6. AtRest'
  BY DEF Supervision, AtRest, Spawn
<1> QED BY <1>1, <1>2, <1>3, <1>4, <1>5, <1>6 DEF Supervision

\* A settled process is listed, active unless its leader is gone.
LEMMA SettleKeeps ==
    ASSUME Supervision, NEW t \in Threads, Settle(t)
    PROVE  Supervision'
<1>1. TypeOK'
  BY EndsAreDead DEF Supervision, TypeOK, Claims, Settle, Goto, Seen, Active, Places
<1>2. EndedIsDead'
  BY DEF Supervision, EndedIsDead, Settle, Ended
<1>3. EveryLeaderIsTracked'
  BY DEF Supervision, EveryLeaderIsTracked, Claims, Settle, Goto, Active, Alive, Exited
<1>4. Born'
  BY EndsAreDead DEF Supervision, Born, Claims, Settle, Seen
<1>5. Claims'
  BY DEF Supervision, TypeOK, Claims, Settle, Goto
<1>6. AtRest'
  BY DEF Supervision, AtRest, Settle
<1> QED BY <1>1, <1>2, <1>3, <1>4, <1>5, <1>6 DEF Supervision

\* A call to stop has a listed process in hand.
LEMMA StopCallKeeps ==
    ASSUME Supervision, NEW t \in Threads, NEW p \in Pids, StopCall(t, p)
    PROVE  Supervision'
<1>1. TypeOK'
  BY EndsAreDead DEF Supervision, TypeOK, StopCall, Goto, Seen, Places
<1>2. EndedIsDead'
  BY EndsAreDead DEF EndedIsDead, StopCall
<1>3. EveryLeaderIsTracked'
  BY EndsAreDead DEF Supervision, TypeOK, EveryLeaderIsTracked, StopCall, Goto
<1>4. Born'
  BY EndsAreDead DEF Supervision, Born, StopCall, Seen
<1>5. Claims'
  BY DEF Supervision, TypeOK, Claims, StopCall, Goto
<1>6. AtRest'
  BY DEF AtRest, StopCall
<1> QED BY <1>1, <1>2, <1>3, <1>4, <1>5, <1>6 DEF Supervision

\* A process that is signalled is STOPPING, whatever became of its group.
LEMMA SignalKeeps ==
    ASSUME Supervision, NEW t \in Threads, Signal(t)
    PROVE  Supervision'
<1>1. TypeOK'
  BY DEF Supervision, TypeOK, Claims, Signal, Terminated, Goto, Active, Places
<1>2. EndedIsDead'
  BY DEF Supervision, TypeOK, EndedIsDead, Signal, Terminated, Ended
<1>3. EveryLeaderIsTracked'
  BY DEF Supervision, TypeOK, EveryLeaderIsTracked, Signal, Terminated, Goto, Active, Exited
<1>4. Born'
  BY DEF Supervision, TypeOK, Born, Claims, Signal, Terminated, Exited
<1>5. Claims'
  BY DEF Supervision, TypeOK, Born, Claims, Signal, Terminated, Goto
<1>6. AtRest'
  BY DEF Supervision, AtRest, Signal
<1> QED BY <1>1, <1>2, <1>3, <1>4, <1>5, <1>6 DEF Supervision

\* The exit that a wait collects has happened.
LEMMA LeaderGoneKeeps ==
    ASSUME Supervision, NEW t \in Threads, LeaderGone(t)
    PROVE  Supervision'
<1>1. TypeOK'
  BY DEF Supervision, TypeOK, Claims, LeaderGone, Goto, records, Places
<1>2. EndedIsDead'
  BY DEF Supervision, EndedIsDead, LeaderGone, records
<1>3. EveryLeaderIsTracked'
  BY DEF Supervision, EveryLeaderIsTracked, LeaderGone, Goto, records
<1>4. Born'
  BY DEF Supervision, Born, LeaderGone, records
<1>5. Claims'
  BY DEF Supervision, Claims, LeaderGone, Goto, records
<1>6. AtRest'
  BY DEF Supervision, AtRest, LeaderGone
<1> QED BY <1>1, <1>2, <1>3, <1>4, <1>5, <1>6 DEF Supervision

\* A killed leader is dead.
LEMMA KillKeeps ==
    ASSUME Supervision, NEW t \in Threads, Kill(t)
    PROVE  Supervision'
<1>1. TypeOK'
  BY DEF Supervision, TypeOK, Kill, Killed, records, Exited
<1>2. EndedIsDead'
  BY DEF Supervision, EndedIsDead, Kill, Killed, records, Exited
<1>3. EveryLeaderIsTracked'
  BY DEF Supervision, EveryLeaderIsTracked, Kill, Killed, records
<1>4. Born'
  BY DEF Supervision, Born, Kill, Killed, records, Alive, Exited
<1>5. Claims'
  BY DEF Supervision, Claims, Kill, Killed, records, Exited
<1>6. AtRest'
  BY DEF Supervision, AtRest, Kill
<1> QED BY <1>1, <1>2, <1>3, <1>4, <1>5, <1>6 DEF Supervision

\* A finished stop ends the record of a dead leader.
LEMMA FinishKeeps ==
    ASSUME Supervision, NEW t \in Threads, Finish(t)
    PROVE  Supervision'
<1>1. TypeOK'
  BY EndsAreDead DEF Supervision, TypeOK, Claims, Finish, Goto, machine, Places
<1>2. EndedIsDead'
  BY DEF Supervision, EndedIsDead, Claims, Finish, machine
<1>3. EveryLeaderIsTracked'
  BY DEF Supervision, EveryLeaderIsTracked, Claims, Finish, Goto, machine, Alive, Exited
<1>4. Born'
  BY EndsAreDead DEF Supervision, TypeOK, Born, Finish, machine
<1>5. Claims'
  BY DEF Supervision, TypeOK, Claims, Finish, Goto, machine
<1>6. AtRest'
  BY DEF Supervision, AtRest, Finish
<1> QED BY <1>1, <1>2, <1>3, <1>4, <1>5, <1>6 DEF Supervision

\* A reader polls a dead leader.
LEMMA PollKeeps ==
    ASSUME Supervision, NEW t \in Threads, NEW p \in Pids, Poll(t, p)
    PROVE  Supervision'
<1>1. TypeOK'
  BY DEF Supervision, TypeOK, Poll, Goto, records, Places
<1>2. EndedIsDead'
  BY DEF Supervision, EndedIsDead, Poll, records
<1>3. EveryLeaderIsTracked'
  BY DEF Supervision, EveryLeaderIsTracked, Poll, Goto, records
<1>4. Born'
  BY DEF Supervision, Born, Poll, Seen, records
<1>5. Claims'
  BY DEF Supervision, TypeOK, Claims, Poll, Goto, Seen, records
<1>6. AtRest'
  BY DEF AtRest, Poll
<1> QED BY <1>1, <1>2, <1>3, <1>4, <1>5, <1>6 DEF Supervision

\* What a reader then writes is of the same dead leader.
LEMMA MarkKeeps ==
    ASSUME Supervision, NEW t \in Threads, Mark(t)
    PROVE  Supervision'
<1>1. TypeOK'
  BY DEF Supervision, TypeOK, Mark, AfterExit, Goto, machine, Ended, Places
<1>2. EndedIsDead'
  BY DEF Supervision, EndedIsDead, Claims, Mark, machine
<1>3. EveryLeaderIsTracked'
  BY DEF Supervision, EveryLeaderIsTracked, Claims, Mark, Goto, machine, Alive, Exited
<1>4. Born'
  BY DEF Supervision, Born, Claims, Mark, AfterExit, machine
<1>5. Claims'
  BY DEF Supervision, TypeOK, Claims, Mark, Goto, machine
<1>6. AtRest'
  BY DEF Supervision, AtRest, Mark
<1> QED BY <1>1, <1>2, <1>3, <1>4, <1>5, <1>6 DEF Supervision

-----------------------------------------------------------------------------
(* The processes, the end of the server, and the theorems.                 *)

\* A leader or a worker that ends by itself disturbs nothing.
LEMMA ExitsKeep ==
    ASSUME Supervision, NEW p \in Pids, LeaderExits(p) \/ WorkerExits(p)
    PROVE  Supervision'
<1>1. CASE LeaderExits(p)
  BY <1>1, MachineStep DEF LeaderExits, records, Supervision, TypeOK
<1>2. CASE WorkerExits(p)
  BY <1>2, MachineStep DEF WorkerExits, records, Supervision, TypeOK
<1> QED BY <1>1, <1>2

\* What shutdown_all calls STOPPED is dead when it goes on to the next.
LEMMA ShutdownKeeps ==
    ASSUME Supervision, NEW p \in Pids, Shutdown(p)
    PROVE  Supervision'
<1>0. leader'[p] \in Exited
  BY DEF Supervision, TypeOK, Born, Shutdown, Killed, Terminated, Alive, Exited
<1>a. /\ leader' \in [Pids -> Alive \cup Exited \cup {"none"}] /\ worker' \in [Pids -> Alive \cup {"none"}]
      /\ \A q \in Pids \ {p} : leader'[q] = leader[q]
  BY DEF Supervision, TypeOK, Shutdown, Killed, Terminated, Alive, Exited
<1>b. server = "closing" /\ UNCHANGED <<listed, pc, arg, server, stopped>> /\ p \in listed
      /\ status' = [status EXCEPT ![p] = "STOPPED"] /\ reaped' = reaped \cup {p}
  BY DEF Shutdown
<1>1. TypeOK'
  BY <1>a, <1>b DEF Supervision, TypeOK, Ended
<1>2. EndedIsDead' /\ EveryLeaderIsTracked'
  BY <1>0, <1>a, <1>b DEF Supervision, TypeOK, EndedIsDead, EveryLeaderIsTracked, Alive, Exited
<1>3. Born'
  BY <1>0, <1>a, <1>b DEF Supervision, TypeOK, Born, Shutdown, Active, Exited
<1>4. Claims'
  BY <1>0, <1>a, <1>b DEF Supervision, TypeOK, Claims
<1>5. AtRest'
  BY <1>b DEF AtRest
<1> QED BY <1>1, <1>2, <1>3, <1>4, <1>5 DEF Supervision

\* Closing changes nothing else, and the server exits only at rest.
LEMMA EndKeeps ==
    ASSUME Supervision, Close \/ Exit
    PROVE  Supervision'
<1>1. UNCHANGED <<records, machine, pc, arg, stopped>>
  BY DEF Close, Exit
<1>2. TypeOK' /\ EndedIsDead' /\ EveryLeaderIsTracked' /\ Born' /\ Claims'
  BY <1>1 DEF Supervision, TypeOK, EndedIsDead, EveryLeaderIsTracked, Born, Claims, records,
        machine, Close, Exit
<1>3. AtRest'
  BY <1>1 DEF AtRest, Close, Exit, records
<1> QED BY <1>2, <1>3 DEF Supervision

\* Records, processes and calls agree at every moment, whatever the threads,
\* the processes and the shutdown do between one another's steps
\* (process_manager.py, start, stop, _refresh, shutdown_all).
THEOREM SupervisionHolds == Spec => []Supervision
<1>1. Supervision /\ [Next]_vars => Supervision'
  <2> SUFFICES ASSUME Supervision, [Next]_vars PROVE Supervision'
    OBVIOUS
  <2>1. CASE UNCHANGED vars
    BY <2>1 DEF vars, records, machine, Supervision, TypeOK, EndedIsDead, EveryLeaderIsTracked,
          Born, Claims, AtRest
  <2>2. ASSUME NEW t \in Threads, StartCall(t) PROVE Supervision'
    BY <2>2, StartCallKeeps
  <2>3. ASSUME NEW t \in Threads, Serve(t) PROVE Supervision'
    BY <2>3, StartFailsKeeps, SpawnKeeps, SettleKeeps, SignalKeeps, LeaderGoneKeeps, KillKeeps,
       FinishKeeps, MarkKeeps DEF Serve
  <2>4. ASSUME NEW t \in Threads, NEW p \in Pids, StopCall(t, p) \/ Poll(t, p) PROVE Supervision'
    BY <2>4, StopCallKeeps, PollKeeps
  <2>5. ASSUME NEW p \in Pids, LeaderExits(p) \/ WorkerExits(p) \/ Shutdown(p) PROVE Supervision'
    BY <2>5, ExitsKeep, ShutdownKeeps
  <2>6. CASE Close \/ Exit
    BY <2>6, EndKeeps
  <2> QED BY <2>1, <2>2, <2>3, <2>4, <2>5, <2>6 DEF Next
<1> QED BY InitSupervision, <1>1, PTL DEF Spec

\* No leader survives the server, as main and atexit wait for the calls under
\* way before the last shutdown_all (__main__.py, process_manager.py).
THEOREM NoOrphanedLeader == Spec => []NothingOutlivesTheServer
<1>1. Supervision => NothingOutlivesTheServer
  BY DEF Supervision, EveryLeaderIsTracked, AtRest, NothingOutlivesTheServer
<1> QED BY <1>1, SupervisionHolds, PTL

(***************************************************************************)
(* ToolCatalog, for any runs, servers and tools: a registry is whole and   *)
(* right, every session has an owner, and a dead server that was noticed   *)
(* stays unlisted. Induction needs what a registry holds half way, and     *)
(* that nothing can put a dead server's catalog back.                      *)
(***************************************************************************)

\* The registry after the first k servers.
Prefix(k) == [t \in {u \in Tools : \E i \in 1..k : u \in Offers(Servers[i])} |-> FirstClaim(t)]

\* A catalog that is kept is the whole of what its server lists.
CatalogsAreWhole == \A x \in Sessions : cache[x] # None => cache[x] = Offers(x[2])

\* A session is known to be dead, and no answer of it is on the way.
NoticedStaysDead == \A x \in noticed : x \in dead /\ cache[x] = None /\ x \notin answered

\* How far a run has come with its registry.
Building(r) ==
    /\ phase[r] = "opening" => through[r] = r
    /\ phase[r] = "idle" => at[r] = 0
    /\ phase[r] \in {"idle", "opening"} => registry[r] = Prefix(0)
    /\ phase[r] = "refreshing" => registry[r] = Prefix(at[r])
    /\ phase[r] \in {"ready", "calling"} => registry[r] = Prefix(NumServers)

CatalogInv ==
    /\ CatalogTypes /\ DiscoveryIsOwned /\ CatalogsAreWhole /\ NoticedStaysDead
    /\ DOMAIN registry = Runs /\ \A r \in Runs : Building(r)
    /\ SessionsAreAccountedFor

-----------------------------------------------------------------------------
(* Registries.                                                             *)

\* The next server, or after the last one the first.
LEMMA NextServer ==
    ASSUME NEW k \in 0..NumServers - 1
    PROVE  /\ k + 1 \in 1..NumServers
           /\ (k + 1) % NumServers \in 0..NumServers - 1
           /\ (k + 1) % NumServers = 0 <=> k + 1 = NumServers
           /\ (k + 1) % NumServers # 0 => (k + 1) % NumServers = k + 1
<1>1. NumServers \in Nat
  BY ServersAssumption DEF NumServers
<1> DEFINE n == NumServers
<1> HIDE DEF n
<1> QED BY <1>1

\* A tool that is listed by the next server and by none before is its.
LEMMA FirstClaimIs ==
    ASSUME NEW k \in 0..NumServers - 1, NEW t \in Tools,
           t \in Offers(Servers[k + 1]), \A i \in 1..k : t \notin Offers(Servers[i])
    PROVE  FirstClaim(t) = Servers[k + 1]
<1> DEFINE claims == {i \in 1..NumServers : t \in Offers(Servers[i])}
<1>1. NumServers \in Nat
  BY ServersAssumption DEF NumServers
<1>2. k + 1 \in claims /\ \A j \in claims : k + 1 <= j
  BY <1>1
<1>3. \A i \in claims : (\A j \in claims : i <= j) => i = k + 1
  BY <1>1, <1>2
<1>4. (CHOOSE i \in claims : \A j \in claims : i <= j) = k + 1
  BY <1>2, <1>3
<1> QED BY <1>4 DEF FirstClaim

\* What refresh() makes of the next list.
LEMMA MergeIs ==
    ASSUME NEW k \in 0..NumServers - 1
    PROVE  Merge(Prefix(k), Servers[k + 1], Offers(Servers[k + 1])) = Prefix(k + 1)
<1> DEFINE Listed(j) == {u \in Tools : \E i \in 1..j : u \in Offers(Servers[i])}
<1>1. NumServers \in Nat
  BY ServersAssumption DEF NumServers
<1>2. Listed(k) \cup Offers(Servers[k + 1]) = Listed(k + 1)
  BY <1>1 DEF Offers
<1>3. \A t \in Listed(k + 1) : t \notin Listed(k) => FirstClaim(t) = Servers[k + 1]
  BY <1>2, FirstClaimIs
<1>4. Prefix(k) = [t \in Listed(k) |-> FirstClaim(t)] /\ Prefix(k + 1) = [t \in Listed(k + 1) |-> FirstClaim(t)]
  BY DEF Prefix
<1> HIDE DEF Listed
<1>5. DOMAIN Prefix(k) = Listed(k)
  BY <1>4
<1> QED BY <1>2, <1>3, <1>4, <1>5 DEF Merge

\* Nothing is registered before the first server.
LEMMA EmptyIs == Empty = Prefix(0)
BY DEF Empty, Prefix

\* A whole registry is the one that is right.
LEMMA PrefixIs == Prefix(NumServers) = [t \in UNION {Offers(s) : s \in ServerSet} |-> FirstClaim(t)]
<1>1. {u \in Tools : \E i \in 1..NumServers : u \in Offers(Servers[i])} = UNION {Offers(s) : s \in ServerSet}
  BY DEF ServerSet, NumServers, Offers
<1> QED BY <1>1 DEF Prefix

\* Nothing is open and nobody has come.
LEMMA InitRight == CatalogInit => CatalogInv
<1> SUFFICES ASSUME CatalogInit PROVE CatalogInv
  OBVIOUS
<1>1. CatalogTypes
  <2>1. 0 \in 0..NumServers - 1
    BY ServersAssumption DEF NumServers
  <2>2. at \in [Runs -> 0..NumServers - 1]
    BY <2>1 DEF CatalogInit
  <2>3. made \in [Runs -> 0..MaxRunCalls]
    BY BoundsAssumption DEF CatalogInit
  <2>4. cache \in [Sessions -> (SUBSET Tools) \cup {None}] /\ holder \in [Sessions -> Runs \cup {None}]
    <3>1. \A T : None \in T => [x \in Sessions |-> None] \in [Sessions -> T]
      OBVIOUS
    <3> QED BY <3>1 DEF CatalogInit
  <2>5. /\ phase \in [Runs -> {"idle", "opening", "refreshing", "ready", "calling", "ended"}]
        /\ through \in [Runs -> Runs \cup {Pool}]
    BY DEF CatalogInit
  <2>6. /\ pool \in {"starting", "open", "failed", "closing", "closed"}
        /\ open \subseteq Sessions /\ dead \subseteq Sessions /\ noticed \subseteq Sessions
        /\ answered \subseteq Sessions
    BY DEF CatalogInit
  <2> QED BY <2>2, <2>3, <2>4, <2>5, <2>6 DEF CatalogTypes
<1>2. DiscoveryIsOwned /\ CatalogsAreWhole /\ NoticedStaysDead /\ SessionsAreAccountedFor
  BY DEF CatalogInit, DiscoveryIsOwned, CatalogsAreWhole, NoticedStaysDead,
        SessionsAreAccountedFor
<1>3. DOMAIN registry = Runs /\ \A r \in Runs : Building(r)
  BY EmptyIs DEF CatalogInit, Building
<1> QED BY <1>1, <1>2, <1>3 DEF CatalogInv

-----------------------------------------------------------------------------
(* Steps of the pool, the probe and the servers.                           *)

\* What opens and closes sessions without a run touches no catalog.
LEMMA SessionsOnly ==
    ASSUME CatalogInv, UNCHANGED <<dead, noticed, sourceVars, runVars>>,
           pool' \in {"starting", "open", "failed", "closing", "closed"}, open' \subseteq Sessions,
           SessionsAreAccountedFor'
    PROVE  CatalogInv'
<1>1. /\ dead' = dead /\ noticed' = noticed /\ cache' = cache /\ holder' = holder /\ answered' = answered
      /\ phase' = phase /\ through' = through /\ at' = at /\ registry' = registry /\ busy' = busy /\ made' = made
  BY DEF sourceVars, runVars
<1>2. CatalogTypes'
  BY <1>1 DEF CatalogInv, CatalogTypes
<1>3. DiscoveryIsOwned' /\ CatalogsAreWhole' /\ NoticedStaysDead'
  BY <1>1 DEF CatalogInv, DiscoveryIsOwned, Source, CatalogsAreWhole, NoticedStaysDead
<1>4. DOMAIN registry' = Runs /\ \A r \in Runs : Building(r)'
  BY <1>1 DEF CatalogInv, Building
<1> QED BY <1>2, <1>3, <1>4 DEF CatalogInv

\* The pool's and the probe's sessions are theirs.
LEMMA PoolAndProbe ==
    ASSUME CatalogInv,
           \/ PoolFails \/ PoolCloses \/ PoolClosed
           \/ \E s \in ServerSet : PoolOpens(s) \/ ProbeConnects(s) \/ ProbeEnds(s)
    PROVE  CatalogInv'
<1>1. /\ pool \in {"starting", "open", "failed", "closing", "closed"} /\ open \subseteq Sessions
      /\ SessionsAreAccountedFor
  BY DEF CatalogInv, CatalogTypes
<1>2. \A s \in ServerSet : <<Pool, s>> \in Sessions /\ <<Probe, s>> \in Sessions
  BY DEF Sessions
<1>3. CASE \E s \in ServerSet : PoolOpens(s)
  <2>1. PICK s \in ServerSet : PoolOpens(s)
    BY <1>3
  <2>2. /\ pool = "starting" /\ open' = open \cup {<<Pool, s>>} /\ pool' \in {"starting", "open"}
        /\ UNCHANGED <<dead, noticed, sourceVars, runVars>>
    BY <2>1 DEF PoolOpens
  <2>3. SessionsAreAccountedFor'
    BY <1>1, <2>2 DEF SessionsAreAccountedFor, runVars
  <2> QED BY <1>1, <1>2, <2>2, <2>3, SessionsOnly
<1>4. CASE PoolFails \/ PoolClosed
  <2>1. /\ open' = {x \in open : x[1] # Pool} /\ pool' \in {"failed", "closed"}
        /\ UNCHANGED <<dead, noticed, sourceVars, runVars>>
    BY <1>4 DEF PoolFails, PoolClosed
  <2>2. SessionsAreAccountedFor'
    BY <1>1, <2>1 DEF SessionsAreAccountedFor, runVars
  <2> QED BY <1>1, <2>1, <2>2, SessionsOnly
<1>5. CASE PoolCloses
  <2>1. pool' = "closing" /\ open' = open /\ UNCHANGED <<dead, noticed, sourceVars, runVars>>
    BY <1>5 DEF PoolCloses, serverVars
  <2>2. SessionsAreAccountedFor'
    BY <1>1, <2>1 DEF SessionsAreAccountedFor, runVars
  <2> QED BY <1>1, <2>1, <2>2, SessionsOnly
<1>6. CASE \E s \in ServerSet : ProbeConnects(s) \/ ProbeEnds(s)
  <2>1. PICK s \in ServerSet : ProbeConnects(s) \/ ProbeEnds(s)
    BY <1>6
  <2>2. /\ open' \subseteq open \cup {<<Probe, s>>} /\ pool' = pool
        /\ UNCHANGED <<dead, noticed, sourceVars, runVars>>
    BY <2>1 DEF ProbeConnects, ProbeEnds
  <2>3. SessionsAreAccountedFor'
    BY <1>1, <2>2 DEF SessionsAreAccountedFor, runVars
  <2> QED BY <1>1, <1>2, <2>2, <2>3, SessionsOnly
<1> QED BY <1>3, <1>4, <1>5, <1>6

\* A server answers while it lives, or dies.
LEMMA ServersMove ==
    ASSUME CatalogInv, NEW x \in Sessions, ServerAnswers(x) \/ Crash(x)
    PROVE  CatalogInv'
<1>1. /\ pool' = pool /\ open' = open /\ noticed' = noticed /\ cache' = cache /\ holder' = holder
      /\ phase' = phase /\ through' = through /\ at' = at /\ registry' = registry /\ busy' = busy /\ made' = made
  BY DEF ServerAnswers, Crash, serverVars, sourceVars, runVars
<1>2. \/ answered' = answered /\ dead' = dead \cup {x}
      \/ answered' = answered \cup {x} /\ dead' = dead /\ x \notin dead /\ holder[x] # None
  BY DEF ServerAnswers, Crash, Up, sourceVars, serverVars
<1>3. CatalogTypes'
  BY <1>1, <1>2 DEF CatalogInv, CatalogTypes
<1>4. DiscoveryIsOwned' /\ CatalogsAreWhole' /\ NoticedStaysDead'
  BY <1>1, <1>2 DEF CatalogInv, DiscoveryIsOwned, Source, CatalogsAreWhole, NoticedStaysDead
<1>5. DOMAIN registry' = Runs /\ \A r \in Runs : Building(r)'
  BY <1>1 DEF CatalogInv, Building
<1>6. SessionsAreAccountedFor'
  BY <1>1 DEF CatalogInv, SessionsAreAccountedFor
<1> QED BY <1>3, <1>4, <1>5, <1>6 DEF CatalogInv

-----------------------------------------------------------------------------
(* Steps of a run.                                                         *)

\* The source a run is refreshing from is a session.
LEMMA SourceIs ==
    ASSUME CatalogInv, NEW r \in Runs
    PROVE  Source(r) \in Sessions /\ Source(r)[1] = through[r] /\ Source(r)[2] = Servers[at[r] + 1]
<1>1. at[r] + 1 \in 1..NumServers /\ through[r] \in Runs \cup {Pool}
  BY NextServer DEF CatalogInv, CatalogTypes
<1>2. Servers[at[r] + 1] \in ServerSet
  BY <1>1 DEF ServerSet, NumServers
<1> QED BY <1>1, <1>2 DEF Source, Sessions

\* A run that is not inside a discovery lock may do what it likes with its own
\* variables: no discovery is disturbed.
LEMMA OwnedStays ==
    ASSUME CatalogInv, NEW r \in Runs, \A x \in Sessions : holder[x] # r,
           UNCHANGED <<cache, holder, answered>>,
           \A q \in Runs : q # r => phase'[q] = phase[q] /\ through'[q] = through[q] /\ at'[q] = at[q]
    PROVE  DiscoveryIsOwned'
<1>1. \A x \in Sessions : holder[x] # None => holder[x] \in Runs \ {r}
  BY DEF CatalogInv, CatalogTypes
<1> QED BY <1>1 DEF CatalogInv, DiscoveryIsOwned, Source

\* Outside "refreshing" it is not.
LEMMA HoldsNothing ==
    ASSUME CatalogInv, NEW r \in Runs,
           phase[r] # "refreshing" \/ cache[Source(r)] # None \/ holder[Source(r)] # r
    PROVE  \A x \in Sessions : holder[x] # r
BY NamesAssumption DEF CatalogInv, DiscoveryIsOwned, Users

\* A run starts.
LEMMA StartRight ==
    ASSUME CatalogInv, NEW r \in Runs, StartRun(r)
    PROVE  CatalogInv'
<1>1. /\ phase[r] = "idle"
      /\ \/ through' = [through EXCEPT ![r] = Pool] /\ phase' = [phase EXCEPT ![r] = "refreshing"]
         \/ through' = [through EXCEPT ![r] = r] /\ phase' = [phase EXCEPT ![r] = "opening"]
      /\ UNCHANGED <<pool, open, dead, noticed, cache, holder, answered, at, registry, busy, made>>
  BY DEF StartRun, serverVars, sourceVars
<1>2. CatalogTypes'
  BY <1>1 DEF CatalogInv, CatalogTypes
<1>3. DiscoveryIsOwned'
  BY <1>1, HoldsNothing, OwnedStays DEF CatalogInv, CatalogTypes
<1>4. CatalogsAreWhole' /\ NoticedStaysDead'
  BY <1>1 DEF CatalogInv, CatalogsAreWhole, NoticedStaysDead
<1>5. DOMAIN registry' = Runs /\ \A q \in Runs : Building(q)'
  BY <1>1 DEF CatalogInv, CatalogTypes, Building
<1>6. SessionsAreAccountedFor'
  BY <1>1 DEF CatalogInv, CatalogTypes, SessionsAreAccountedFor
<1> QED BY <1>2, <1>3, <1>4, <1>5, <1>6 DEF CatalogInv

\* It opens a session of its own.
LEMMA OpenRight ==
    ASSUME CatalogInv, NEW r \in Runs, OpenOwn(r)
    PROVE  CatalogInv'
<1> DEFINE next == (at[r] + 1) % NumServers
<1>1. /\ phase[r] = "opening" /\ open' = open \cup {Source(r)}
      /\ at' = [at EXCEPT ![r] = next]
      /\ phase' = [phase EXCEPT ![r] = IF next = 0 THEN "refreshing" ELSE "opening"]
      /\ UNCHANGED <<pool, dead, noticed, cache, holder, answered, through, registry, busy, made>>
  BY DEF OpenOwn, sourceVars, CatalogInv, CatalogTypes
<1>2. next \in 0..NumServers - 1
  BY NextServer DEF CatalogInv, CatalogTypes
<1> HIDE DEF next
<1>3. CatalogTypes'
  BY <1>1, <1>2, SourceIs DEF CatalogInv, CatalogTypes
<1>4. DiscoveryIsOwned'
  BY <1>1, HoldsNothing, OwnedStays DEF CatalogInv, CatalogTypes
<1>5. CatalogsAreWhole' /\ NoticedStaysDead'
  BY <1>1 DEF CatalogInv, CatalogsAreWhole, NoticedStaysDead
<1>6. DOMAIN registry' = Runs /\ \A q \in Runs : Building(q)'
  BY <1>1 DEF CatalogInv, CatalogTypes, Building
<1>7. SessionsAreAccountedFor'
  <2>1. Source(r)[1] = r /\ through[r] = r
    BY <1>1, SourceIs DEF CatalogInv, Building
  <2> QED BY <1>1, <2>1 DEF CatalogInv, CatalogTypes, SessionsAreAccountedFor
<1> QED BY <1>3, <1>4, <1>5, <1>6, <1>7 DEF CatalogInv

\* The run is over.
LEMMA EndRight ==
    ASSUME CatalogInv, NEW r \in Runs, EndRun(r)
    PROVE  CatalogInv'
<1>1. /\ phase' = [phase EXCEPT ![r] = "ended"] /\ open' = {x \in open : x[1] # r}
      /\ holder' = [x \in Sessions |-> IF holder[x] = r THEN None ELSE holder[x]]
      /\ answered' = {x \in answered : holder[x] # r}
      /\ UNCHANGED <<pool, dead, noticed, cache, through, at, registry, busy, made>>
  BY DEF EndRun
<1>2. CatalogTypes'
  BY <1>1 DEF CatalogInv, CatalogTypes
<1>3. DiscoveryIsOwned'
  BY <1>1 DEF CatalogInv, CatalogTypes, DiscoveryIsOwned, Source
<1>4. CatalogsAreWhole' /\ NoticedStaysDead'
  BY <1>1 DEF CatalogInv, CatalogsAreWhole, NoticedStaysDead
<1>5. DOMAIN registry' = Runs /\ \A q \in Runs : Building(q)'
  BY <1>1 DEF CatalogInv, CatalogTypes, Building
<1>6. SessionsAreAccountedFor'
  BY <1>1 DEF CatalogInv, CatalogTypes, SessionsAreAccountedFor
<1> QED BY <1>2, <1>3, <1>4, <1>5, <1>6 DEF CatalogInv

\* It adds the list of one source to its registry.
LEMMA UseListBuilds ==
    ASSUME CatalogInv, NEW r \in Runs, phase[r] = "refreshing",
           UseList(r, Offers(Source(r)[2])), through' = through, busy' = busy
    PROVE  /\ phase' \in [Runs -> {"idle", "opening", "refreshing", "ready", "calling", "ended"}]
           /\ phase'[r] \in {"refreshing", "ready"}
           /\ at' \in [Runs -> 0..NumServers - 1]
           /\ \A q \in Runs : q # r => phase'[q] = phase[q] /\ at'[q] = at[q]
           /\ DOMAIN registry' = Runs /\ \A q \in Runs : Building(q)'
<1> DEFINE next == (at[r] + 1) % NumServers
<1>1. /\ registry' = [registry EXCEPT ![r] = Merge(registry[r], Servers[at[r] + 1], Offers(Source(r)[2]))]
      /\ at' = [at EXCEPT ![r] = next]
      /\ phase' = [phase EXCEPT ![r] = IF next = 0 THEN "ready" ELSE "refreshing"]
  BY DEF UseList, CatalogInv, CatalogTypes
<1>2. /\ next \in 0..NumServers - 1
      /\ next = 0 <=> at[r] + 1 = NumServers
      /\ next # 0 => next = at[r] + 1
      /\ at[r] \in 0..NumServers - 1
  BY NextServer DEF CatalogInv, CatalogTypes
<1>3. Merge(registry[r], Servers[at[r] + 1], Offers(Source(r)[2])) = Prefix(at[r] + 1)
  <2>1. registry[r] = Prefix(at[r]) /\ Source(r)[2] = Servers[at[r] + 1]
    BY SourceIs DEF CatalogInv, Building
  <2> QED BY <1>2, <2>1, MergeIs
<1> HIDE DEF next
<1>4. phase'[r] = IF next = 0 THEN "ready" ELSE "refreshing"
  BY <1>1 DEF CatalogInv, CatalogTypes
<1>5. /\ DOMAIN registry' = Runs /\ registry'[r] = Prefix(at[r] + 1)
      /\ \A q \in Runs : q # r => phase'[q] = phase[q] /\ at'[q] = at[q] /\ registry'[q] = registry[q]
  BY <1>1, <1>3 DEF CatalogInv, CatalogTypes
<1>6. at' \in [Runs -> 0..NumServers - 1] /\ at'[r] = next
  BY <1>1, <1>2 DEF CatalogInv, CatalogTypes
<1>7. phase' \in [Runs -> {"idle", "opening", "refreshing", "ready", "calling", "ended"}]
  BY <1>1 DEF CatalogInv, CatalogTypes
<1>8. ASSUME NEW q \in Runs
      PROVE  Building(q)'
  <2>1. CASE q = r /\ next = 0
    BY <1>2, <1>4, <1>5, <2>1 DEF Building
  <2>2. CASE q = r /\ next # 0
    BY <1>2, <1>4, <1>5, <1>6, <2>2 DEF Building
  <2>3. CASE q # r
    BY <1>5, <2>3 DEF CatalogInv, Building
  <2> QED BY <2>1, <2>2, <2>3
<1> QED BY <1>4, <1>5, <1>6, <1>7, <1>8

\* It takes a catalog that is kept.
LEMMA TakeRight ==
    ASSUME CatalogInv, NEW r \in Runs, TakeCatalog(r)
    PROVE  CatalogInv'
<1>1. /\ phase[r] = "refreshing" /\ cache[Source(r)] # None
      /\ UNCHANGED <<pool, open, dead, noticed, cache, holder, answered, through, busy, made>>
  BY DEF TakeCatalog, serverVars, sourceVars
<1>2. UseList(r, Offers(Source(r)[2]))
  BY <1>1, SourceIs DEF TakeCatalog, CatalogInv, CatalogsAreWhole
<1>3. /\ phase' \in [Runs -> {"idle", "opening", "refreshing", "ready", "calling", "ended"}]
      /\ phase'[r] \in {"refreshing", "ready"}
      /\ at' \in [Runs -> 0..NumServers - 1]
      /\ \A q \in Runs : q # r => phase'[q] = phase[q] /\ at'[q] = at[q]
      /\ DOMAIN registry' = Runs /\ \A q \in Runs : Building(q)'
  BY <1>1, <1>2, UseListBuilds
<1>4. CatalogTypes'
  BY <1>1, <1>3 DEF CatalogInv, CatalogTypes
<1>5. DiscoveryIsOwned'
  BY <1>1, <1>3, HoldsNothing, OwnedStays
<1>6. CatalogsAreWhole' /\ NoticedStaysDead'
  BY <1>1 DEF CatalogInv, CatalogsAreWhole, NoticedStaysDead
<1>7. SessionsAreAccountedFor'
  BY <1>1, <1>3 DEF CatalogInv, CatalogTypes, SessionsAreAccountedFor
<1> QED BY <1>3, <1>4, <1>5, <1>6, <1>7 DEF CatalogInv

\* It enters the discovery lock.
LEMMA DiscoverRight ==
    ASSUME CatalogInv, NEW r \in Runs, Discover(r)
    PROVE  CatalogInv'
<1>1. /\ phase[r] = "refreshing" /\ cache[Source(r)] = None /\ holder[Source(r)] = None
      /\ holder' = [holder EXCEPT ![Source(r)] = r]
      /\ UNCHANGED <<pool, open, dead, noticed, cache, answered, phase, through, at, registry, busy, made>>
  BY DEF Discover, serverVars, runVars
<1>2. CatalogTypes'
  BY <1>1 DEF CatalogInv, CatalogTypes
<1>3. DiscoveryIsOwned'
  BY <1>1, SourceIs, NamesAssumption DEF CatalogInv, CatalogTypes, DiscoveryIsOwned, Source,
        Users
<1>4. CatalogsAreWhole' /\ NoticedStaysDead'
  BY <1>1 DEF CatalogInv, CatalogsAreWhole, NoticedStaysDead
<1>5. DOMAIN registry' = Runs /\ \A q \in Runs : Building(q)'
  BY <1>1 DEF CatalogInv, Building
<1>6. SessionsAreAccountedFor'
  BY <1>1 DEF CatalogInv, SessionsAreAccountedFor
<1> QED BY <1>2, <1>3, <1>4, <1>5, <1>6 DEF CatalogInv

\* Its server has answered: a server that was noticed dead has not.
LEMMA DiscoveredRight ==
    ASSUME CatalogInv, NEW r \in Runs, Discovered(r)
    PROVE  CatalogInv'
<1> DEFINE x == Source(r)
<1>1. /\ phase[r] = "refreshing" /\ holder[x] = r /\ x \in answered
      /\ cache' = [cache EXCEPT ![x] = Offers(x[2])]
      /\ holder' = [holder EXCEPT ![x] = None]
      /\ answered' = answered \ {x}
      /\ UseList(r, cache'[x])
      /\ UNCHANGED <<pool, open, dead, noticed, through, busy, made>>
  BY DEF Discovered, serverVars
<1>2. x \in Sessions
  BY SourceIs
<1>3. UseList(r, Offers(x[2]))
  BY <1>1, <1>2 DEF CatalogInv, CatalogTypes
<1>4. /\ phase' \in [Runs -> {"idle", "opening", "refreshing", "ready", "calling", "ended"}]
      /\ phase'[r] \in {"refreshing", "ready"}
      /\ at' \in [Runs -> 0..NumServers - 1]
      /\ \A q \in Runs : q # r => phase'[q] = phase[q] /\ at'[q] = at[q]
      /\ DOMAIN registry' = Runs /\ \A q \in Runs : Building(q)'
  BY <1>1, <1>3, UseListBuilds
<1>5. \A y \in Sessions : holder[y] # None =>
          /\ holder[y] \in Runs /\ phase[holder[y]] = "refreshing"
          /\ y = <<through[holder[y]], Servers[at[holder[y]] + 1]>> /\ cache[y] = None
  BY DEF CatalogInv, CatalogTypes, DiscoveryIsOwned, Source
<1>6. \A y \in answered : holder[y] # None
  BY DEF CatalogInv, DiscoveryIsOwned
<1>7. \A y \in Sessions : y # x => holder[y] # r
  BY <1>5, NamesAssumption DEF Users, Source
<1>8. \A q \in Runs : through'[q] = through[q]
  BY <1>1
<1> HIDE DEF x
<1>9. CatalogTypes'
  BY <1>1, <1>2, <1>4 DEF CatalogInv, CatalogTypes, Offers
<1>10. DiscoveryIsOwned'
  <2>1. \A y \in Sessions : /\ holder'[y] = IF y = x THEN None ELSE holder[y]
                            /\ y # x => cache'[y] = cache[y]
    BY <1>1, <1>2 DEF CatalogInv, CatalogTypes
  <2>2. ASSUME NEW y \in Sessions, holder'[y] # None
        PROVE  /\ phase'[holder'[y]] = "refreshing" /\ cache'[y] = None
               /\ y = <<through'[holder'[y]], Servers[at'[holder'[y]] + 1]>>
    <3>1. y # x /\ holder'[y] = holder[y] /\ cache'[y] = cache[y]
      BY <2>1, <2>2
    <3> QED BY <1>4, <1>5, <1>7, <1>8, <2>2, <3>1
  <2>3. \A y \in answered' : y \in Sessions /\ holder'[y] # None
    BY <1>1, <1>6, <2>1 DEF CatalogInv, CatalogTypes
  <2> QED BY <2>2, <2>3 DEF DiscoveryIsOwned, Source
<1>11. CatalogsAreWhole'
  BY <1>1, <1>2 DEF CatalogInv, CatalogTypes, CatalogsAreWhole
<1>12. NoticedStaysDead'
  BY <1>1, <1>2 DEF CatalogInv, CatalogTypes, NoticedStaysDead
<1>13. SessionsAreAccountedFor'
  BY <1>1, <1>4 DEF CatalogInv, CatalogTypes, SessionsAreAccountedFor
<1> QED BY <1>4, <1>9, <1>10, <1>11, <1>12, <1>13 DEF CatalogInv

\* It calls a tool, and the call returns or fails.
LEMMA CallsRight ==
    ASSUME CatalogInv, NEW r \in Runs,
           (\E t \in Tools : BeginCall(r, t)) \/ CallReturns(r) \/ CallFails(r)
    PROVE  CatalogInv'
<1>1. /\ phase[r] \in {"ready", "calling"}
      /\ \/ phase' = [phase EXCEPT ![r] = "ready"] \/ phase' = [phase EXCEPT ![r] = "calling"]
      /\ UNCHANGED <<pool, open, dead, holder, answered, through, at, registry>>
  BY DEF BeginCall, CallReturns, CallFails, serverVars, sourceVars
<1>2. made' \in [Runs -> 0..MaxRunCalls]
  <2>1. CASE \E t \in Tools : BeginCall(r, t)
    BY <2>1, BoundsAssumption DEF BeginCall, CatalogInv, CatalogTypes
  <2>2. CASE CallReturns(r) \/ CallFails(r)
    BY <2>2 DEF CallReturns, CallFails, CatalogInv, CatalogTypes
  <2> QED BY <2>1, <2>2
<1>3. \/ cache' = cache /\ noticed' = noticed
      \/ /\ cache' = [cache EXCEPT ![Owner(r)] = None]
         /\ noticed' = noticed \cup {x \in dead : x = Owner(r) /\ holder[x] = None}
  BY DEF BeginCall, CallReturns, CallFails, Invalidate, serverVars, sourceVars
<1>4. CatalogTypes'
  <2>1. cache' \in [Sessions -> (SUBSET Tools) \cup {None}] /\ noticed' \subseteq Sessions
    <3>1. /\ cache \in [Sessions -> (SUBSET Tools) \cup {None}]
          /\ noticed \subseteq Sessions /\ dead \subseteq Sessions
      BY DEF CatalogInv, CatalogTypes
    <3>2. \A T : None \in T /\ cache \in [Sessions -> T] => [cache EXCEPT ![Owner(r)] = None] \in [Sessions -> T]
      OBVIOUS
    <3>3. [cache EXCEPT ![Owner(r)] = None] \in [Sessions -> (SUBSET Tools) \cup {None}]
      BY <3>1, <3>2
    <3> QED BY <1>3, <3>1, <3>3
  <2>2. phase' \in [Runs -> {"idle", "opening", "refreshing", "ready", "calling", "ended"}]
    BY <1>1 DEF CatalogInv, CatalogTypes
  <2> QED BY <1>1, <1>2, <2>1, <2>2 DEF CatalogInv, CatalogTypes
<1>5. DiscoveryIsOwned'
  <2>1. \A x \in Sessions : cache[x] = None => cache'[x] = None
    BY <1>3 DEF CatalogInv, CatalogTypes
  <2>2. \A x \in Sessions : holder[x] # r
    BY <1>1, HoldsNothing
  <2>3. \A q \in Runs : q # r => phase'[q] = phase[q]
    BY <1>1 DEF CatalogInv, CatalogTypes
  <2>4. \A x \in Sessions : holder[x] # None => holder[x] \in Runs \ {r}
    BY <2>2 DEF CatalogInv, CatalogTypes
  <2> QED BY <1>1, <2>1, <2>3, <2>4 DEF CatalogInv, DiscoveryIsOwned, Source
<1>6. CatalogsAreWhole'
  BY <1>3 DEF CatalogInv, CatalogTypes, CatalogsAreWhole
<1>7. NoticedStaysDead'
  BY <1>1, <1>3 DEF CatalogInv, CatalogTypes, NoticedStaysDead, DiscoveryIsOwned
<1>8. DOMAIN registry' = Runs /\ \A q \in Runs : Building(q)'
  BY <1>1 DEF CatalogInv, CatalogTypes, Building
<1>9. SessionsAreAccountedFor'
  BY <1>1 DEF CatalogInv, CatalogTypes, SessionsAreAccountedFor
<1> QED BY <1>4, <1>5, <1>6, <1>7, <1>8, <1>9 DEF CatalogInv

-----------------------------------------------------------------------------
(* The theorems.                                                           *)

\* The inductive invariant: how far each run has come with its registry, whose
\* the discoveries and the sessions are, and what is known to be dead.
THEOREM CatalogInvHolds == CatalogSpec => []CatalogInv
<1>1. ASSUME CatalogInv, [CatalogNext]_catalogVars
      PROVE  CatalogInv'
  <2>1. ASSUME NEW r \in Runs, RunStep(r)
        PROVE  CatalogInv'
    BY <1>1, <2>1, StartRight, OpenRight, EndRight, TakeRight, DiscoverRight, DiscoveredRight,
       CallsRight
       DEF RunStep
  <2>2. CASE UNCHANGED catalogVars
    <3>1. UNCHANGED <<pool, serverVars, sourceVars, runVars>>
      BY <2>2 DEF catalogVars
    <3>2. SessionsAreAccountedFor'
      BY <1>1, <3>1 DEF serverVars, runVars, CatalogInv, SessionsAreAccountedFor
    <3> QED BY <1>1, <3>1, <3>2, SessionsOnly DEF serverVars, CatalogInv, CatalogTypes
  <2> QED BY <1>1, <2>1, <2>2, PoolAndProbe, ServersMove DEF CatalogNext
<1> QED BY <1>1, InitRight, PTL DEF CatalogSpec

\* A registry is whole and right however its discoveries were shared, failed or
\* asked again, and every open session has an owner.
THEOREM CatalogHolds == CatalogSpec => []CatalogIsRight
<1>1. CatalogInv => CatalogIsRight
  BY PrefixIs DEF CatalogInv, Building, CatalogIsRight, RegistryIsRight
<1> QED BY <1>1, CatalogInvHolds, PTL

\* The catalog of a server that was noticed dead is never put back.
THEOREM NoticeHolds == CatalogSpec => []DeadServerIsNoticed
<1>1. CatalogInv => DeadServerIsNoticed
  BY DEF CatalogInv, NoticedStaysDead, DeadServerIsNoticed
<1> QED BY <1>1, CatalogInvHolds, PTL

(***************************************************************************)
(* Commands and CommandPolicy, for any requests, paths, ports and hosts:   *)
(* the loop over the arguments finds just what the grammar of a form       *)
(* spells, the layers of the policy agree, and run_command keeps to it.    *)
(* The loop is a recursive function: what spells the rest of the arguments *)
(* solves its equation, and by the least place where it did not, nothing   *)
(* else does.                                                              *)
(***************************************************************************)

PrefixWords == {"run", "pytest", "python", "uvicorn", "-m", "--version", "dev", "start", "build", "test", "lint",
                "status", "branch", "log", "diff", "--stat"}

\* What the loop over the arguments needs of a form.
FormIsSound(form) ==
    /\ form.prefix \in Seq(PrefixWords)
    /\ form.options \subseteq {"--host", "--port"}
    /\ form.flags \subseteq PolicyFlags \ {"--host", "--port"}

\* One turn of the loop, given what it says further on.
Turn(form, rest, fits, i) ==
    IF i > Len(rest) THEN TRUE
    ELSE IF rest[i] \in form.options
         THEN i < Len(rest) /\ ValidOption(rest[i], rest[i + 1]) /\ fits[i + 2]
    ELSE IF rest[i] \in Dashed THEN rest[i] \in form.flags /\ fits[i + 1]
    ELSE form.trailing = "paths" /\ rest[i] \in InsidePaths /\ fits[i + 1]

\* A turn of the loop says yes or no.
LEMMA TurnSaysYesOrNo ==
    ASSUME NEW form, NEW rest, NEW fits, NEW i
    PROVE  Turn(form, rest, fits, i) \in BOOLEAN
BY Zenon DEF Turn

\* An option is no flag, and no value or path.
LEMMA OptionsStandOut ==
    ASSUME NEW form, FormIsSound(form), NEW a \in form.options
    PROVE  a \in Dashed /\ a \notin form.flags /\ a \notin InsidePaths \cup PortNumbers \cup LocalHosts
<1>1. a \in PolicyFlags
  BY DEF FormIsSound, PolicyFlags
<1> QED BY <1>1, PolicyAssumption DEF FormIsSound

\* An option with its value, before what the rest spells.
LEMMA OptionSpells ==
    ASSUME NEW W, NEW args \in Seq(W), NEW form, FormIsSound(form), NEW i \in 1..Len(args), args[i] \in form.options
    PROVE  SpelledFrom(form, args, i)
             <=> i < Len(args) /\ ValidOption(args[i], args[i + 1]) /\ SpelledFrom(form, args, i + 2)
<1> DEFINE n == Len(args)
           Options(k) == {j \in k..n : args[j] \in form.options}
           Values(taking) == {j + 1 : j \in taking}
<1>1. n \in Nat
  OBVIOUS
<1>2. args[i] \notin form.flags /\ args[i] \notin InsidePaths
  BY OptionsStandOut
<1>3. ASSUME SpelledFrom(form, args, i)
      PROVE  i < n /\ ValidOption(args[i], args[i + 1]) /\ SpelledFrom(form, args, i + 2)
  <2>1. PICK taking \in SUBSET Options(i) : Spells(form, args, i, taking)
    BY <1>3 DEF SpelledFrom
  <2>2. /\ Values(taking) \subseteq i..n /\ taking \cap Values(taking) = {}
        /\ \A j \in taking : \/ args[j] = "--port" /\ args[j + 1] \in PortNumbers
                             \/ args[j] # "--port" /\ args[j + 1] \in LocalHosts
        /\ \A j \in (i..n) \ (taking \cup Values(taking)) :
                args[j] \in form.flags \/ (form.trailing = "paths" /\ args[j] \in InsidePaths)
    BY <2>1 DEF Spells
  <2>3. i \notin Values(taking)
    BY <1>1, <2>1
  <2>4. i \in taking
    BY <1>1, <1>2, <2>2, <2>3
  <2>5. i + 1 \in Values(taking)
    BY <2>4
  <2>6. i < n /\ ValidOption(args[i], args[i + 1])
    <3>1. i + 1 \in i..n
      BY <2>2, <2>5
    <3> HIDE DEF Values
    <3> QED BY <1>1, <2>2, <2>4, <3>1 DEF ValidOption
  <2> DEFINE left == taking \ {i}
  <2>7. i + 1 \notin taking
    BY <2>2, <2>5
  <2>8. left \in SUBSET Options(i + 2)
    <3>1. \A j \in left : j \in i..n /\ j # i /\ j # i + 1 /\ args[j] \in form.options
      BY <2>1, <2>7
    <3>2. \A j \in left : j \in (i + 2)..n
      BY <1>1, <3>1
    <3> QED BY <3>1, <3>2
  <2>9. Values(left) \subseteq Values(taking) /\ \A j \in Values(taking) : j = i + 1 \/ j \in Values(left)
    OBVIOUS
  <2>10. Values(left) \subseteq (i + 2)..n
    <3>1. \A j \in left : j + 1 \in (i + 2)..n
      BY <1>1, <2>2, <2>8, <2>9
    <3> QED BY <3>1
  <2>11. \A j \in ((i + 2)..n) \ (left \cup Values(left)) : j \in (i..n) \ (taking \cup Values(taking))
    BY <1>1, <2>9
  <2> HIDE DEF left, Values
  <2>12. left \cap Values(left) = {} /\ left \subseteq taking
    BY <2>2, <2>9 DEF left
  <2>13. Spells(form, args, i + 2, left)
    BY <2>2, <2>10, <2>11, <2>12 DEF Spells, Values
  <2> QED BY <2>6, <2>8, <2>13 DEF SpelledFrom
<1>4. ASSUME i < n, ValidOption(args[i], args[i + 1]), SpelledFrom(form, args, i + 2)
      PROVE  SpelledFrom(form, args, i)
  <2>1. PICK taking \in SUBSET Options(i + 2) : Spells(form, args, i + 2, taking)
    BY <1>4 DEF SpelledFrom
  <2>2. /\ Values(taking) \subseteq (i + 2)..n /\ taking \cap Values(taking) = {}
        /\ \A j \in taking : \/ args[j] = "--port" /\ args[j + 1] \in PortNumbers
                             \/ args[j] # "--port" /\ args[j + 1] \in LocalHosts
        /\ \A j \in ((i + 2)..n) \ (taking \cup Values(taking)) :
                args[j] \in form.flags \/ (form.trailing = "paths" /\ args[j] \in InsidePaths)
    BY <2>1 DEF Spells
  <2> DEFINE all == taking \cup {i}
  <2>3. all \in SUBSET Options(i)
    BY <1>1, <2>1
  <2>4. Values(all) = Values(taking) \cup {i + 1}
    OBVIOUS
  <2>5. \A j \in (i..n) \ (all \cup Values(all)) : j \in ((i + 2)..n) \ (taking \cup Values(taking))
    <3>1. \A j \in i..n : j = i \/ j = i + 1 \/ j \in (i + 2)..n
      BY <1>1
    <3> HIDE DEF Values
    <3> QED BY <2>4, <3>1
  <2>6. \A j \in all : \/ args[j] = "--port" /\ args[j + 1] \in PortNumbers
                       \/ args[j] # "--port" /\ args[j + 1] \in LocalHosts
    BY <1>4, <2>2 DEF ValidOption
  <2>7. Values(all) \subseteq i..n /\ all \cap Values(all) = {}
    <3>1. \A j \in taking : j \in (i + 2)..n
      BY <2>1
    <3>2. i \notin (i + 2)..n /\ i + 1 \notin (i + 2)..n /\ i # i + 1 /\ i + 1 \in i..n /\ (i + 2)..n \subseteq i..n
      BY <1>1, <1>4
    <3>3. i + 1 \notin taking /\ i \notin Values(taking)
      BY <2>2, <3>1, <3>2
    <3> HIDE DEF Values
    <3>4. Values(all) \subseteq i..n
      BY <2>2, <2>4, <3>2
    <3>5. \A j \in all : j \notin Values(all)
      <4> SUFFICES ASSUME NEW j \in all, j \in Values(all) PROVE FALSE
        OBVIOUS
      <4>1. j \in taking \/ j = i
        OBVIOUS
      <4>2. j \in Values(taking) \/ j = i + 1
        BY <2>4
      <4> HIDE DEF all
      <4> QED BY <2>2, <3>2, <3>3, <4>1, <4>2
    <3> QED BY <3>4, <3>5
  <2> HIDE DEF all, Values
  <2>8. Spells(form, args, i, all)
    BY <2>2, <2>5, <2>6, <2>7 DEF Spells, Values
  <2> QED BY <2>3, <2>8 DEF SpelledFrom
<1> QED BY <1>3, <1>4

\* A flag or a path, before what the rest spells.
LEMMA WordSpells ==
    ASSUME NEW W, NEW args \in Seq(W), NEW form, FormIsSound(form), NEW i \in 1..Len(args), args[i] \notin form.options
    PROVE  SpelledFrom(form, args, i)
             <=> /\ args[i] \in form.flags \/ (form.trailing = "paths" /\ args[i] \in InsidePaths)
                 /\ SpelledFrom(form, args, i + 1)
<1> DEFINE n == Len(args)
           Options(k) == {j \in k..n : args[j] \in form.options}
           Values(taking) == {j + 1 : j \in taking}
           Word(j) == args[j] \in form.flags \/ (form.trailing = "paths" /\ args[j] \in InsidePaths)
<1>1. n \in Nat
  OBVIOUS
<1>2. Options(i) = Options(i + 1)
  BY <1>1
<1>3. ASSUME NEW taking \in SUBSET Options(i)
      PROVE  Spells(form, args, i, taking) <=> Word(i) /\ Spells(form, args, i + 1, taking)
  <2>1. taking \subseteq (i + 1)..n
    BY <1>2
  <2>2. Values(taking) \subseteq i..n <=> Values(taking) \subseteq (i + 1)..n
    <3>1. \A v \in Values(taking) : v > i
      BY <1>1, <2>1
    <3> HIDE DEF Values
    <3> QED BY <1>1, <3>1
  <2>3. i \notin taking \cup Values(taking)
    BY <1>1, <2>1
  <2>4. \A j \in i..n : j = i \/ j \in (i + 1)..n
    BY <1>1
  <2>5. i \in i..n /\ \A j \in (i + 1)..n : j \in i..n
    BY <1>1
  <2> HIDE DEF Values
  <2>6. (\A j \in (i..n) \ (taking \cup Values(taking)) : Word(j))
          <=> Word(i) /\ \A j \in ((i + 1)..n) \ (taking \cup Values(taking)) : Word(j)
    <3> HIDE DEF Word
    <3> QED BY <2>3, <2>4, <2>5
  <2> QED BY <2>2, <2>6 DEF Spells, Values
<1>4. SpelledFrom(form, args, i) <=> \E taking \in SUBSET Options(i) : Spells(form, args, i, taking)
  BY DEF SpelledFrom
<1>5. SpelledFrom(form, args, i + 1) <=> \E taking \in SUBSET Options(i + 1) : Spells(form, args, i + 1, taking)
  BY DEF SpelledFrom
<1> HIDE DEF Options
<1> QED BY <1>2, <1>3, <1>4, <1>5

\* Nothing left spells nothing.
LEMMA NothingSpells ==
    ASSUME NEW W, NEW args \in Seq(W), NEW form
    PROVE  SpelledFrom(form, args, Len(args) + 1)
<1>1. (Len(args) + 1)..Len(args) = {}
  OBVIOUS
<1>2. Spells(form, args, Len(args) + 1, {})
  BY <1>1 DEF Spells
<1> QED BY <1>2 DEF SpelledFrom

\* A set of numbers has a least one.
LEMMA Least ==
    ASSUME NEW n \in Nat, NEW S \in SUBSET (0..n), S # {}
    PROVE  \E m \in S : \A k \in S : m <= k
<1> DEFINE Less == {p \in Nat \X Nat : p[1] < p[2]}
<1>1. IsWellFoundedOn(Less, Nat)
  BY NatLessThanWellFounded DEF OpToRel
<1>2. \A x \in Nat, y \in Nat : x < y => <<x, y>> \in Less
  OBVIOUS
<1> HIDE DEF Less
<1>3. S \subseteq Nat
  OBVIOUS
<1>4. PICK m \in S : \A k \in S : ~(<<k, m>> \in Less)
  BY <1>1, <1>3, WFMin
<1>5. \A k \in S : k \in Nat /\ m \in Nat /\ ~(k < m)
  BY <1>2, <1>3, <1>4
<1>6. \A k \in S : m <= k
  BY <1>5
<1> QED BY <1>6

\* What is left after the first few.
LEMMA AfterIs ==
    ASSUME NEW W, NEW args \in Seq(W), NEW s \in 0..Len(args)
    PROVE  /\ After(args, s) \in Seq(W) /\ Len(After(args, s)) = Len(args) - s
           /\ \A i \in 1..(Len(args) - s) : After(args, s)[i] = args[i + s]
BY DEF After

\* The loop finds just the arguments that options, flags and paths spell: what it
\* says from a place on is settled by what it says further on.
LEMMA WalkSpells ==
    ASSUME NEW W, NEW args \in Seq(W), NEW s \in 0..Len(args), NEW form, FormIsSound(form)
    PROVE  Walk(form, After(args, s)) <=> SpelledFrom(form, args, s + 1)
<1> DEFINE rest == After(args, s)
           n == Len(args) - s
           spelled == [i \in 1..(n + 1) |-> SpelledFrom(form, args, i + s)]
           fits == CHOOSE f : f = [i \in 1..(Len(rest) + 1) |-> Turn(form, rest, f, i)]
<1>1. /\ n \in Nat /\ Len(rest) = n /\ Len(args) \in Nat /\ s \in Nat
      /\ \A i \in 1..n : rest[i] = args[i + s]
  <2>1. Len(args) \in Nat /\ s \in Nat /\ n \in Nat
    OBVIOUS
  <2>2. Len(rest) = n /\ \A i \in 1..n : rest[i] = args[i + s]
    BY AfterIs
  <2> QED BY <2>1, <2>2
<1>2. Walk(form, rest) = fits[1]
  BY DEF Walk, Turn
<1> HIDE DEF rest, n
<1>3. ASSUME NEW i \in 1..(n + 1) PROVE spelled[i] <=> Turn(form, rest, spelled, i)
  <2>1. CASE i = n + 1
    <3>1. SpelledFrom(form, args, i + s)
      BY <1>1, <2>1, NothingSpells DEF n
    <3> QED BY <1>1, <2>1, <3>1 DEF Turn
  <2>2. CASE i \in 1..n
    <3>1. i + s \in 1..Len(args) /\ rest[i] = args[i + s] /\ i + 1 \in 1..(n + 1) /\ ~(i > n)
      BY <1>1, <2>2 DEF n
    <3>2. i < n <=> i + s < Len(args)
      BY <1>1, <2>2 DEF n
    <3>3. (i + 1) + s = (i + s) + 1 /\ (i + 2) + s = (i + s) + 2
      BY <1>1
    <3>4. spelled[i] = SpelledFrom(form, args, i + s) /\ spelled[i + 1] = SpelledFrom(form, args, (i + s) + 1)
      BY <3>1, <3>3
    <3>5. i < n => spelled[i + 2] = SpelledFrom(form, args, (i + s) + 2) /\ rest[i + 1] = args[(i + s) + 1]
      <4>1. i < n => i + 2 \in 1..(n + 1) /\ i + 1 \in 1..n /\ (i + 1) + s = (i + s) + 1
        BY <1>1, <2>2
      <4> QED BY <1>1, <3>3, <4>1
    <3> HIDE DEF spelled
    <3>6. CASE args[i + s] \in form.options
      <4>1. SpelledFrom(form, args, i + s)
              <=> i < n /\ ValidOption(rest[i], rest[i + 1]) /\ SpelledFrom(form, args, (i + s) + 2)
        BY <3>1, <3>2, <3>5, <3>6, OptionSpells
      <4> QED BY <1>1, <3>1, <3>4, <3>5, <3>6, <4>1 DEF Turn
    <3>7. CASE args[i + s] \notin form.options
      <4>1. SpelledFrom(form, args, i + s)
              <=> /\ rest[i] \in form.flags \/ (form.trailing = "paths" /\ rest[i] \in InsidePaths)
                  /\ SpelledFrom(form, args, (i + s) + 1)
        BY <3>1, <3>7, WordSpells
      <4>2. rest[i] \in form.flags => rest[i] \in Dashed
        BY PolicyAssumption DEF FormIsSound
      <4>3. rest[i] \in InsidePaths => rest[i] \notin Dashed
        BY PolicyAssumption
      <4> QED BY <1>1, <3>1, <3>4, <3>7, <4>1, <4>2, <4>3 DEF Turn
    <3> QED BY <3>6, <3>7
  <2> QED BY <1>1, <2>1, <2>2
<1>4. fits = [i \in 1..(n + 1) |-> Turn(form, rest, fits, i)]
  <2>1. ASSUME NEW i \in 1..(n + 1) PROVE spelled[i] = Turn(form, rest, spelled, i)
    <3>1. spelled[i] \in BOOLEAN
      BY DEF SpelledFrom
    <3>2. Turn(form, rest, spelled, i) \in BOOLEAN
      <4> HIDE DEF spelled
      <4> QED BY TurnSaysYesOrNo
    <3> HIDE DEF spelled
    <3> QED BY <1>3, <3>1, <3>2
  <2>2. spelled = [i \in 1..(n + 1) |-> Turn(form, rest, spelled, i)]
    BY <2>1
  <2> HIDE DEF spelled
  <2> QED BY <1>1, <2>2
<1> HIDE DEF fits
<1>5. ASSUME NEW i \in 1..(n + 1) PROVE fits[i] = spelled[i]
  <2> HIDE DEF spelled
  <2> DEFINE apart == {k \in 0..n : fits[n + 1 - k] # spelled[n + 1 - k]}
  <2> SUFFICES ASSUME fits[i] # spelled[i] PROVE FALSE
    OBVIOUS
  <2>1. n + 1 - i \in apart
    BY <1>1
  <2>2. PICK m \in apart : \A k \in apart : m <= k
    BY <1>1, <2>1, Least
  <2>m. m \in 0..n /\ fits[n + 1 - m] # spelled[n + 1 - m]
    OBVIOUS
  <2> HIDE DEF apart
  <2> DEFINE j == n + 1 - m
  <2>3. j \in 1..(n + 1) /\ fits[j] # spelled[j]
    BY <1>1, <2>m
  <2>4. \A k \in 1..(n + 1) : k > j => fits[k] = spelled[k]
    <3> SUFFICES ASSUME NEW k \in 1..(n + 1), k > j, fits[k] # spelled[k] PROVE FALSE
      OBVIOUS
    <3>1. n + 1 - k \in apart
      BY <1>1 DEF apart
    <3> QED BY <1>1, <2>2, <2>m, <3>1
  <2> HIDE DEF j
  <2>5. Turn(form, rest, fits, j) <=> Turn(form, rest, spelled, j)
    <3>1. ASSUME j <= n PROVE fits[j + 1] = spelled[j + 1]
      <4>1. j + 1 \in 1..(n + 1) /\ j + 1 > j
        BY <1>1, <2>3, <3>1
      <4> QED BY <2>4, <4>1
    <3>2. ASSUME j < n PROVE fits[j + 2] = spelled[j + 2]
      <4>1. j + 2 \in 1..(n + 1) /\ j + 2 > j
        BY <1>1, <2>3, <3>2
      <4> QED BY <2>4, <4>1
    <3>3. CASE j > n
      BY <1>1, <3>3 DEF Turn
    <3>4. CASE j < n
      BY <1>1, <3>1, <3>2, <3>4, <2>3 DEF Turn
    <3>5. CASE j = n
      BY <1>1, <3>1, <3>5, <2>3 DEF Turn
    <3> QED BY <1>1, <2>3, <3>3, <3>4, <3>5
  <2>6. fits[j] = Turn(form, rest, fits, j)
    BY <1>4, <2>3
  <2>7. fits[j] \in BOOLEAN
    BY <2>6, TurnSaysYesOrNo
  <2>8. spelled[j] \in BOOLEAN
    BY <2>3 DEF spelled, SpelledFrom
  <2> QED BY <1>3, <2>3, <2>5, <2>6, <2>7, <2>8
<1>6. spelled[1] = SpelledFrom(form, args, s + 1)
  BY <1>1
<1> HIDE DEF spelled
<1> QED BY <1>1, <1>2, <1>5, <1>6 DEF rest

\* The code's matching of one form is the grammar of it.
LEMMA MatchesAreSpelled ==
    ASSUME NEW W, NEW args \in Seq(W), NEW form, FormIsSound(form)
    PROVE  Matches(form, args) <=> InGrammar(form, args)
<1> DEFINE p == Len(form.prefix)
           rest == After(args, p)
<1>1. /\ p \in Nat /\ Len(args) \in Nat /\ DOMAIN form.prefix = 1..p
      /\ form.prefix \in Seq(PrefixWords)
  BY DEF FormIsSound
<1>2. StartsWith(args, form.prefix) <=> Len(args) >= p /\ \A i \in 1..p : args[i] = form.prefix[i]
  <2>1. ASSUME Len(args) >= p
        PROVE  SubSeq(args, 1, p) = form.prefix <=> \A i \in 1..p : args[i] = form.prefix[i]
    <3>0. args \in Seq(W \cup PrefixWords) /\ form.prefix \in Seq(W \cup PrefixWords)
      BY <1>1
    <3>1. /\ SubSeq(args, 1, p) \in Seq(W \cup PrefixWords) /\ Len(SubSeq(args, 1, p)) = p
          /\ \A i \in 1..p : SubSeq(args, 1, p)[i] = args[i]
      BY <1>1, <2>1, <3>0
    <3> HIDE DEF p
    <3>2. (\A i \in 1..p : args[i] = form.prefix[i]) => SubSeq(args, 1, p) = form.prefix
      <4> SUFFICES ASSUME \A i \in 1..p : args[i] = form.prefix[i] PROVE SubSeq(args, 1, p) = form.prefix
        OBVIOUS
      <4>1. DOMAIN SubSeq(args, 1, p) = 1..p /\ DOMAIN form.prefix = 1..p /\ Len(form.prefix) = p
        BY <1>1, <3>1 DEF p
      <4> QED BY <3>0, <3>1, <4>1, SeqEqual
    <3> QED BY <3>1, <3>2
  <2> QED BY <2>1 DEF StartsWith
<1>3. CASE form.leading = Nil
  <2>1. ASSUME Len(args) >= p
        PROVE  /\ Walk(form, rest) <=> SpelledFrom(form, args, p + 1)
               /\ Len(rest) = 1 /\ rest[1] \in ApprovedModules
                    <=> Len(args) = p + 1 /\ args[p + 1] \in ApprovedModules
    <3>1. p \in 0..Len(args)
      BY <1>1, <2>1
    <3>2. /\ rest \in Seq(W) /\ Len(rest) = Len(args) - p
          /\ \A i \in 1..(Len(args) - p) : rest[i] = args[i + p]
      BY <3>1, AfterIs
    <3>3. Walk(form, rest) <=> SpelledFrom(form, args, p + 1)
      BY <3>1, WalkSpells
    <3> HIDE DEF rest, p
    <3> QED BY <1>1, <3>1, <3>2, <3>3
  <2> QED BY <1>1, <1>2, <1>3, <2>1 DEF Matches, InGrammar
<1>4. CASE form.leading # Nil
  <2>1. ASSUME Len(args) >= p
        PROVE  rest # <<>> <=> Len(args) >= p + 1
    <3>1. p \in 0..Len(args)
      BY <1>1, <2>1
    <3>2. rest \in Seq(W) /\ Len(rest) = Len(args) - p
      BY <3>1, AfterIs
    <3> HIDE DEF rest, p
    <3> QED BY <1>1, <3>1, <3>2
  <2>2. ASSUME Len(args) >= p + 1
        PROVE  /\ rest[1] = args[p + 1]
               /\ Walk(form, Tail(rest)) <=> SpelledFrom(form, args, p + 2)
               /\ Len(Tail(rest)) = 1 /\ Tail(rest)[1] \in ApprovedModules
                    <=> Len(args) = p + 2 /\ args[p + 2] \in ApprovedModules
    <3> DEFINE more == After(args, p + 1)
    <3>1. p \in 0..Len(args) /\ p + 1 \in 0..Len(args)
      BY <1>1, <2>2
    <3>2. /\ rest \in Seq(W) /\ Len(rest) = Len(args) - p
          /\ \A i \in 1..(Len(args) - p) : rest[i] = args[i + p]
      BY <3>1, AfterIs
    <3>3. /\ more \in Seq(W) /\ Len(more) = Len(args) - (p + 1)
          /\ \A i \in 1..(Len(args) - (p + 1)) : more[i] = args[i + (p + 1)]
      BY <3>1, AfterIs
    <3>4. Walk(form, more) <=> SpelledFrom(form, args, (p + 1) + 1)
      BY <3>1, WalkSpells
    <3> HIDE DEF rest, more, p
    <3>5. Tail(rest) = more
      <4>1. /\ Tail(rest) \in Seq(W) /\ Len(Tail(rest)) = Len(rest) - 1
            /\ \A i \in 1..(Len(rest) - 1) : Tail(rest)[i] = rest[i + 1]
        BY <1>1, <2>2, <3>2
      <4>2. Len(rest) - 1 = Len(args) - (p + 1) /\ Len(Tail(rest)) = Len(more)
        BY <1>1, <3>2, <3>3, <4>1
      <4>3. \A i \in 1..Len(more) : Tail(rest)[i] = more[i]
        <5> SUFFICES ASSUME NEW i \in 1..Len(more) PROVE Tail(rest)[i] = more[i]
          OBVIOUS
        <5>1. i + 1 \in 1..(Len(args) - p) /\ (i + 1) + p = i + (p + 1) /\ i \in 1..(Len(rest) - 1)
          BY <1>1, <3>2, <3>3
        <5> QED BY <3>2, <3>3, <4>1, <5>1
      <4> QED BY <3>3, <4>1, <4>2, <4>3, SeqEqual
    <3>6. (p + 1) + 1 = p + 2 /\ rest[1] = args[p + 1]
      BY <1>1, <2>2, <3>2
    <3>7. Len(more) = 1 => more[1] = args[p + 2]
      <4>1. 1 + (p + 1) = p + 2 /\ (Len(args) - (p + 1) = 1 => 1 \in 1..(Len(args) - (p + 1)))
        BY <1>1
      <4> QED BY <3>3, <4>1
    <3>8. Len(more) = 1 <=> Len(args) = p + 2
      BY <1>1, <3>3
    <3> QED BY <3>4, <3>5, <3>6, <3>7, <3>8
  <2> HIDE DEF p, rest
  <2>3. Matches(form, args)
          <=> /\ StartsWith(args, form.prefix) /\ rest # <<>> /\ rest[1] \in AsgiTargets
              /\ IF form.trailing = "module" THEN Len(Tail(rest)) = 1 /\ Tail(rest)[1] \in ApprovedModules
                 ELSE Walk(form, Tail(rest))
    BY <1>4 DEF Matches, p, rest
  <2>4. InGrammar(form, args)
          <=> /\ Len(args) >= p + 1 /\ \A i \in 1..p : args[i] = form.prefix[i]
              /\ args[p + 1] \in AsgiTargets
              /\ IF form.trailing = "module" THEN Len(args) = (p + 1) + 1 /\ args[(p + 1) + 1] \in ApprovedModules
                 ELSE SpelledFrom(form, args, (p + 1) + 1)
    BY <1>1, <1>4 DEF InGrammar, p
  <2>5. (p + 1) + 1 = p + 2 /\ (Len(args) >= p + 1 => Len(args) >= p)
    BY <1>1
  <2> QED BY <1>2, <2>1, <2>2, <2>3, <2>4, <2>5
<1> QED BY <1>3, <1>4

\* What the layers of the policy need of a form: the blocklist has nothing that
\* it matches, and it is long-running just when the process policy knows it.
Unblocked(e, form) ==
    /\ form.prefix # <<>> => <<e, form.prefix[1]>> \notin BlockedCombinations
    /\ form.prefix = <<>> =>
        \A w : <<e, w>> \in BlockedCombinations =>
            /\ w \in Dashed /\ w \notin form.flags \cup form.options
            /\ form.leading = Nil /\ form.trailing # "module"
KnownAsServer(e, form) ==
    IF form.longRunning
    THEN /\ form.trailing # "module" /\ \A i \in DOMAIN form.prefix : form.prefix[i] \notin {"--host", "--port"}
         /\ \E k \in 1..5 : ProcessProfiles[k].executable = e /\ ProcessProfiles[k].prefix = form.prefix
    ELSE \A k \in 1..5 : ProcessProfiles[k].executable = e =>
            \E j \in DOMAIN form.prefix \cap DOMAIN ProcessProfiles[k].prefix :
                form.prefix[j] # ProcessProfiles[k].prefix[j]
FormIsRight(e, form) ==
    FormIsSound(form) /\ form.longRunning \in BOOLEAN /\ Unblocked(e, form) /\ KnownAsServer(e, form)

\* The process profiles, one by one.
LEMMA ServersAre ==
    /\ DOMAIN ProcessProfiles = 1..5
    /\ ProcessProfiles[1].executable = "npm" /\ ProcessProfiles[1].prefix = <<"run", "dev">>
    /\ ProcessProfiles[2].executable = "npm" /\ ProcessProfiles[2].prefix = <<"start">>
    /\ ProcessProfiles[3].executable = "npm" /\ ProcessProfiles[3].prefix = <<"run", "start">>
    /\ ProcessProfiles[4].executable = "uvicorn" /\ ProcessProfiles[4].prefix = <<>>
    /\ ProcessProfiles[5].executable = "uv" /\ ProcessProfiles[5].prefix = <<"run", "uvicorn">>
    /\ \A k \in 1..5 : ProcessProfiles[k].port \in {"8000", Nil}
BY DEF ProcessProfiles

\* The process profiles of npm, word by word.
LEMMA NpmServersAre ==
    /\ \A k \in 1..5 : ProcessProfiles[k].executable = "npm" => k \in {1, 2, 3}
    /\ {1, 2} \subseteq DOMAIN ProcessProfiles[1].prefix /\ 1 \in DOMAIN ProcessProfiles[2].prefix
    /\ {1, 2} \subseteq DOMAIN ProcessProfiles[3].prefix
    /\ ProcessProfiles[1].prefix[1] = "run" /\ ProcessProfiles[1].prefix[2] = "dev"
    /\ ProcessProfiles[2].prefix[1] = "start"
    /\ ProcessProfiles[3].prefix[1] = "run" /\ ProcessProfiles[3].prefix[2] = "start"
BY ServersAre

\* No form starts with a word that the blocklist has for its executable.
LEMMA FirstWordsAreFree ==
    /\ \A w \in {"status", "branch", "log", "diff", "--version"} : <<"git", w>> \notin BlockedCombinations
    /\ \A w \in {"run", "start", "test", "--version"} : <<"npm", w>> \notin BlockedCombinations
    /\ \A w \in {"run", "--version"} : <<"uv", w>> \notin BlockedCombinations
    /\ \A w \in {"--version"} : <<"node", w>> \notin BlockedCombinations
    /\ \A w \in {"-m", "--version"} : <<"python", w>> \notin BlockedCombinations
    /\ \A w \in {"-m", "--version"} : <<"python3", w>> \notin BlockedCombinations
BY DEF BlockedCombinations

\* What it has for the executables whose forms may start with anything.
LEMMA BareNamesAreFree ==
    ASSUME NEW w
    PROVE  /\ <<"python", w>> \in BlockedCombinations \/ <<"python3", w>> \in BlockedCombinations => w = "-c"
           /\ <<"node", w>> \in BlockedCombinations => w \in {"-e", "--eval"}
           /\ <<"pytest", w>> \notin BlockedCombinations /\ <<"uvicorn", w>> \notin BlockedCombinations
BY DEF BlockedCombinations

HasFields(form, p, leading, trailing, flags, options, longRunning) ==
    /\ form.prefix = p /\ form.leading = leading /\ form.trailing = trailing
    /\ form.flags = flags /\ form.options = options /\ form.longRunning = longRunning

\* The fields of each kind of form.
LEMMA FormsAre ==
    ASSUME NEW p, NEW flags
    PROVE  /\ HasFields(Form(p), p, Nil, "none", {}, {}, FALSE)
           /\ HasFields(PathsForm(p, flags), p, Nil, "paths", flags, {}, FALSE)
           /\ HasFields([Form(p) EXCEPT !.flags = flags], p, Nil, "none", flags, {}, FALSE)
           /\ HasFields(ModuleForm(p), p, Nil, "module", {}, {}, FALSE)
           /\ HasFields(LongForm(p), p, Nil, "none", {}, {}, TRUE)
           /\ HasFields(AsgiForm(p), p, "asgi", "none", {"--reload"}, {"--host", "--port"}, TRUE)
<1>1. HasFields(Form(p), p, Nil, "none", {}, {}, FALSE)
  BY DEF HasFields, Form
<1>2. HasFields(PathsForm(p, flags), p, Nil, "paths", flags, {}, FALSE)
  BY DEF HasFields, PathsForm, Form
<1>3. HasFields([Form(p) EXCEPT !.flags = flags], p, Nil, "none", flags, {}, FALSE)
  BY DEF HasFields, Form
<1>4. HasFields(ModuleForm(p), p, Nil, "module", {}, {}, FALSE)
  BY DEF HasFields, ModuleForm, Form
<1>5. HasFields(LongForm(p), p, Nil, "none", {}, {}, TRUE)
  BY DEF HasFields, LongForm, Form
<1>6. HasFields(AsgiForm(p), p, "asgi", "none", {"--reload"}, {"--host", "--port"}, TRUE)
  BY DEF HasFields, AsgiForm, LongForm, Form
<1> QED BY <1>1, <1>2, <1>3, <1>4, <1>5, <1>6

\* The forms of each executable's profile, one by one: pytest,
LEMMA PytestIsRight == \A i \in DOMAIN Profiles["pytest"] : FormIsRight("pytest", Profiles["pytest"][i])
<1> DEFINE a == PathsForm(<<>>, PytestFlags)
<1>1. Profiles["pytest"] = <<a>>
  BY DEF Profiles
<1>2. HasFields(a, <<>>, Nil, "paths", PytestFlags, {}, FALSE)
  BY FormsAre
<1> HIDE DEF a
<1>3. FormIsSound(a)
  BY <1>2 DEF HasFields, FormIsSound, PrefixWords, PolicyFlags, PytestFlags
<1>4. Unblocked("pytest", a)
  BY <1>2, BareNamesAreFree DEF HasFields, Unblocked
<1>5. KnownAsServer("pytest", a)
  BY <1>2, ServersAre DEF HasFields, KnownAsServer
<1>6. FormIsRight("pytest", a)
  BY <1>2, <1>3, <1>4, <1>5 DEF HasFields, FormIsRight
<1> QED BY <1>1, <1>6

\* uv, whose uvicorn is a server,
LEMMA UvIsRight == \A i \in DOMAIN Profiles["uv"] : FormIsRight("uv", Profiles["uv"][i])
<1> DEFINE a == PathsForm(<<"run", "pytest">>, PytestFlags)
           b == ModuleForm(<<"run", "python", "-m">>)
           c == AsgiForm(<<"run", "uvicorn">>)
           d == PathsForm(<<"run", "python">>, {})
           e == Form(<<"--version">>)
<1>1. Profiles["uv"] = <<a, b, c, d, e>>
  BY DEF Profiles
<1>2. /\ HasFields(a, <<"run", "pytest">>, Nil, "paths", PytestFlags, {}, FALSE)
      /\ HasFields(b, <<"run", "python", "-m">>, Nil, "module", {}, {}, FALSE)
      /\ HasFields(c, <<"run", "uvicorn">>, "asgi", "none", {"--reload"}, {"--host", "--port"}, TRUE)
      /\ HasFields(d, <<"run", "python">>, Nil, "paths", {}, {}, FALSE)
      /\ HasFields(e, <<"--version">>, Nil, "none", {}, {}, FALSE)
  BY FormsAre
<1> HIDE DEF a, b, c, d, e
<1>3. /\ FormIsSound(a) /\ FormIsSound(b) /\ FormIsSound(c) /\ FormIsSound(d)
      /\ FormIsSound(e)
  BY <1>2 DEF HasFields, FormIsSound, PrefixWords, PolicyFlags, PytestFlags
<1>4. Unblocked("uv", a)
  BY <1>2, FirstWordsAreFree DEF HasFields, Unblocked
<1>5. KnownAsServer("uv", a)
  <2>1. \A k \in 1..5 : ProcessProfiles[k].executable = "uv" => k = 5
    BY ServersAre
  <2>2. ~a.longRunning /\ a.prefix = <<"run", "pytest">>
    BY <1>2 DEF HasFields
  <2>3. /\ 2 \in DOMAIN a.prefix \cap DOMAIN ProcessProfiles[5].prefix
        /\ a.prefix[2] # ProcessProfiles[5].prefix[2]
    BY <2>2, ServersAre
  <2> QED BY <2>1, <2>2, <2>3 DEF KnownAsServer
<1>6. Unblocked("uv", b)
  BY <1>2, FirstWordsAreFree DEF HasFields, Unblocked
<1>7. KnownAsServer("uv", b)
  BY <1>2, ServersAre, SMTT(30) DEF HasFields, KnownAsServer
<1>8. Unblocked("uv", c)
  BY <1>2, FirstWordsAreFree DEF HasFields, Unblocked
<1>9. KnownAsServer("uv", c)
  BY <1>2, ServersAre DEF HasFields, KnownAsServer
<1>10. Unblocked("uv", d)
  BY <1>2, FirstWordsAreFree DEF HasFields, Unblocked
<1>11. KnownAsServer("uv", d)
  BY <1>2, ServersAre DEF HasFields, KnownAsServer
<1>12. Unblocked("uv", e)
  BY <1>2, FirstWordsAreFree DEF HasFields, Unblocked
<1>13. KnownAsServer("uv", e)
  BY <1>2, ServersAre DEF HasFields, KnownAsServer
<1>14. /\ FormIsRight("uv", a) /\ FormIsRight("uv", b) /\ FormIsRight("uv", c) /\ FormIsRight("uv", d)
      /\ FormIsRight("uv", e)
  BY <1>2, <1>3, <1>4, <1>5, <1>6, <1>7, <1>8, <1>9, <1>10, <1>11, <1>12, <1>13 DEF HasFields, FormIsRight
<1> QED BY <1>1, <1>14

\* npm, whose dev and start are servers,
LEMMA NpmIsRight == \A i \in DOMAIN Profiles["npm"] : FormIsRight("npm", Profiles["npm"][i])
<1> DEFINE a == LongForm(<<"run", "dev">>)
           b == LongForm(<<"run", "start">>)
           c == LongForm(<<"start">>)
           d == Form(<<"run", "build">>)
           e == Form(<<"run", "test">>)
           f == Form(<<"run", "lint">>)
           g == Form(<<"test">>)
           h == Form(<<"--version">>)
<1>1. Profiles["npm"] = <<a, b, c, d, e, f, g, h>>
  BY DEF Profiles
<1>2. /\ HasFields(a, <<"run", "dev">>, Nil, "none", {}, {}, TRUE)
      /\ HasFields(b, <<"run", "start">>, Nil, "none", {}, {}, TRUE)
      /\ HasFields(c, <<"start">>, Nil, "none", {}, {}, TRUE)
      /\ HasFields(d, <<"run", "build">>, Nil, "none", {}, {}, FALSE)
      /\ HasFields(e, <<"run", "test">>, Nil, "none", {}, {}, FALSE)
      /\ HasFields(f, <<"run", "lint">>, Nil, "none", {}, {}, FALSE)
      /\ HasFields(g, <<"test">>, Nil, "none", {}, {}, FALSE)
      /\ HasFields(h, <<"--version">>, Nil, "none", {}, {}, FALSE)
  BY FormsAre
<1> HIDE DEF a, b, c, d, e, f, g, h
<1>3. /\ FormIsSound(a) /\ FormIsSound(b) /\ FormIsSound(c) /\ FormIsSound(d)
      /\ FormIsSound(e) /\ FormIsSound(f) /\ FormIsSound(g) /\ FormIsSound(h)
  BY <1>2 DEF HasFields, FormIsSound, PrefixWords, PolicyFlags
<1>4. Unblocked("npm", a)
  BY <1>2, FirstWordsAreFree DEF HasFields, Unblocked
<1>5. KnownAsServer("npm", a)
  BY <1>2, ServersAre DEF HasFields, KnownAsServer
<1>6. Unblocked("npm", b)
  BY <1>2, FirstWordsAreFree DEF HasFields, Unblocked
<1>7. KnownAsServer("npm", b)
  BY <1>2, ServersAre DEF HasFields, KnownAsServer
<1>8. Unblocked("npm", c)
  BY <1>2, FirstWordsAreFree DEF HasFields, Unblocked
<1>9. KnownAsServer("npm", c)
  BY <1>2, ServersAre DEF HasFields, KnownAsServer
<1>10. Unblocked("npm", d)
  BY <1>2, FirstWordsAreFree DEF HasFields, Unblocked
<1>11. KnownAsServer("npm", d)
  <2>1. DOMAIN d.prefix = 1..2 /\ d.prefix[1] = "run" /\ d.prefix[2] = "build" /\ ~d.longRunning
    BY <1>2 DEF HasFields
  <2> QED BY <2>1, NpmServersAre DEF KnownAsServer
<1>12. Unblocked("npm", e)
  BY <1>2, FirstWordsAreFree DEF HasFields, Unblocked
<1>13. KnownAsServer("npm", e)
  <2>1. DOMAIN e.prefix = 1..2 /\ e.prefix[1] = "run" /\ e.prefix[2] = "test" /\ ~e.longRunning
    BY <1>2 DEF HasFields
  <2> QED BY <2>1, NpmServersAre DEF KnownAsServer
<1>14. Unblocked("npm", f)
  BY <1>2, FirstWordsAreFree DEF HasFields, Unblocked
<1>15. KnownAsServer("npm", f)
  <2>1. DOMAIN f.prefix = 1..2 /\ f.prefix[1] = "run" /\ f.prefix[2] = "lint" /\ ~f.longRunning
    BY <1>2 DEF HasFields
  <2> QED BY <2>1, NpmServersAre DEF KnownAsServer
<1>16. Unblocked("npm", g)
  BY <1>2, FirstWordsAreFree DEF HasFields, Unblocked
<1>17. KnownAsServer("npm", g)
  <2>1. DOMAIN g.prefix = 1..1 /\ g.prefix[1] = "test" /\ ~g.longRunning
    BY <1>2 DEF HasFields
  <2> QED BY <2>1, NpmServersAre DEF KnownAsServer
<1>18. Unblocked("npm", h)
  BY <1>2, FirstWordsAreFree DEF HasFields, Unblocked
<1>19. KnownAsServer("npm", h)
  <2>1. DOMAIN h.prefix = 1..1 /\ h.prefix[1] = "--version" /\ ~h.longRunning
    BY <1>2 DEF HasFields
  <2> QED BY <2>1, NpmServersAre DEF KnownAsServer
<1>20. /\ FormIsRight("npm", a) /\ FormIsRight("npm", b) /\ FormIsRight("npm", c) /\ FormIsRight("npm", d)
      /\ FormIsRight("npm", e) /\ FormIsRight("npm", f) /\ FormIsRight("npm", g) /\ FormIsRight("npm", h)
  BY <1>2, <1>3, <1>4, <1>5, <1>6, <1>7, <1>8, <1>9, <1>10, <1>11, <1>12, <1>13, <1>14, <1>15, <1>16, <1>17, <1>18, <1>19 DEF HasFields, FormIsRight
<1> QED BY <1>1, <1>20

\* node, which runs scripts,
LEMMA NodeIsRight == \A i \in DOMAIN Profiles["node"] : FormIsRight("node", Profiles["node"][i])
<1> DEFINE a == Form(<<"--version">>)
           b == PathsForm(<<>>, {})
<1>1. Profiles["node"] = <<a, b>>
  BY DEF Profiles
<1>2. /\ HasFields(a, <<"--version">>, Nil, "none", {}, {}, FALSE)
      /\ HasFields(b, <<>>, Nil, "paths", {}, {}, FALSE)
  BY FormsAre
<1> HIDE DEF a, b
<1>3. /\ FormIsSound(a) /\ FormIsSound(b)
  BY <1>2 DEF HasFields, FormIsSound, PrefixWords, PolicyFlags
<1>4. Unblocked("node", a)
  BY <1>2, FirstWordsAreFree DEF HasFields, Unblocked
<1>5. KnownAsServer("node", a)
  BY <1>2, ServersAre DEF HasFields, KnownAsServer
<1>6. Unblocked("node", b)
  BY <1>2, BareNamesAreFree, PolicyAssumption DEF PolicyFlags, HasFields, Unblocked
<1>7. KnownAsServer("node", b)
  BY <1>2, ServersAre DEF HasFields, KnownAsServer
<1>8. /\ FormIsRight("node", a) /\ FormIsRight("node", b)
  BY <1>2, <1>3, <1>4, <1>5, <1>6, <1>7 DEF HasFields, FormIsRight
<1> QED BY <1>1, <1>8

\* python,
LEMMA PythonIsRight == \A i \in DOMAIN Profiles["python"] : FormIsRight("python", Profiles["python"][i])
<1> DEFINE a == ModuleForm(<<"-m">>)
           b == Form(<<"--version">>)
           c == PathsForm(<<>>, {})
<1>1. Profiles["python"] = <<a, b, c>>
  BY DEF Profiles, PythonForms
<1>2. /\ HasFields(a, <<"-m">>, Nil, "module", {}, {}, FALSE)
      /\ HasFields(b, <<"--version">>, Nil, "none", {}, {}, FALSE)
      /\ HasFields(c, <<>>, Nil, "paths", {}, {}, FALSE)
  BY FormsAre
<1> HIDE DEF a, b, c
<1>3. /\ FormIsSound(a) /\ FormIsSound(b) /\ FormIsSound(c)
  BY <1>2 DEF HasFields, FormIsSound, PrefixWords, PolicyFlags
<1>4. Unblocked("python", a)
  BY <1>2, FirstWordsAreFree DEF HasFields, Unblocked
<1>5. KnownAsServer("python", a)
  BY <1>2, ServersAre DEF HasFields, KnownAsServer
<1>6. Unblocked("python", b)
  BY <1>2, FirstWordsAreFree DEF HasFields, Unblocked
<1>7. KnownAsServer("python", b)
  BY <1>2, ServersAre DEF HasFields, KnownAsServer
<1>8. Unblocked("python", c)
  BY <1>2, BareNamesAreFree, PolicyAssumption DEF PolicyFlags, HasFields, Unblocked
<1>9. KnownAsServer("python", c)
  BY <1>2, ServersAre DEF HasFields, KnownAsServer
<1>10. /\ FormIsRight("python", a) /\ FormIsRight("python", b) /\ FormIsRight("python", c)
  BY <1>2, <1>3, <1>4, <1>5, <1>6, <1>7, <1>8, <1>9 DEF HasFields, FormIsRight
<1> QED BY <1>1, <1>10

\* python3, which is python by another name,
LEMMA Python3IsRight == \A i \in DOMAIN Profiles["python3"] : FormIsRight("python3", Profiles["python3"][i])
<1> DEFINE a == ModuleForm(<<"-m">>)
           b == Form(<<"--version">>)
           c == PathsForm(<<>>, {})
<1>1. Profiles["python3"] = <<a, b, c>>
  BY DEF Profiles, PythonForms
<1>2. /\ HasFields(a, <<"-m">>, Nil, "module", {}, {}, FALSE)
      /\ HasFields(b, <<"--version">>, Nil, "none", {}, {}, FALSE)
      /\ HasFields(c, <<>>, Nil, "paths", {}, {}, FALSE)
  BY FormsAre
<1> HIDE DEF a, b, c
<1>3. /\ FormIsSound(a) /\ FormIsSound(b) /\ FormIsSound(c)
  BY <1>2 DEF HasFields, FormIsSound, PrefixWords, PolicyFlags
<1>4. Unblocked("python3", a)
  BY <1>2, FirstWordsAreFree DEF HasFields, Unblocked
<1>5. KnownAsServer("python3", a)
  BY <1>2, ServersAre DEF HasFields, KnownAsServer
<1>6. Unblocked("python3", b)
  BY <1>2, FirstWordsAreFree DEF HasFields, Unblocked
<1>7. KnownAsServer("python3", b)
  BY <1>2, ServersAre DEF HasFields, KnownAsServer
<1>8. Unblocked("python3", c)
  BY <1>2, BareNamesAreFree, PolicyAssumption DEF PolicyFlags, HasFields, Unblocked
<1>9. KnownAsServer("python3", c)
  BY <1>2, ServersAre DEF HasFields, KnownAsServer
<1>10. /\ FormIsRight("python3", a) /\ FormIsRight("python3", b) /\ FormIsRight("python3", c)
  BY <1>2, <1>3, <1>4, <1>5, <1>6, <1>7, <1>8, <1>9 DEF HasFields, FormIsRight
<1> QED BY <1>1, <1>10

\* uvicorn, which is a server whatever follows,
LEMMA UvicornIsRight == \A i \in DOMAIN Profiles["uvicorn"] : FormIsRight("uvicorn", Profiles["uvicorn"][i])
<1> DEFINE a == AsgiForm(<<>>)
<1>1. Profiles["uvicorn"] = <<a>>
  BY DEF Profiles
<1>2. HasFields(a, <<>>, "asgi", "none", {"--reload"}, {"--host", "--port"}, TRUE)
  BY FormsAre
<1> HIDE DEF a
<1>3. FormIsSound(a)
  BY <1>2 DEF HasFields, FormIsSound, PrefixWords, PolicyFlags
<1>4. Unblocked("uvicorn", a)
  BY <1>2, BareNamesAreFree DEF HasFields, Unblocked
<1>5. KnownAsServer("uvicorn", a)
  BY <1>2, ServersAre DEF HasFields, KnownAsServer
<1>6. FormIsRight("uvicorn", a)
  BY <1>2, <1>3, <1>4, <1>5 DEF HasFields, FormIsRight
<1> QED BY <1>1, <1>6

\* and git, which only looks.
LEMMA GitIsRight == \A i \in DOMAIN Profiles["git"] : FormIsRight("git", Profiles["git"][i])
<1> DEFINE a == Form(<<"status">>)
           b == Form(<<"branch">>)
           c == [Form(<<"log">>) EXCEPT !.flags = LogFlags]
           d == Form(<<"diff", "--stat">>)
           e == Form(<<"--version">>)
<1>1. Profiles["git"] = <<a, b, c, d, e>>
  BY DEF Profiles
<1>2. /\ HasFields(a, <<"status">>, Nil, "none", {}, {}, FALSE)
      /\ HasFields(b, <<"branch">>, Nil, "none", {}, {}, FALSE)
      /\ HasFields(c, <<"log">>, Nil, "none", LogFlags, {}, FALSE)
      /\ HasFields(d, <<"diff", "--stat">>, Nil, "none", {}, {}, FALSE)
      /\ HasFields(e, <<"--version">>, Nil, "none", {}, {}, FALSE)
  BY FormsAre
<1> HIDE DEF a, b, c, d, e
<1>3. /\ FormIsSound(a) /\ FormIsSound(b) /\ FormIsSound(c) /\ FormIsSound(d)
      /\ FormIsSound(e)
  BY <1>2 DEF HasFields, FormIsSound, PrefixWords, PolicyFlags, LogFlags
<1>4. Unblocked("git", a)
  BY <1>2, FirstWordsAreFree DEF HasFields, Unblocked
<1>5. KnownAsServer("git", a)
  BY <1>2, ServersAre DEF HasFields, KnownAsServer
<1>6. Unblocked("git", b)
  BY <1>2, FirstWordsAreFree DEF HasFields, Unblocked
<1>7. KnownAsServer("git", b)
  BY <1>2, ServersAre DEF HasFields, KnownAsServer
<1>8. Unblocked("git", c)
  BY <1>2, FirstWordsAreFree DEF HasFields, Unblocked
<1>9. KnownAsServer("git", c)
  BY <1>2, ServersAre DEF HasFields, KnownAsServer
<1>10. Unblocked("git", d)
  BY <1>2, FirstWordsAreFree DEF HasFields, Unblocked
<1>11. KnownAsServer("git", d)
  BY <1>2, ServersAre DEF HasFields, KnownAsServer
<1>12. Unblocked("git", e)
  BY <1>2, FirstWordsAreFree DEF HasFields, Unblocked
<1>13. KnownAsServer("git", e)
  BY <1>2, ServersAre DEF HasFields, KnownAsServer
<1>14. /\ FormIsRight("git", a) /\ FormIsRight("git", b) /\ FormIsRight("git", c) /\ FormIsRight("git", d)
      /\ FormIsRight("git", e)
  BY <1>2, <1>3, <1>4, <1>5, <1>6, <1>7, <1>8, <1>9, <1>10, <1>11, <1>12, <1>13 DEF HasFields, FormIsRight
<1> QED BY <1>1, <1>14

\* Every form of every profile is right, and there are few.
LEMMA ProfilesAreRight ==
    ASSUME NEW e \in DOMAIN Profiles
    PROVE  /\ DOMAIN Profiles[e] \subseteq 0..8
           /\ \A i \in DOMAIN Profiles[e] : FormIsRight(e, Profiles[e][i])
<1>1. DOMAIN Profiles = {"pytest", "uv", "npm", "node", "python", "python3", "uvicorn", "git"}
  BY DEF Profiles
<1>2. DOMAIN Profiles[e] \subseteq 0..8
  <2>1. /\ DOMAIN Profiles["pytest"] = 1..1 /\ DOMAIN Profiles["uv"] = 1..5 /\ DOMAIN Profiles["npm"] = 1..8
        /\ DOMAIN Profiles["node"] = 1..2 /\ DOMAIN Profiles["python"] = 1..3 /\ DOMAIN Profiles["python3"] = 1..3
        /\ DOMAIN Profiles["uvicorn"] = 1..1 /\ DOMAIN Profiles["git"] = 1..5
    BY DEF Profiles, PythonForms
  <2> QED BY <1>1, <2>1
<1> QED BY <1>1, <1>2, PytestIsRight, UvIsRight, NpmIsRight, NodeIsRight, PythonIsRight, Python3IsRight,
           UvicornIsRight, GitIsRight

\* A request that starts with a prefix has its words.
LEMMA StartsLike ==
    ASSUME NEW W, NEW args \in Seq(W), NEW V, NEW prefix \in Seq(V), StartsWith(args, prefix)
    PROVE  \A j \in DOMAIN prefix : args[j] = prefix[j]
<1>1. Len(prefix) \in Nat /\ DOMAIN prefix = 1..Len(prefix) /\ Len(args) >= Len(prefix)
  BY DEF StartsWith
<1>2. \A j \in 1..Len(prefix) : SubSeq(args, 1, Len(prefix))[j] = args[j]
  BY <1>1
<1> QED BY <1>1, <1>2 DEF StartsWith

\* A form that matches is long-running just when the process policy knows the request.
LEMMA OneDoor ==
    ASSUME NEW W, NEW asked, asked.args \in Seq(W), NEW form, FormIsRight(asked.executable, form),
           Matches(form, asked.args)
    PROVE  form.longRunning <=> Supervisors(asked) # {}
<1>1. FormIsSound(form) /\ form.longRunning \in BOOLEAN /\ KnownAsServer(asked.executable, form)
  BY DEF FormIsRight
<1>2. StartsWith(asked.args, form.prefix)
  BY DEF Matches
<1>3. CASE form.longRunning
  <2>1. PICK k \in 1..5 : ProcessProfiles[k].executable = asked.executable /\ ProcessProfiles[k].prefix = form.prefix
    BY <1>1, <1>3 DEF KnownAsServer
  <2>2. k \in Supervisors(asked)
    BY <1>2, <2>1, ServersAre DEF Supervisors, Supervises
  <2> QED BY <1>3, <2>2
<1>4. CASE ~form.longRunning
  <2> SUFFICES ASSUME NEW k \in Supervisors(asked) PROVE FALSE
    BY <1>4
  <2>1. /\ k \in 1..5 /\ ProcessProfiles[k].executable = asked.executable
        /\ StartsWith(asked.args, ProcessProfiles[k].prefix)
    BY ServersAre DEF Supervisors, Supervises
  <2>2. PICK j \in DOMAIN form.prefix \cap DOMAIN ProcessProfiles[k].prefix :
                form.prefix[j] # ProcessProfiles[k].prefix[j]
    BY <1>1, <1>4, <2>1 DEF KnownAsServer
  <2>3. form.prefix \in Seq(PrefixWords)
    BY <1>1 DEF FormIsSound
  <2>4. ProcessProfiles[k].prefix \in Seq(PrefixWords)
    <3>1. /\ <<"run", "dev">> \in Seq(PrefixWords) /\ <<"start">> \in Seq(PrefixWords)
          /\ <<"run", "start">> \in Seq(PrefixWords) /\ <<"run", "uvicorn">> \in Seq(PrefixWords)
          /\ <<>> \in Seq(PrefixWords)
      BY DEF PrefixWords
    <3>2. k = 1 \/ k = 2 \/ k = 3 \/ k = 4 \/ k = 5
      BY <2>1
    <3>3. /\ ProcessProfiles[1].prefix \in Seq(PrefixWords) /\ ProcessProfiles[2].prefix \in Seq(PrefixWords)
          /\ ProcessProfiles[3].prefix \in Seq(PrefixWords) /\ ProcessProfiles[4].prefix \in Seq(PrefixWords)
          /\ ProcessProfiles[5].prefix \in Seq(PrefixWords)
      BY <3>1, ServersAre, Zenon
    <3> QED BY <3>2, <3>3
  <2>5. asked.args[j] = form.prefix[j]
    BY <1>2, <2>2, <2>3, StartsLike
  <2>6. asked.args[j] = ProcessProfiles[k].prefix[j]
    BY <2>1, <2>2, <2>4, StartsLike
  <2> QED BY <2>2, <2>5, <2>6
<1> QED BY <1>1, <1>3, <1>4

\* What the blocklist names, no form spells.
LEMMA BlockedMatchNothing ==
    ASSUME NEW W, NEW e, NEW args \in Seq(W), NEW form, FormIsRight(e, form), InGrammar(form, args),
           args # <<>>, <<e, args[1]>> \in BlockedCombinations
    PROVE  FALSE
<1>1. FormIsSound(form) /\ Unblocked(e, form)
  BY DEF FormIsRight
<1>2. form.prefix \in Seq(PrefixWords) /\ Len(args) \in Nat /\ 1 \in 1..Len(args)
  BY <1>1 DEF FormIsSound
<1>3. CASE form.prefix # <<>>
  <2>1. 1 \in DOMAIN form.prefix
    BY <1>2, <1>3
  <2>2. args[1] = form.prefix[1]
    BY <2>1 DEF InGrammar
  <2> QED BY <1>1, <1>3, <2>2 DEF Unblocked
<1>4. CASE form.prefix = <<>>
  <2>1. /\ args[1] \in Dashed /\ args[1] \notin form.flags \cup form.options
        /\ form.leading = Nil /\ form.trailing # "module"
    BY <1>1, <1>4 DEF Unblocked
  <2>2. SpelledFrom(form, args, 1)
    <3>1. Len(form.prefix) + 0 + 1 = 1
      BY <1>4
    <3> QED BY <2>1, <3>1 DEF InGrammar
  <2>3. args[1] \in InsidePaths
    BY <1>1, <1>2, <2>1, <2>2, WordSpells
  <2> QED BY <2>1, <2>3, PolicyAssumption
<1> QED BY <1>3, <1>4

\* Wherever a server's asked has an option, the value is one that was checked.
LEMMA ServerOptionsAreValid ==
    ASSUME NEW W, NEW e, NEW args \in Seq(W), NEW form, FormIsRight(e, form), InGrammar(form, args),
           form.longRunning, NEW j \in 1..(Len(args) - 1), args[j] \in {"--host", "--port"}
    PROVE  ValidOption(args[j], args[j + 1])
<1> DEFINE p == Len(form.prefix)
           skipped == p + (IF form.leading = Nil THEN 0 ELSE 1)
<1>1. /\ FormIsSound(form) /\ form.trailing # "module"
      /\ \A i \in DOMAIN form.prefix : form.prefix[i] \notin {"--host", "--port"}
  BY DEF FormIsRight, KnownAsServer
<1>2. form.prefix \in Seq(PrefixWords) /\ p \in Nat /\ DOMAIN form.prefix = 1..p /\ Len(args) \in Nat
  BY <1>1 DEF FormIsSound
<1>3. args[j] \in Dashed
  BY PolicyAssumption DEF PolicyFlags
<1>4. args[j] \notin AsgiTargets \cup InsidePaths \cup PortNumbers \cup LocalHosts \cup form.flags
  BY <1>1, <1>3, PolicyAssumption DEF FormIsSound
<1>5. /\ \A i \in 1..p : args[i] = form.prefix[i]
      /\ form.leading # Nil => args[skipped] \in AsgiTargets
      /\ SpelledFrom(form, args, skipped + 1)
  BY <1>1, <1>2 DEF InGrammar
<1>6. j \notin 1..p
  BY <1>1, <1>2, <1>5
<1>7. j \in (skipped + 1)..Len(args)
  <2>1. form.leading # Nil => j # p + 1
    BY <1>4, <1>5
  <2>2. CASE form.leading = Nil
    <3>1. skipped = p
      BY <1>2, <2>2
    <3> HIDE DEF skipped, p
    <3> QED BY <1>2, <1>6, <3>1
  <2>3. CASE form.leading # Nil
    <3>1. skipped = p + 1
      BY <1>2, <2>3
    <3> HIDE DEF skipped, p
    <3> QED BY <1>2, <1>6, <2>1, <2>3, <3>1
  <2> QED BY <2>2, <2>3
<1> HIDE DEF skipped
<1> DEFINE Values(taking) == {i + 1 : i \in taking}
<1>8. PICK taking \in SUBSET {i \in (skipped + 1)..Len(args) : args[i] \in form.options} :
            Spells(form, args, skipped + 1, taking)
  BY <1>5 DEF SpelledFrom
<1>9. /\ \A i \in taking : \/ args[i] = "--port" /\ args[i + 1] \in PortNumbers
                           \/ args[i] # "--port" /\ args[i + 1] \in LocalHosts
      /\ \A i \in ((skipped + 1)..Len(args)) \ (taking \cup Values(taking)) :
                args[i] \in form.flags \/ (form.trailing = "paths" /\ args[i] \in InsidePaths)
  BY <1>8 DEF Spells
<1>10. j \notin Values(taking)
  BY <1>4, <1>9
<1> HIDE DEF Values
<1>11. j \in taking
  BY <1>4, <1>7, <1>9, <1>10
<1> QED BY <1>9, <1>11 DEF ValidOption

\* The first value of an option is one that its check let through.
LEMMA OptionIsValid ==
    ASSUME NEW W, NEW args \in Seq(W), NEW option, NEW default,
           \A j \in 1..(Len(args) - 1) : args[j] = option => ValidOption(option, args[j + 1])
    PROVE  OptionValue(args, option, default) = default \/ ValidOption(option, OptionValue(args, option, default))
<1> DEFINE given == {i \in 1..(Len(args) - 1) : args[i] = option}
           first == CHOOSE i \in given : \A j \in given : i <= j
<1>1. OptionValue(args, option, default) = IF given = {} THEN default ELSE args[1 + first]
  BY DEF OptionValue
<1>2. CASE given # {}
  <2>1. given \in SUBSET (0..Len(args)) /\ Len(args) \in Nat
    OBVIOUS
  <2> HIDE DEF given
  <2>2. \E i \in given : \A j \in given : i <= j
    BY <1>2, <2>1, Least
  <2>3. first \in given
    BY <2>2
  <2> HIDE DEF first
  <2>4. first \in 1..(Len(args) - 1) /\ args[first] = option /\ 1 + first = first + 1
    BY <2>1, <2>3 DEF given
  <2> QED BY <1>1, <1>2, <2>4
<1> QED BY <1>1, <1>2

\* Every layer of the policy, for any asked whatever.
LEMMA PolicyHolds ==
    ASSUME NEW W, NEW asked, asked.args \in Seq(W)
    PROVE  PolicyIsRight(asked)
<1> DEFINE e == asked.executable
           args == asked.args
           forms == FormsOf(asked)
<1>1. /\ DOMAIN forms \subseteq 0..8
      /\ \A i \in DOMAIN forms : e \in DOMAIN Profiles /\ FormIsRight(e, forms[i])
  <2>1. CASE e \in DOMAIN Profiles
    BY <2>1, ProfilesAreRight DEF FormsOf
  <2>2. CASE e \notin DOMAIN Profiles
    <3>1. forms = <<>>
      BY <2>2 DEF FormsOf
    <3>2. DOMAIN forms = {}
      BY <3>1
    <3> QED BY <3>2
  <2> QED BY <2>1, <2>2
<1> HIDE DEF forms
<1>2. \A i \in DOMAIN forms : FormIsSound(forms[i]) /\ (Matches(forms[i], args) <=> InGrammar(forms[i], args))
  BY <1>1, MatchesAreSpelled DEF FormIsRight
<1>3. Matching(asked) = {i \in DOMAIN forms : Matches(forms[i], args)}
  BY DEF Matching, forms
<1>4. SpelledOut(asked) <=> Matching(asked) # {}
  BY <1>2, <1>3 DEF SpelledOut, forms
<1>5. Blocklisted(asked) => Matching(asked) = {}
  <2> SUFFICES ASSUME Blocklisted(asked), NEW i \in Matching(asked) PROVE FALSE
    OBVIOUS
  <2>1. e \in DOMAIN Profiles /\ FormIsRight(e, forms[i]) /\ InGrammar(forms[i], args)
    BY <1>1, <1>2, <1>3
  <2>2. args # <<>> /\ <<e, args[1]>> \in BlockedCombinations
    BY <2>1, BlocklistAssumption DEF Blocklisted
  <2> QED BY <2>1, <2>2, BlockedMatchNothing
<1>6. Validated(asked) <=> Parses(asked) /\ SpelledOut(asked)
  BY <1>4, <1>5 DEF Validated
<1>7. ASSUME Validated(asked)
      PROVE  \E i \in Matching(asked) : FormOf(asked) = forms[i]
  <2> DEFINE first == CHOOSE i \in Matching(asked) : \A j \in Matching(asked) : i <= j
  <2>1. Matching(asked) # {} /\ Matching(asked) \in SUBSET (0..8) /\ 8 \in Nat
    BY <1>1, <1>3, <1>7 DEF Validated
  <2>2. \E i \in Matching(asked) : \A j \in Matching(asked) : i <= j
    BY <2>1, Least
  <2>3. first \in Matching(asked)
    BY <2>2
  <2>4. FormOf(asked) = forms[first]
    BY DEF FormOf, forms
  <2> QED BY <2>3, <2>4
<1>8. ASSUME Validated(asked)
      PROVE  /\ FormIsRight(e, FormOf(asked)) /\ InGrammar(FormOf(asked), args)
             /\ FormOf(asked).longRunning \in BOOLEAN
             /\ FormOf(asked).longRunning <=> Supervised(asked)
  <2>1. PICK i \in Matching(asked) : FormOf(asked) = forms[i]
    BY <1>7, <1>8
  <2>2. FormIsRight(e, forms[i]) /\ Matches(forms[i], args) /\ InGrammar(forms[i], args)
    BY <1>1, <1>2, <1>3
  <2>3. forms[i].longRunning <=> Supervisors(asked) # {}
    BY <2>2, OneDoor
  <2> QED BY <1>8, <2>1, <2>2, <2>3 DEF Supervised, FormIsRight
<1>9. ASSUME Supervised(asked)
      PROVE  HostOf(asked) \in LocalHosts /\ PortOf(asked) \in PortNumbers \cup {Nil}
  <2>1. Validated(asked) /\ Supervisors(asked) # {}
    BY <1>9 DEF Supervised
  <2>2. \A j \in 1..(Len(args) - 1) : args[j] \in {"--host", "--port"} => ValidOption(args[j], args[j + 1])
    BY <1>8, <1>9, <2>1, ServerOptionsAreValid
  <2>3. HostOf(asked) \in LocalHosts
    <3>1. HostOf(asked) = "127.0.0.1" \/ ValidOption("--host", HostOf(asked))
      BY <2>2, OptionIsValid DEF HostOf
    <3> QED BY <3>1, PolicyAssumption DEF ValidOption
  <2>4. PortOf(asked) \in PortNumbers \cup {Nil}
    <3> DEFINE first == CHOOSE i \in Supervisors(asked) : \A j \in Supervisors(asked) : i <= j
               default == ProcessProfiles[first].port
    <3>1. Supervisors(asked) \in SUBSET (0..5) /\ 5 \in Nat /\ Supervisors(asked) \subseteq 1..5
      BY ServersAre DEF Supervisors
    <3>2. \E i \in Supervisors(asked) : \A j \in Supervisors(asked) : i <= j
      BY <2>1, <3>1, Least
    <3>3. first \in Supervisors(asked)
      BY <3>2
    <3> HIDE DEF first
    <3>4. default \in {"8000", Nil}
      BY <3>1, <3>3, ServersAre
    <3>5. PortOf(asked) = OptionValue(args, "--port", default)
      BY DEF PortOf, first
    <3> HIDE DEF default
    <3>6. PortOf(asked) = default \/ ValidOption("--port", PortOf(asked))
      BY <2>2, <3>5, OptionIsValid
    <3> QED BY <3>4, <3>6, PolicyAssumption DEF ValidOption
  <2> QED BY <2>3, <2>4
<1>10. Validated(asked) = (Parses(asked) /\ SpelledOut(asked))
  <2>1. Validated(asked) \in BOOLEAN
    BY DEF Validated
  <2> QED BY <1>6, <2>1
<1>11. Validated(asked) => (FormOf(asked).longRunning = Supervised(asked))
  <2>1. Supervised(asked) \in BOOLEAN
    BY DEF Supervised
  <2> QED BY <1>8, <2>1
<1> QED BY <1>5, <1>9, <1>10, <1>11 DEF PolicyIsRight

-----------------------------------------------------------------------------
(* run_command.                                                            *)

\* Where run_command is, and what it has done by then.
CommandInv ==
    /\ CommandTypes
    /\ stage = "asked" => running = "none" /\ answer = Nil
    /\ stage \in {"joining", "joining late", "closing", "closing late"} => running \in HasExited
    /\ stage # "answered" => answer = Nil
    /\ running # "none" => Validated(request) /\ ~FormOf(request).longRunning
    /\ answer = "unsupported" => Validated(request) /\ FormOf(request).longRunning
    /\ answer \in {"completed", "timeout"} => running \in HasExited
    /\ answer = "completed" => running = "zero"

\* It holds from the request on.
LEMMA CommandStart == CommandInit => CommandInv
BY RequestsAssumption DEF CommandInit, CommandInv, CommandTypes, Answers

\* The steps of run_command and of the processes.
LEMMA CommandStep == CommandInv /\ [CommandNext]_commandVars => CommandInv'
<1> SUFFICES ASSUME CommandInv, [CommandNext]_commandVars PROVE CommandInv'
  OBVIOUS
<1> USE RequestsAssumption DEF CommandInv, CommandTypes, Answers, StillRuns, HasExited
<1>1. CASE Reject
  BY <1>1 DEF Reject, Say, groupVars
<1>2. CASE RejectDirectory
  BY <1>2 DEF RejectDirectory, Say, groupVars
<1>3. CASE SendAway
  BY <1>3 DEF SendAway, Say, groupVars
<1>4. CASE NotSpawned
  BY <1>4 DEF NotSpawned, Say, groupVars
<1>5. CASE SpawnCommand
  BY <1>5 DEF SpawnCommand
<1>6. CASE CommandFinished
  BY <1>6 DEF CommandFinished, Proceed, groupVars
<1>7. CASE TimesOut
  BY <1>7 DEF TimesOut, Proceed, groupVars
<1>8. CASE Terminate
  BY <1>8 DEF Terminate
<1>9. CASE NothingToTerminate
  BY <1>9 DEF NothingToTerminate, Proceed, groupVars
<1>10. CASE LeaderWent
  BY <1>10 DEF LeaderWent, Proceed, groupVars
<1>11. CASE KillGroup
  BY <1>11 DEF KillGroup
<1>12. CASE Join
  BY <1>12 DEF Join, Proceed, groupVars
<1>13. CASE ClosePipes
  BY <1>13 DEF ClosePipes, Say, groupVars
<1>14. CASE LeaderEnds
  BY <1>14 DEF LeaderEnds
<1>15. CASE LeaderForks
  BY <1>15 DEF LeaderForks
<1>16. CASE LeftoverEnds
  BY <1>16 DEF LeftoverEnds
<1>17. CASE UNCHANGED commandVars
  BY <1>17 DEF commandVars, groupVars
<1> QED BY <1>1, <1>2, <1>3, <1>4, <1>5, <1>6, <1>7, <1>8, <1>9, <1>10, <1>11, <1>12, <1>13, <1>14,
           <1>15, <1>16, <1>17 DEF CommandNext, RunCommand

\* The inductive invariant of run_command, for any requests.
THEOREM CommandInvHolds == CommandSpec => []CommandInv
BY CommandStart, CommandStep, PTL DEF CommandSpec

\* Whatever is asked for, the policy is right about it, only what it lets through
\* is spawned, and no answer about a process comes before its end.
THEOREM CommandsHold == CommandSpec => []CommandsAreRight
<1>1. CommandInv => CommandsAreRight
  <2> SUFFICES ASSUME CommandInv PROVE CommandsAreRight
    OBVIOUS
  <2>1. request \in CommandRequests
    BY DEF CommandInv, CommandTypes
  <2>2. request.args \in Seq(STRING)
    BY <2>1, RequestsAssumption
  <2>3. PolicyIsRight(request)
    BY <2>2, PolicyHolds
  <2> QED BY <2>3 DEF CommandInv, CommandsAreRight, PolicyIsRight
<1> QED BY <1>1, CommandInvHolds, PTL

==============================================================================

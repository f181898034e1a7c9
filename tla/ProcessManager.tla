--------------------------- MODULE ProcessManager ---------------------------
(***************************************************************************)
(* Supervision of the user's development servers.  The MCP server runs     *)
(* each tool call in a worker thread of its own, so start, stop and the    *)
(* readers (list, status, logs) interleave wherever the manager's lock is  *)
(* not held, which is everywhere but around the two uses of _processes in  *)
(* start.  An action is what one thread does up to the next place where    *)
(* the others, the processes or the shutdown matter.                       *)
(*                                                                         *)
(* A process is a leader, the child the manager spawned, and at most one   *)
(* worker that the leader spawned into its group.  Either may ignore       *)
(* SIGTERM ("stubborn"); nothing survives SIGKILL for its grace period.    *)
(***************************************************************************)
EXTENDS Naturals, FiniteSets

CONSTANTS
    Threads,        (* worker threads                                        *)
    MaxStarts,      (* bound: processes ever spawned                         *)
    MaxProcesses    (* MAX_PROCESSES                                         *)

ASSUME ManagerAssumption ==
    /\ IsFiniteSet(Threads) /\ Threads # {}
    /\ MaxStarts \in Nat /\ MaxProcesses \in Nat

VARIABLES
    status,     \* ManagedProcess.status, "none" before it is spawned
    listed,     \* the ids in _processes
    leader,     \* none, alive, stubborn, or how it ended: zero, nonzero
    worker,     \* none, alive or stubborn
    reaped,     \* leaders whose exit code has been collected
    pc, arg,    \* per thread: where it is, and for which process
    server,     \* up, closing or exited
    stopped     \* history: processes that stop_process said it stopped

records == <<status, listed>>
machine == <<leader, worker, reaped>>
vars == <<records, machine, pc, arg, server, stopped>>

Pids == 1..MaxStarts
NoPid == 0
Alive == {"alive", "stubborn"}
Exited == {"zero", "nonzero"}
Active == {"STARTING", "RUNNING", "STOPPING"}
Ended == {"STOPPED", "FAILED"}

Init ==
    /\ status = [p \in Pids |-> "none"] /\ listed = {}
    /\ leader = [p \in Pids |-> "none"] /\ worker = [p \in Pids |-> "none"] /\ reaped = {}
    /\ pc = [t \in Threads |-> "idle"] /\ arg = [t \in Threads |-> NoPid]
    /\ server = "up" /\ stopped = {}

Goto(t, where, p) == pc' = [pc EXCEPT ![t] = where] /\ arg' = [arg EXCEPT ![t] = p]

-----------------------------------------------------------------------------
(* _refresh: what a record becomes once its leader's exit is seen.         *)

AfterExit(s, code) == IF s = "STOPPING" \/ code = "zero" THEN "STOPPED" ELSE "FAILED"

Refreshed(p) == IF status[p] \in Active /\ leader[p] \in Exited THEN AfterExit(status[p], leader[p]) ELSE status[p]
Seen(P) == {p \in P : status[p] \in Active /\ leader[p] \in Exited}

-----------------------------------------------------------------------------
(* start.                                                                  *)

Room(st) == Cardinality({p \in listed : st[p] \in Active}) < MaxProcesses

\* refresh_all, then the limit is checked under the lock.
StartCall(t) ==
    /\ pc[t] = "idle" /\ server = "up"
    /\ status' = [p \in Pids |-> IF p \in listed THEN Refreshed(p) ELSE status[p]]
    /\ reaped' = reaped \cup Seen(listed)
    /\ IF Room(status')
       THEN Goto(t, "allowed", NoPid) ELSE UNCHANGED <<pc, arg>>
    /\ UNCHANGED <<listed, leader, worker, server, stopped>>

\* The port is taken, there is no such program, or it cannot be spawned.
StartFails(t) ==
    /\ pc[t] = "allowed" /\ Goto(t, "idle", NoPid)
    /\ UNCHANGED <<records, machine, server, stopped>>

Spawn(t) ==
    /\ pc[t] = "allowed"
    /\ \E p \in Pids :
          /\ status[p] = "none" /\ \A q \in Pids : q < p => status[q] # "none"
          /\ \E l \in Alive : leader' = [leader EXCEPT ![p] = l]
          /\ \E w \in Alive \cup {"none"} : worker' = [worker EXCEPT ![p] = w]
          /\ status' = [status EXCEPT ![p] = "STARTING"]
          /\ Goto(t, "settling", p)
    /\ UNCHANGED <<listed, reaped, server, stopped>>

\* After the settling time it is RUNNING, unless it has fallen over, and listed.
SettleIfRoom(t) ==                   \* variant: listed only if the limit still allows it
    /\ pc[t] = "settling"
    /\ status' = [status EXCEPT ![arg[t]] = IF leader[arg[t]] \in Exited THEN Refreshed(arg[t]) ELSE "RUNNING"]
    /\ reaped' = reaped \cup Seen({arg[t]})
    /\ listed' = IF Room(status) THEN listed \cup {arg[t]} ELSE listed
    /\ Goto(t, "idle", NoPid)
    /\ UNCHANGED <<leader, worker, server, stopped>>
Settle(t) ==
    /\ pc[t] = "settling"
    /\ status' = [status EXCEPT ![arg[t]] = IF leader[arg[t]] \in Exited THEN Refreshed(arg[t]) ELSE "RUNNING"]
    /\ reaped' = reaped \cup Seen({arg[t]})
    /\ listed' = listed \cup {arg[t]}
    /\ Goto(t, "idle", NoPid)
    /\ UNCHANGED <<leader, worker, server, stopped>>

-----------------------------------------------------------------------------
(* stop.                                                                   *)

StopCall(t, p) ==
    /\ pc[t] = "idle" /\ server = "up" /\ p \in listed
    /\ status' = [status EXCEPT ![p] = Refreshed(p)]
    /\ reaped' = reaped \cup Seen({p})
    /\ IF status'[p] \in Active THEN Goto(t, "stopping", p) ELSE UNCHANGED <<pc, arg>>
    /\ UNCHANGED <<listed, leader, worker, server, stopped>>

\* A signal to the whole group: those that obey it end.
Terminated(p, code) ==
    /\ leader' = [leader EXCEPT ![p] = IF @ = "alive" THEN code ELSE @]
    /\ worker' = [worker EXCEPT ![p] = IF @ = "alive" THEN "none" ELSE @]
Killed(p) ==
    /\ leader' = [leader EXCEPT ![p] = IF @ \in Alive THEN "nonzero" ELSE @]
    /\ worker' = [worker EXCEPT ![p] = "none"]

\* A leader whose exit has been collected has no group to be found any more.
Signal(t) ==
    /\ pc[t] = "stopping"
    /\ status' = [status EXCEPT ![arg[t]] = "STOPPING"]
    /\ \/ arg[t] \in reaped /\ Goto(t, "finishing", arg[t]) /\ UNCHANGED <<leader, worker>>
       \/ /\ arg[t] \notin reaped /\ Goto(t, "waiting", arg[t])
          /\ \E code \in Exited : Terminated(arg[t], code)
    /\ UNCHANGED <<listed, reaped, server, stopped>>

LeaderGone(t) ==
    /\ pc[t] = "waiting" /\ leader[arg[t]] \in Exited
    /\ reaped' = reaped \cup {arg[t]}
    /\ Goto(t, "finishing", arg[t])
    /\ UNCHANGED <<records, leader, worker, server, stopped>>

NoKill(t) == FALSE /\ UNCHANGED vars             \* variant: SIGTERM only
Kill(t) ==
    /\ pc[t] = "waiting" /\ leader[arg[t]] \in Alive
    /\ Killed(arg[t])
    /\ UNCHANGED <<records, reaped, pc, arg, server, stopped>>

Finish(t) ==
    /\ pc[t] = "finishing"
    /\ status' = [status EXCEPT ![arg[t]] = Refreshed(arg[t])]
    /\ stopped' = stopped \cup {arg[t]}
    /\ Goto(t, "idle", NoPid)
    /\ UNCHANGED <<listed, machine, server>>

-----------------------------------------------------------------------------
(* The readers.  A refresh that sees the leader's exit, and what it then   *)
(* writes, are two steps: the status may have changed in between.          *)

Poll(t, p) ==
    /\ pc[t] = "idle" /\ server = "up" /\ p \in Seen(listed)
    /\ reaped' = reaped \cup {p}
    /\ Goto(t, "polled", p)
    /\ UNCHANGED <<records, leader, worker, server, stopped>>

Mark(t) ==
    /\ pc[t] = "polled"
    /\ status' = [status EXCEPT ![arg[t]] = AfterExit(@, leader[arg[t]])]
    /\ Goto(t, "idle", NoPid)
    /\ UNCHANGED <<listed, machine, server, stopped>>

-----------------------------------------------------------------------------
(* The processes, and the end of the server.                               *)

LeaderExits(p) ==
    /\ leader[p] \in Alive
    /\ \E code \in Exited : leader' = [leader EXCEPT ![p] = code]
    /\ UNCHANGED <<records, worker, reaped, pc, arg, server, stopped>>

WorkerExits(p) ==
    /\ worker[p] \in Alive /\ worker' = [worker EXCEPT ![p] = "none"]
    /\ UNCHANGED <<records, leader, reaped, pc, arg, server, stopped>>

\* A signal, or the end of stdin: nothing is called any more.
Close ==
    /\ server = "up" /\ server' = "closing"
    /\ UNCHANGED <<records, machine, pc, arg, stopped>>

\* shutdown_all, one process after the other.
Shutdown(p) ==
    /\ server = "closing" /\ p \in listed /\ status[p] \in Active
    /\ status' = [status EXCEPT ![p] = "STOPPED"]
    /\ IF leader[p] = "stubborn" /\ p \notin reaped THEN Killed(p)
       ELSE IF p \notin reaped THEN Terminated(p, "nonzero") ELSE UNCHANGED <<leader, worker>>
    /\ reaped' = reaped \cup {p}
    /\ UNCHANGED <<listed, pc, arg, server, stopped>>

\* It is called by the signal handler, by main and at exit, the last time when
\* the interpreter has joined the worker threads.
ExitAtOnce ==                                    \* variant: the threads are not waited for
    /\ server = "closing" /\ \A p \in listed : status[p] \notin Active
    /\ server' = "exited"
    /\ UNCHANGED <<records, machine, pc, arg, stopped>>
Exit ==
    /\ server = "closing" /\ \A p \in listed : status[p] \notin Active
    /\ \A t \in Threads : pc[t] = "idle"
    /\ server' = "exited"
    /\ UNCHANGED <<records, machine, pc, arg, stopped>>

Serve(t) == StartFails(t) \/ Spawn(t) \/ Settle(t) \/ Signal(t) \/ LeaderGone(t) \/ Kill(t) \/ Finish(t) \/ Mark(t)

Next ==
    \/ \E t \in Threads : StartCall(t) \/ Serve(t) \/ \E p \in Pids : StopCall(t, p) \/ Poll(t, p)
    \/ \E p \in Pids : LeaderExits(p) \/ WorkerExits(p) \/ Shutdown(p)
    \/ Close \/ Exit

Spec == Init /\ [][Next]_vars

\* The operating system runs every thread; a wait ends, if need be in SIGKILL.
FairSpec == Spec /\ \A t \in Threads : WF_vars(Serve(t))

-----------------------------------------------------------------------------
(* Properties.                                                             *)

Places == {"idle", "allowed", "settling", "stopping", "waiting", "finishing", "polled"}

\* Every variable has its type.
TypeOK ==
    /\ status \in [Pids -> Active \cup Ended \cup {"none"}] /\ listed \subseteq Pids
    /\ leader \in [Pids -> Alive \cup Exited \cup {"none"}] /\ worker \in [Pids -> Alive \cup {"none"}]
    /\ reaped \subseteq Pids /\ pc \in [Threads -> Places] /\ arg \in [Threads -> Pids \cup {NoPid}]
    /\ server \in {"up", "closing", "exited"} /\ stopped \subseteq Pids

\* A record that says STOPPED or FAILED is of a process whose leader is gone,
\* whoever wrote it last: a stop, a reader or a start (_refresh, stop).
EndedIsDead == \A p \in Pids : status[p] \in Ended => leader[p] \in Exited

\* A leader that runs can be stopped: it is listed as active, or the call that
\* spawned it is about to list it (start).
EveryLeaderIsTracked ==
    \A p \in Pids : leader[p] \in Alive =>
        \/ p \in listed /\ status[p] \in Active
        \/ \E t \in Threads : pc[t] = "settling" /\ arg[t] = p

\* Every process has a record once it is spawned, and is listed with it; a
\* collected exit is one that happened.
Born ==
    /\ \A p \in Pids : status[p] = "none" <=> leader[p] = "none"
    /\ \A p \in listed : status[p] # "none"
    /\ \A p \in reaped : leader[p] \in Exited

\* What a call has in hand: a process only it knows while it starts, one that
\* is listed after that, and dead where the code takes it to be.
Claims ==
    /\ \A t \in Threads : pc[t] = "settling" =>
          /\ arg[t] \in Pids \ listed /\ status[arg[t]] = "STARTING"
          /\ \A u \in Threads : pc[u] = "settling" /\ arg[u] = arg[t] => u = t
    /\ \A t \in Threads : pc[t] \in {"stopping", "waiting", "finishing", "polled"} => arg[t] \in listed
    /\ \A t \in Threads : pc[t] \in {"finishing", "polled"} => leader[arg[t]] \in Exited

\* Nothing is under way in a server that has exited, and nothing was left active.
AtRest == server = "exited" =>
    /\ \A t \in Threads : pc[t] = "idle"
    /\ \A p \in listed : status[p] \notin Active

\* What records, processes and calls agree on, at every moment (inductive).
Supervision == TypeOK /\ EndedIsDead /\ EveryLeaderIsTracked /\ Born /\ Claims /\ AtRest

\* When the server has exited no leader is left running (__main__, atexit).
NothingOutlivesTheServer == server = "exited" => \A p \in Pids : leader[p] \notin Alive

\* Every call returns, however stubborn the process it has to stop.
CallsReturn == \A t \in Threads : pc[t] # "idle" ~> pc[t] = "idle"

\* The module says: "stopping a dev server takes its workers with it rather than
\* orphaning them".
WorkersGoWithLeader == \A p \in stopped : worker[p] = "none"
=============================================================================

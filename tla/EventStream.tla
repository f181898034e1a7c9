---------------------------- MODULE EventStream ----------------------------
(***************************************************************************)
(* Task records, their events, and the WebSocket connections that watch    *)
(* them: TaskStore.publish appends an event to a record and broadcasts it  *)
(* to the queues of the subscribers, a connection first replays the record *)
(* it filters on and then forwards its queue.  The events of a mission's   *)
(* step are published twice, on its own record and mirrored on the         *)
(* mission's (MissionEngine._wrap_sink).                                   *)
(***************************************************************************)
EXTENDS Naturals, Sequences, FiniteSets, SequencesExt

CONSTANTS
    Tasks,         (* task records                                              *)
    MissionOf,     (* the step tasks, with the mission task each is mirrored to *)
    Conns,         (* connections, each opened at most once                     *)
    QueueSize,     (* SUBSCRIBER_QUEUE_SIZE                                     *)
    MaxEvents,     (* bound: events published                                   *)
    All, System    (* no filter; the task id of payloads that belong to no task *)

ASSUME StreamAssumption ==
    /\ QueueSize \in Nat \ {0} /\ MaxEvents \in Nat
    /\ DOMAIN MissionOf \subseteq Tasks
    /\ \A t \in DOMAIN MissionOf : MissionOf[t] \in Tasks \ {t}
    /\ All \notin Tasks /\ System \notin Tasks /\ All # System

VARIABLES
    life,       \* per task: unborn, stored, evicted
    log,        \* TaskRecord.events
    count,      \* events published so far; an event is its task and its number
    subs,       \* the connections in TaskStore._subscribers
    conn,       \* per connection: new, hello, replaying, streaming, closed
    filter,     \* its task_id parameter
    queue,      \* its asyncio.Queue
    toReplay,   \* what is left of its replay
    got         \* what its client received

streamVars == <<life, log, count, subs, conn, filter, queue, toReplay, got>>
connVars == <<conn, filter, toReplay, got>>

Events == [task : Tasks \cup {System}, n : Nat]
Opened(c) == conn[c] \in {"hello", "replaying", "streaming"}

-----------------------------------------------------------------------------
StreamInit ==
    /\ life = [t \in Tasks |-> "unborn"] /\ log = [t \in Tasks |-> <<>>] /\ count = 0
    /\ subs = {} /\ conn = [c \in Conns |-> "new"] /\ filter = [c \in Conns |-> All]
    /\ queue = [c \in Conns |-> <<>>] /\ toReplay = [c \in Conns |-> <<>>]
    /\ got = [c \in Conns |-> <<>>]

\* TaskStore.create; a full store drops its oldest record, running or not.
Create(t) ==
    /\ life[t] = "unborn"
    /\ life' = [life EXCEPT ![t] = "stored"]
    /\ UNCHANGED <<log, count, subs, queue, connVars>>

Evict(t) ==
    /\ life[t] = "stored"
    /\ life' = [life EXCEPT ![t] = "evicted"]
    /\ UNCHANGED <<log, count, subs, queue, connVars>>

\* _broadcast, k times in a row: a queue without room loses its subscriber.
Wants(c, e) == c \in subs /\ filter[c] \in {All, e.task}
Room(c) == QueueSize - Len(queue[c])
KeepSubscriber(e, k) ==                  \* variant: a full queue just misses the event
    /\ queue' = [c \in Conns |->
           IF Wants(c, e) THEN queue[c] \o [i \in 1..(IF k <= Room(c) THEN k ELSE Room(c)) |-> e] ELSE queue[c]]
    /\ UNCHANGED subs
Broadcast(e, k) ==
    /\ queue' = [c \in Conns |->
           IF Wants(c, e) THEN queue[c] \o [i \in 1..(IF k <= Room(c) THEN k ELSE Room(c)) |-> e] ELSE queue[c]]
    /\ subs' = {c \in subs : Wants(c, e) => k <= Room(c)}

Event(t) == [task |-> t, n |-> count + 1]

\* An event of a task, on its own record.
Publish(t) ==
    /\ life[t] # "unborn" /\ count < MaxEvents
    /\ log' = [log EXCEPT ![t] = Append(@, Event(t))]
    /\ Broadcast(Event(t), 1)
    /\ count' = count + 1
    /\ UNCHANGED <<life, connVars>>

\* An event of a step, through the mission's sink too.
PublishMirrored(s) ==
    /\ s \in DOMAIN MissionOf /\ count < MaxEvents
    /\ life[s] # "unborn" /\ life[MissionOf[s]] # "unborn"
    /\ log' = [log EXCEPT ![s] = Append(@, Event(s)), ![MissionOf[s]] = Append(@, Event(s))]
    /\ Broadcast(Event(s), 2)
    /\ count' = count + 1
    /\ UNCHANGED <<life, connVars>>

\* Observations and suggestions: broadcast, in no record.
Announce ==
    /\ count < MaxEvents
    /\ Broadcast(Event(System), 1)
    /\ count' = count + 1
    /\ UNCHANGED <<life, log, connVars>>

-----------------------------------------------------------------------------
(* One connection.                                                         *)

\* Accepted: it subscribes before anything else, and is greeted.
Connect(c, f) ==
    /\ conn[c] = "new"
    /\ conn' = [conn EXCEPT ![c] = "hello"] /\ filter' = [filter EXCEPT ![c] = f]
    /\ subs' = subs \cup {c}
    /\ UNCHANGED <<life, log, count, queue, toReplay, got>>

\* The record's events so far, if there is a filter and the store has its task.
Snapshot(c) ==
    /\ conn[c] = "hello"
    /\ conn' = [conn EXCEPT ![c] = "replaying"]
    /\ toReplay' = [toReplay EXCEPT ![c] =
           IF filter[c] \in Tasks /\ life[filter[c]] = "stored" THEN log[filter[c]] ELSE <<>>]
    /\ UNCHANGED <<life, log, count, subs, filter, queue, got>>

Replay(c) ==
    /\ conn[c] = "replaying" /\ toReplay[c] # <<>>
    /\ got' = [got EXCEPT ![c] = Append(@, Head(toReplay[c]))]
    /\ toReplay' = [toReplay EXCEPT ![c] = Tail(@)]
    /\ UNCHANGED <<life, log, count, subs, conn, filter, queue>>

StartForwarding(c) ==
    /\ conn[c] = "replaying" /\ toReplay[c] = <<>>
    /\ conn' = [conn EXCEPT ![c] = "streaming"]
    /\ UNCHANGED <<life, log, count, subs, filter, queue, toReplay, got>>

\* _forward_events.
ForwardEarly(c) ==                       \* variant: the forwarder runs during the replay
    /\ conn[c] \in {"replaying", "streaming"} /\ queue[c] # <<>>
    /\ got' = [got EXCEPT ![c] = Append(@, Head(queue[c]))]
    /\ queue' = [queue EXCEPT ![c] = Tail(@)]
    /\ UNCHANGED <<life, log, count, subs, conn, filter, toReplay>>
Forward(c) ==
    /\ conn[c] = "streaming" /\ queue[c] # <<>>
    /\ got' = [got EXCEPT ![c] = Append(@, Head(queue[c]))]
    /\ queue' = [queue EXCEPT ![c] = Tail(@)]
    /\ UNCHANGED <<life, log, count, subs, conn, filter, toReplay>>

\* The client goes away: noticed at a send or by the receiver.
Disconnect(c) ==
    /\ Opened(c)
    /\ conn' = [conn EXCEPT ![c] = "closed"]
    /\ subs' = subs \ {c}
    /\ queue' = [queue EXCEPT ![c] = <<>>] /\ toReplay' = [toReplay EXCEPT ![c] = <<>>]
    /\ UNCHANGED <<life, log, count, filter, got>>

Store  == Announce \/ \E t \in Tasks : Create(t) \/ Evict(t) \/ Publish(t) \/ PublishMirrored(t)
Socket(c) ==
    \/ \E f \in Tasks \cup {All} : Connect(c, f)
    \/ Snapshot(c) \/ Replay(c) \/ StartForwarding(c) \/ Forward(c) \/ Disconnect(c)

StreamNext == Store \/ \E c \in Conns : Socket(c)
StreamSpec == StreamInit /\ [][StreamNext]_streamVars

-----------------------------------------------------------------------------
(* Properties.                                                             *)

\* Every variable has its type; no queue is longer than its bound.
StreamTypes ==
    /\ life \in [Tasks -> {"unborn", "stored", "evicted"}]
    /\ log \in [Tasks -> Seq(Events)] /\ count \in 0..MaxEvents
    /\ subs \subseteq Conns
    /\ conn \in [Conns -> {"new", "hello", "replaying", "streaming", "closed"}]
    /\ filter \in [Conns -> Tasks \cup {All}]
    /\ queue \in [Conns -> Seq(Events)] /\ \A c \in Conns : Len(queue[c]) <= QueueSize
    /\ toReplay \in [Conns -> Seq(Events)] /\ got \in [Conns -> Seq(Events)]

Own(t) == {e \in Range(log[t]) : e.task = t}

\* A subscriber that has been sent its whole queue has every event of the task
\* it asked for, those published before, during and after its replay: there is
\* no gap between the record and the stream (store.subscribe before replay).
NoGap ==
    \A c \in subs : conn[c] = "streaming" /\ queue[c] = <<>> /\ filter[c] \in Tasks =>
        (life[filter[c]] = "stored" => Own(filter[c]) \subseteq Range(got[c]))

\* Repetitions aside, what a client gets is in the order of publication, though
\* it comes from the record and from the queue; and an event comes at most three
\* times: replayed, and broadcast for the step's record and for the mission's.
FirstSeenInOrder ==
    /\ \A c \in Conns : \A i, j \in DOMAIN got[c] :
         (i < j /\ got[c][j].n < got[c][i].n) => \E h \in 1..(i - 1) : got[c][h] = got[c][j]
    /\ \A c \in Conns : \A e \in Range(got[c]) :
         Cardinality({i \in DOMAIN got[c] : got[c][i] = e}) <= IF e.task \in DOMAIN MissionOf THEN 3 ELSE 2

\* No subscription outlives its connection, and none starts after it.
NoLeakedSubscription == \A c \in subs : Opened(c)

\* The inductive invariant behind NoGap: every event of the task asked for is
\* with the client, still to be replayed, or in the queue.
Held(c) == Range(got[c]) \cup Range(toReplay[c]) \cup Range(queue[c])
GapInv ==
    /\ StreamTypes /\ NoLeakedSubscription
    /\ \A t \in Tasks : life[t] = "unborn" => log[t] = <<>>
    /\ \A c \in Conns : conn[c] \in {"new", "hello"} => toReplay[c] = <<>>
    /\ \A c \in Conns : conn[c] = "streaming" => toReplay[c] = <<>>
    /\ \A c \in subs : conn[c] \in {"replaying", "streaming"} /\ filter[c] \in Tasks =>
           (life[filter[c]] # "evicted" => Own(filter[c]) \subseteq Held(c))

\* What _wrap_sink and DECISIONS.md say of a client watching only a mission's
\* task id: it sees everything, the events of the steps too.
MissionWatcherSeesEverything ==
    \A c \in subs : conn[c] = "streaming" /\ queue[c] = <<>> /\ filter[c] \in Tasks =>
        (life[filter[c]] = "stored" => Range(log[filter[c]]) \subseteq Range(got[c]))
=============================================================================

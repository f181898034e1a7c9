------------------------- MODULE EventStreamProofs -------------------------
(***************************************************************************)
(* No subscriber has a gap between the record and its stream, whatever the *)
(* tasks, the connections and the size of the queues.                      *)
(***************************************************************************)
EXTENDS EventStream, FiniteSetTheorems, SequenceTheorems, TLAPS

-----------------------------------------------------------------------------
(* Ranges of sequences.                                                    *)

\* What appending does to the elements of a sequence.
LEMMA RangeAppend ==
    ASSUME NEW S, NEW s \in Seq(S), NEW e \in S
    PROVE  Append(s, e) \in Seq(S) /\ Range(Append(s, e)) = Range(s) \cup {e}
<1>1. Append(s, e) \in Seq(S) /\ Len(Append(s, e)) = Len(s) + 1
      /\ Append(s, e)[Len(s) + 1] = e /\ \A i \in 1..Len(s) : Append(s, e)[i] = s[i]
  OBVIOUS
<1>2. DOMAIN s = 1..Len(s) /\ DOMAIN Append(s, e) = 1..(Len(s) + 1) /\ Len(s) \in Nat
  BY <1>1
<1>3. Range(Append(s, e)) \subseteq Range(s) \cup {e}
  BY <1>1, <1>2 DEF Range
<1>4. Range(s) \cup {e} \subseteq Range(Append(s, e))
  BY <1>1, <1>2 DEF Range
<1> QED
  BY <1>1, <1>3, <1>4

\* What taking the first element away does to them.
LEMMA RangeTail ==
    ASSUME NEW S, NEW s \in Seq(S), s # <<>>
    PROVE  Head(s) \in S /\ Tail(s) \in Seq(S) /\ Range(s) \subseteq Range(Tail(s)) \cup {Head(s)}
           /\ Len(Tail(s)) <= Len(s)
<1>1. Head(s) \in S /\ Tail(s) \in Seq(S) /\ Len(s) \in Nat \ {0} /\ Len(Tail(s)) = Len(s) - 1
      /\ Head(s) = s[1] /\ \A i \in 1..(Len(s) - 1) : Tail(s)[i] = s[i + 1]
  OBVIOUS
<1>2. DOMAIN s = 1..Len(s) /\ DOMAIN Tail(s) = 1..(Len(s) - 1)
  BY <1>1
<1>3. ASSUME NEW i \in DOMAIN s PROVE s[i] \in Range(Tail(s)) \cup {Head(s)}
  <2>1. CASE i = 1
    BY <2>1, <1>1
  <2>2. CASE i # 1
    <3>1. i - 1 \in 1..(Len(s) - 1) /\ (i - 1) + 1 = i
      BY <2>2, <1>1, <1>2
    <3>2. Tail(s)[i - 1] = s[i]
      BY <3>1, <1>1
    <3> QED
      BY <3>1, <3>2, <1>2 DEF Range
  <2> QED
    BY <2>1, <2>2
<1> QED
  BY <1>1, <1>3 DEF Range

\* What adding m copies of an element does to them.
LEMMA RangeCopies ==
    ASSUME NEW S, NEW s \in Seq(S), NEW e \in S, NEW m \in Nat
    PROVE  /\ s \o [i \in 1..m |-> e] \in Seq(S) /\ Len(s \o [i \in 1..m |-> e]) = Len(s) + m
           /\ Range(s) \subseteq Range(s \o [i \in 1..m |-> e])
           /\ m > 0 => e \in Range(s \o [i \in 1..m |-> e])
<1> DEFINE r == [i \in 1..m |-> e]
           t == s \o r
<1>1. r \in Seq(S) /\ Len(r) = m
  OBVIOUS
<1>2. t \in Seq(S) /\ Len(t) = Len(s) + m /\ Len(s) \in Nat
  BY <1>1
<1>3. \A i \in 1..Len(s) : t[i] = s[i]
  BY <1>1
<1>4. m > 0 => t[Len(s) + 1] = e
  BY <1>1, <1>2
<1>5. DOMAIN t = 1..(Len(s) + m) /\ DOMAIN s = 1..Len(s)
  BY <1>2
<1> HIDE DEF t, r
<1>6. Range(s) \subseteq Range(t)
  <2>1. 1..Len(s) \subseteq 1..(Len(s) + m)
    BY <1>2
  <2> QED
    BY <1>3, <1>5, <2>1 DEF Range
<1>7. m > 0 => e \in Range(t)
  <2>1. m > 0 => Len(s) + 1 \in 1..(Len(s) + m)
    BY <1>2
  <2> QED
    BY <1>4, <1>5, <2>1 DEF Range
<1> QED
  BY <1>2, <1>6, <1>7 DEF t, r

-----------------------------------------------------------------------------
\* A broadcast gives a subscriber that wants the event a copy, or drops it.
LEMMA BroadcastFacts ==
    ASSUME StreamAssumption, StreamTypes, NEW e \in Events, NEW k \in {1, 2}, Broadcast(e, k)
    PROVE  /\ queue' \in [Conns -> Seq(Events)] /\ \A c \in Conns : Len(queue'[c]) <= QueueSize
           /\ subs' \subseteq subs
           /\ \A c \in Conns : Range(queue[c]) \subseteq Range(queue'[c])
           /\ \A c \in subs' : filter[c] = e.task => e \in Range(queue'[c])
<1> DEFINE m(c) == IF Wants(c, e) THEN (IF k <= Room(c) THEN k ELSE Room(c)) ELSE 0
<1>1. ASSUME NEW c \in Conns
      PROVE  /\ m(c) \in Nat /\ Len(queue[c]) + m(c) <= QueueSize
             /\ queue[c] \in Seq(Events) /\ Len(queue[c]) \in Nat
  <2>1. queue[c] \in Seq(Events) /\ Len(queue[c]) <= QueueSize /\ QueueSize \in Nat
    BY DEF StreamTypes, StreamAssumption
  <2>2. Len(queue[c]) \in Nat
    BY <2>1
  <2>3. Room(c) \in Nat /\ Len(queue[c]) + Room(c) = QueueSize
    BY <2>1, <2>2 DEF Room, StreamAssumption
  <2>4. CASE Wants(c, e) /\ k <= Room(c)
    BY <2>1, <2>2, <2>3, <2>4
  <2>5. CASE Wants(c, e) /\ ~(k <= Room(c))
    BY <2>1, <2>2, <2>3, <2>5
  <2>6. CASE ~Wants(c, e)
    BY <2>1, <2>2, <2>3, <2>6
  <2> QED
    BY <2>4, <2>5, <2>6
<1>2. ASSUME NEW c \in Conns
      PROVE  queue'[c] = queue[c] \o [i \in 1..m(c) |-> e]
  <2>1. CASE Wants(c, e)
    BY <2>1 DEF Broadcast
  <2>2. CASE ~Wants(c, e)
    <3>1. m(c) = 0 /\ queue'[c] = queue[c]
      BY <2>2 DEF Broadcast
    <3>2. [i \in 1..0 |-> e] = <<>>
      OBVIOUS
    <3>3. queue[c] \o <<>> = queue[c]
      BY <1>1
    <3> QED
      BY <3>1, <3>2, <3>3
  <2> QED
    BY <2>1, <2>2
<1>3. ASSUME NEW c \in Conns
      PROVE  /\ queue'[c] \in Seq(Events) /\ Len(queue'[c]) <= QueueSize
             /\ Range(queue[c]) \subseteq Range(queue'[c])
             /\ m(c) > 0 => e \in Range(queue'[c])
  <2> HIDE DEF m
  <2> DEFINE q == queue[c] \o [i \in 1..m(c) |-> e]
  <2>0. queue[c] \in Seq(Events) /\ m(c) \in Nat /\ Len(queue[c]) + m(c) <= QueueSize
    BY <1>1
  <2>1. /\ q \in Seq(Events) /\ Len(q) = Len(queue[c]) + m(c)
        /\ Range(queue[c]) \subseteq Range(q)
        /\ m(c) > 0 => e \in Range(q)
    BY <2>0, RangeCopies, SMTT(30)
  <2>2. queue'[c] = q
    BY <1>2
  <2> HIDE DEF q
  <2> QED
    BY <2>0, <2>1, <2>2
<1>4. queue' = [c \in Conns |-> queue'[c]]
  BY DEF Broadcast
<1>5. subs' \subseteq subs /\ \A c \in subs' : Wants(c, e) => k <= Room(c)
  BY DEF Broadcast
<1>6. ASSUME NEW c \in subs', filter[c] = e.task
      PROVE  e \in Range(queue'[c])
  <2>1. Wants(c, e) /\ c \in Conns
    BY <1>5, <1>6 DEF Wants, StreamTypes
  <2>2. m(c) > 0
    BY <2>1, <1>5, <1>6
  <2> QED
    BY <1>3, <2>1, <2>2
<1> QED
  BY <1>3, <1>4, <1>5, <1>6

\* The last part of GapInv, for one subscriber.
Covered(c) ==
    conn[c] \in {"replaying", "streaming"} /\ filter[c] \in Tasks =>
        (life[filter[c]] # "evicted" => Own(filter[c]) \subseteq Held(c))

\* Publishing keeps GapInv: the event goes to the records in E and, k times,
\* to the subscribers.
LEMMA PublishingIsCovered ==
    ASSUME StreamAssumption, GapInv, NEW e \in Events, NEW k \in {1, 2}, Broadcast(e, k),
           NEW E \in SUBSET Tasks, \A t \in E : life[t] # "unborn",
           log' = [t \in Tasks |-> IF t \in E THEN Append(log[t], e) ELSE log[t]],
           count < MaxEvents, count' = count + 1, UNCHANGED <<life, connVars>>
    PROVE  GapInv'
<1>1. /\ queue' \in [Conns -> Seq(Events)] /\ \A c \in Conns : Len(queue'[c]) <= QueueSize
      /\ subs' \subseteq subs
      /\ \A c \in Conns : Range(queue[c]) \subseteq Range(queue'[c])
      /\ \A c \in subs' : filter[c] = e.task => e \in Range(queue'[c])
  BY BroadcastFacts DEF GapInv
<1>2. ASSUME NEW t \in Tasks
      PROVE  log'[t] \in Seq(Events) /\ Range(log'[t]) \subseteq Range(log[t]) \cup {e}
  <2>1. log[t] \in Seq(Events)
    BY DEF GapInv, StreamTypes
  <2>2. CASE t \in E
    BY <2>1, <2>2, RangeAppend
  <2>3. CASE t \notin E
    BY <2>1, <2>3
  <2> QED
    BY <2>2, <2>3
<1>3. StreamTypes'
  <2>1. log' \in [Tasks -> Seq(Events)]
    BY <1>2
  <2>2. count' \in 0..MaxEvents
    BY DEF GapInv, StreamTypes, StreamAssumption
  <2> QED
    BY <1>1, <2>1, <2>2 DEF GapInv, StreamTypes, connVars
<1>4. NoLeakedSubscription'
  BY <1>1 DEF GapInv, NoLeakedSubscription, Opened, connVars
<1>5. \A t \in Tasks : life'[t] = "unborn" => log'[t] = <<>>
  BY DEF GapInv, connVars
<1>6. ASSUME NEW c \in subs' PROVE Covered(c)'
  <2> SUFFICES ASSUME conn[c] \in {"replaying", "streaming"}, filter[c] \in Tasks,
                      life[filter[c]] # "evicted", NEW x \in Own(filter[c])'
               PROVE  x \in Held(c)'
    BY DEF Covered, connVars
  <2>1. c \in subs /\ c \in Conns
    BY <1>1 DEF GapInv, StreamTypes
  <2>2. x \in Range(log'[filter[c]]) /\ x.task = filter[c]
    BY DEF Own, connVars
  <2>3. CASE x = e
    BY <2>1, <2>2, <2>3, <1>1 DEF Held
  <2>4. CASE x # e
    <3>1. x \in Own(filter[c])
      BY <2>2, <2>4, <1>2 DEF Own
    <3>2. x \in Held(c)
      BY <2>1, <3>1 DEF GapInv
    <3> QED
      BY <2>1, <3>2, <1>1 DEF Held, connVars
  <2> QED
    BY <2>3, <2>4
<1>7. \A c \in Conns : (conn'[c] \in {"new", "hello"} => toReplay'[c] = <<>>)
                       /\ (conn'[c] = "streaming" => toReplay'[c] = <<>>)
  BY DEF GapInv, connVars
<1> QED
  BY <1>3, <1>4, <1>5, <1>6, <1>7 DEF GapInv, Covered

\* Initially there is nothing to miss.
LEMMA GapInvInit == ASSUME StreamAssumption, StreamInit PROVE GapInv
  BY DEF StreamInit, GapInv, StreamTypes, NoLeakedSubscription, StreamAssumption, Events

\* What the store does keeps GapInv.
LEMMA StoreKeepsGapInv ==
    ASSUME StreamAssumption, GapInv, Store
    PROVE  GapInv'
<1> USE DEF GapInv
<1>0. \A t \in Tasks \cup {System} : Event(t) \in Events
  BY DEF Event, Events, StreamTypes
<1>1. CASE Announce
  <2>1. log' = [t \in Tasks |-> IF t \in {} THEN Append(log[t], Event(System)) ELSE log[t]]
    BY <1>1 DEF Announce, StreamTypes
  <2>2. /\ Event(System) \in Events /\ Broadcast(Event(System), 1)
        /\ count < MaxEvents /\ count' = count + 1 /\ UNCHANGED <<life, connVars>>
    BY <1>0, <1>1 DEF Announce
  <2>3. {} \in SUBSET Tasks /\ 1 \in {1, 2} /\ \A t \in {} : life[t] # "unborn"
    OBVIOUS
  <2> HIDE DEF GapInv
  <2> QED
    BY <2>1, <2>2, <2>3, PublishingIsCovered
<1>2. ASSUME NEW t \in Tasks, Create(t) PROVE GapInv'
  <2>1. StreamTypes' /\ NoLeakedSubscription'
    BY <1>2 DEF Create, StreamTypes, NoLeakedSubscription, Opened, connVars
  <2>2. ASSUME NEW c \in subs' PROVE Covered(c)'
    <3>1. c \in subs /\ c \in Conns /\ Held(c)' = Held(c) /\ filter' = filter /\ conn' = conn
      BY <1>2, <2>2 DEF Create, StreamTypes, Held, connVars
    <3>2. filter[c] \in Tasks => Own(filter[c])' = Own(filter[c])
      BY <1>2, <3>1 DEF Create, Own, connVars
    <3>3. CASE filter[c] \in Tasks
      <4>1. life'[filter[c]] # "evicted" => life[filter[c]] # "evicted"
        BY <1>2, <3>3 DEF Create, StreamTypes
      <4> QED
        BY <3>1, <3>2, <3>3, <4>1 DEF Covered
    <3> QED
      BY <3>1, <3>3 DEF Covered
  <2>3. \A u \in Tasks : life'[u] = "unborn" => log'[u] = <<>>
    BY <1>2 DEF Create, StreamTypes
  <2> QED
    BY <1>2, <2>1, <2>2, <2>3 DEF Create, connVars, Covered
<1>3. ASSUME NEW t \in Tasks, Evict(t) PROVE GapInv'
  <2>1. StreamTypes' /\ NoLeakedSubscription'
    BY <1>3 DEF Evict, StreamTypes, NoLeakedSubscription, Opened, connVars
  <2>2. ASSUME NEW c \in subs' PROVE Covered(c)'
    <3>1. c \in subs /\ c \in Conns /\ Held(c)' = Held(c) /\ filter' = filter /\ conn' = conn
      BY <1>3, <2>2 DEF Evict, StreamTypes, Held, connVars
    <3>2. filter[c] \in Tasks => Own(filter[c])' = Own(filter[c])
      BY <1>3, <3>1 DEF Evict, Own, connVars
    <3>3. CASE filter[c] \in Tasks
      <4>1. life'[filter[c]] # "evicted" => life[filter[c]] # "evicted"
        BY <1>3, <3>3 DEF Evict, StreamTypes
      <4> QED
        BY <3>1, <3>2, <3>3, <4>1 DEF Covered
    <3> QED
      BY <3>1, <3>3 DEF Covered
  <2>3. \A u \in Tasks : life'[u] = "unborn" => log'[u] = <<>>
    BY <1>3 DEF Evict, StreamTypes
  <2> QED
    BY <1>3, <2>1, <2>2, <2>3 DEF Evict, connVars, Covered
<1>4. ASSUME NEW t \in Tasks, Publish(t) PROVE GapInv'
  <2>1. log' = [u \in Tasks |-> IF u \in {t} THEN Append(log[u], Event(t)) ELSE log[u]]
    BY <1>4 DEF Publish, StreamTypes
  <2>2. /\ Event(t) \in Events /\ Broadcast(Event(t), 1)
        /\ count < MaxEvents /\ count' = count + 1 /\ UNCHANGED <<life, connVars>>
    BY <1>0, <1>4 DEF Publish
  <2>3. {t} \in SUBSET Tasks /\ 1 \in {1, 2} /\ \A u \in {t} : life[u] # "unborn"
    BY <1>4 DEF Publish
  <2> HIDE DEF GapInv
  <2> QED
    BY <2>1, <2>2, <2>3, PublishingIsCovered
<1>5. ASSUME NEW s \in Tasks, PublishMirrored(s) PROVE GapInv'
  <2>1. s \in DOMAIN MissionOf /\ MissionOf[s] \in Tasks \ {s}
    BY <1>5 DEF PublishMirrored, StreamAssumption
  <2>2. log' = [u \in Tasks |-> IF u \in {s, MissionOf[s]} THEN Append(log[u], Event(s)) ELSE log[u]]
    BY <1>5, <2>1 DEF PublishMirrored, StreamTypes
  <2>3. /\ Event(s) \in Events /\ Broadcast(Event(s), 2)
        /\ count < MaxEvents /\ count' = count + 1 /\ UNCHANGED <<life, connVars>>
    BY <1>0, <1>5 DEF PublishMirrored
  <2>4. /\ {s, MissionOf[s]} \in SUBSET Tasks /\ 2 \in {1, 2}
        /\ \A u \in {s, MissionOf[s]} : life[u] # "unborn"
    BY <1>5, <2>1 DEF PublishMirrored
  <2> HIDE DEF GapInv
  <2> QED
    BY <2>2, <2>3, <2>4, PublishingIsCovered
<1> QED
  BY <1>1, <1>2, <1>3, <1>4, <1>5 DEF Store

\* What a connection does keeps GapInv.
LEMMA SocketKeepsGapInv ==
    ASSUME StreamAssumption, GapInv, NEW d \in Conns, Socket(d)
    PROVE  GapInv'
<1> USE DEF GapInv
<1>0. /\ queue \in [Conns -> Seq(Events)] /\ toReplay \in [Conns -> Seq(Events)]
      /\ got \in [Conns -> Seq(Events)] /\ conn \in [Conns -> {"new", "hello", "replaying", "streaming", "closed"}]
      /\ filter \in [Conns -> Tasks \cup {All}] /\ log \in [Tasks -> Seq(Events)] /\ subs \subseteq Conns
  BY DEF StreamTypes
<1> DEFINE Same(c) == conn'[c] = conn[c] /\ filter'[c] = filter[c] /\ Held(c) \subseteq Held(c)'
<1>a. ASSUME life' = life, log' = log, NEW c \in subs \cap subs', Same(c) PROVE Covered(c)'
  BY <1>a DEF Covered, Own
<1>1. ASSUME NEW f \in Tasks \cup {All}, Connect(d, f) PROVE GapInv'
  <2>1. StreamTypes' /\ NoLeakedSubscription'
    <3>1. conn' \in [Conns -> {"new", "hello", "replaying", "streaming", "closed"}]
      BY <1>0, <1>1 DEF Connect
    <3>2. filter' \in [Conns -> Tasks \cup {All}] /\ subs' \subseteq Conns
      BY <1>0, <1>1 DEF Connect
    <3>3. StreamTypes'
      BY <1>1, <3>1, <3>2 DEF Connect, StreamTypes
    <3>4. NoLeakedSubscription'
      BY <1>0, <1>1 DEF Connect, NoLeakedSubscription, Opened
    <3> QED
      BY <3>3, <3>4
  <2>2. ASSUME NEW c \in subs' PROVE Covered(c)'
    <3>1. CASE c = d
      BY <1>0, <1>1, <3>1 DEF Connect, Covered
    <3>2. CASE c # d
      <4>1. c \in subs \cap subs' /\ Same(c)
        BY <1>0, <1>1, <2>2, <3>2 DEF Connect, Held
      <4> QED
        BY <4>1, <1>a, <1>1 DEF Connect
    <3> QED
      BY <3>1, <3>2
  <2> QED
    BY <1>0, <1>1, <2>1, <2>2 DEF Connect, Covered
<1>2. CASE Snapshot(d)
  <2>1. StreamTypes' /\ NoLeakedSubscription'
    <3>1. ASSUME NEW c \in Conns PROVE toReplay'[c] \in Seq(Events)
      <4>1. <<>> \in Seq(Events)
        OBVIOUS
      <4>2. filter[d] \in Tasks => log[filter[d]] \in Seq(Events)
        BY <1>0
      <4>3. toReplay'[c] \in {toReplay[c], <<>>} \/ (filter[d] \in Tasks /\ toReplay'[c] = log[filter[d]])
        BY <1>2, <1>0 DEF Snapshot
      <4> QED
        BY <4>1, <4>2, <4>3, <1>0
    <3>2. toReplay' \in [Conns -> Seq(Events)]
      BY <3>1, <1>2, <1>0 DEF Snapshot
    <3>3. conn' \in [Conns -> {"new", "hello", "replaying", "streaming", "closed"}]
      BY <1>2, <1>0 DEF Snapshot
    <3>4. StreamTypes'
      BY <1>2, <3>2, <3>3 DEF Snapshot, StreamTypes
    <3>5. NoLeakedSubscription'
      BY <1>2, <1>0 DEF Snapshot, NoLeakedSubscription, Opened
    <3> QED
      BY <3>4, <3>5
  <2>2. ASSUME NEW c \in subs' PROVE Covered(c)'
    <3>1. CASE c = d
      <4> SUFFICES ASSUME filter[d] \in Tasks, life[filter[d]] # "evicted"
                   PROVE  Own(filter[d]) \subseteq Held(d)'
        BY <1>2, <3>1 DEF Snapshot, Covered, Own
      <4>1. CASE life[filter[d]] = "stored"
        <5>1. toReplay'[d] = log[filter[d]]
          BY <1>2, <1>0, <4>1 DEF Snapshot
        <5> QED
          BY <5>1 DEF Own, Held
      <4>2. CASE life[filter[d]] = "unborn"
        <5>1. log[filter[d]] = <<>>
          BY <4>2
        <5> QED
          BY <5>1 DEF Own, Range
      <4> QED
        BY <4>1, <4>2 DEF StreamTypes
    <3>2. CASE c # d
      <4>1. c \in subs \cap subs' /\ Same(c)
        BY <1>0, <1>2, <2>2, <3>2 DEF Snapshot, Held
      <4> QED
        BY <4>1, <1>a, <1>2 DEF Snapshot
    <3> QED
      BY <3>1, <3>2
  <2> QED
    BY <1>0, <1>2, <2>1, <2>2 DEF Snapshot, Covered
<1>3. CASE Replay(d)
  <2>0. /\ Head(toReplay[d]) \in Events /\ Tail(toReplay[d]) \in Seq(Events)
        /\ Range(toReplay[d]) \subseteq Range(Tail(toReplay[d])) \cup {Head(toReplay[d])}
    BY <1>0, <1>3, RangeTail DEF Replay
  <2>1. /\ got'[d] \in Seq(Events) /\ Range(got'[d]) = Range(got[d]) \cup {Head(toReplay[d])}
        /\ toReplay'[d] = Tail(toReplay[d])
    BY <1>0, <1>3, <2>0, RangeAppend DEF Replay
  <2>2. StreamTypes' /\ NoLeakedSubscription'
    BY <1>3, <1>0, <2>0, <2>1 DEF Replay, StreamTypes, NoLeakedSubscription, Opened
  <2>3. ASSUME NEW c \in subs' PROVE Covered(c)'
    <3>1. c \in subs \cap subs' /\ c \in Conns
      BY <1>0, <1>3, <2>3 DEF Replay
    <3>2. CASE c = d
      <4>1. Same(c)
        BY <1>3, <2>0, <2>1, <3>2 DEF Replay, Held
      <4> QED
        BY <3>1, <4>1, <1>a, <1>3 DEF Replay
    <3>3. CASE c # d
      <4>1. Same(c)
        BY <1>0, <1>3, <3>1, <3>3 DEF Replay, Held
      <4> QED
        BY <3>1, <4>1, <1>a, <1>3 DEF Replay
    <3> QED
      BY <3>2, <3>3
  <2> QED
    BY <1>0, <1>3, <2>2, <2>3 DEF Replay, Covered
<1>4. CASE StartForwarding(d)
  <2>1. StreamTypes' /\ NoLeakedSubscription'
    BY <1>4, <1>0 DEF StartForwarding, StreamTypes, NoLeakedSubscription, Opened
  <2>2. ASSUME NEW c \in subs' PROVE Covered(c)'
    BY <1>0, <1>4, <2>2 DEF StartForwarding, Covered, Own, Held
  <2> QED
    BY <1>0, <1>4, <2>1, <2>2 DEF StartForwarding, Covered
<1>5. CASE Forward(d)
  <2>0. /\ Head(queue[d]) \in Events /\ Tail(queue[d]) \in Seq(Events) /\ Len(Tail(queue[d])) <= Len(queue[d])
        /\ Range(queue[d]) \subseteq Range(Tail(queue[d])) \cup {Head(queue[d])}
    BY <1>0, <1>5, RangeTail DEF Forward
  <2>1. /\ got'[d] \in Seq(Events) /\ Range(got'[d]) = Range(got[d]) \cup {Head(queue[d])}
        /\ queue'[d] = Tail(queue[d])
    BY <1>0, <1>5, <2>0, RangeAppend DEF Forward
  <2>2. queue' \in [Conns -> Seq(Events)] /\ \A c \in Conns : Len(queue'[c]) <= QueueSize
    <3>1. ASSUME NEW c \in Conns PROVE queue'[c] \in Seq(Events) /\ Len(queue'[c]) <= QueueSize
      <4>1. Len(queue[d]) \in Nat /\ Len(Tail(queue[d])) \in Nat /\ QueueSize \in Nat
        BY <1>0, <2>0 DEF StreamAssumption
      <4>2. CASE c = d
        <5>1. Len(queue[d]) <= QueueSize
          BY DEF StreamTypes
        <5> QED
          BY <4>1, <4>2, <5>1, <2>0, <2>1
      <4>3. CASE c # d
        BY <4>3, <1>0, <1>5 DEF Forward, StreamTypes
      <4> QED
        BY <4>2, <4>3
    <3>2. queue' = [queue EXCEPT ![d] = Tail(@)]
      BY <1>5 DEF Forward
    <3> QED
      BY <3>1, <3>2, <1>0
  <2>3. StreamTypes' /\ NoLeakedSubscription'
    BY <1>5, <1>0, <2>1, <2>2 DEF Forward, StreamTypes, NoLeakedSubscription, Opened
  <2>4. ASSUME NEW c \in subs' PROVE Covered(c)'
    <3>1. c \in subs \cap subs' /\ c \in Conns
      BY <1>0, <1>5, <2>4 DEF Forward
    <3>2. CASE c = d
      <4>1. Same(c)
        BY <1>5, <2>0, <2>1, <3>2 DEF Forward, Held
      <4> QED
        BY <3>1, <4>1, <1>a, <1>5 DEF Forward
    <3>3. CASE c # d
      <4>1. Same(c)
        BY <1>0, <1>5, <3>1, <3>3 DEF Forward, Held
      <4> QED
        BY <3>1, <4>1, <1>a, <1>5 DEF Forward
    <3> QED
      BY <3>2, <3>3
  <2> QED
    BY <1>0, <1>5, <2>3, <2>4 DEF Forward, Covered
<1>6. CASE Disconnect(d)
  <2>1. <<>> \in Seq(Events) /\ Len(<<>>) <= QueueSize
    BY DEF StreamAssumption
  <2>2. StreamTypes' /\ NoLeakedSubscription'
    BY <1>6, <1>0, <2>1 DEF Disconnect, StreamTypes, NoLeakedSubscription, Opened
  <2>3. ASSUME NEW c \in subs' PROVE Covered(c)'
    <3>1. c \in subs \cap subs' /\ c \in Conns /\ c # d
      BY <1>0, <1>6, <2>3 DEF Disconnect
    <3>2. Same(c)
      BY <1>0, <1>6, <3>1 DEF Disconnect, Held
    <3> QED
      BY <3>1, <3>2, <1>a, <1>6 DEF Disconnect
  <2> QED
    BY <1>0, <1>6, <2>2, <2>3 DEF Disconnect, Covered
<1> QED
  BY <1>1, <1>2, <1>3, <1>4, <1>5, <1>6 DEF Socket

-----------------------------------------------------------------------------
\* Every event of the task a subscriber asked for is with its client, still to
\* be replayed, or in its queue (subscribe, replay and _forward_events).
THEOREM GapInvHolds == ASSUME StreamAssumption PROVE StreamSpec => []GapInv
<1>1. StreamInit => GapInv
  BY GapInvInit
<1>2. GapInv /\ [StreamNext]_streamVars => GapInv'
  <2> SUFFICES ASSUME GapInv, [StreamNext]_streamVars PROVE GapInv'
    OBVIOUS
  <2>1. CASE Store
    BY <2>1, StoreKeepsGapInv
  <2>2. ASSUME NEW c \in Conns, Socket(c) PROVE GapInv'
    BY <2>2, SocketKeepsGapInv
  <2>3. CASE UNCHANGED streamVars
    BY <2>3 DEF streamVars, GapInv, StreamTypes, NoLeakedSubscription, Opened, Own, Held
  <2> QED
    BY <2>1, <2>2, <2>3 DEF StreamNext
<1> QED
  BY <1>1, <1>2, PTL DEF StreamSpec

\* No subscriber that has been sent its whole queue misses an event of the task
\* it asked for: the order of subscribe and replay in the WebSocket handler.
THEOREM NoGapHolds == ASSUME StreamAssumption PROVE StreamSpec => []NoGap
<1>1. GapInv => NoGap
  <2> SUFFICES ASSUME GapInv, NEW c \in subs, conn[c] = "streaming", queue[c] = <<>>,
                      filter[c] \in Tasks, life[filter[c]] = "stored"
               PROVE  Own(filter[c]) \subseteq Range(got[c])
    BY DEF NoGap
  <2>1. c \in Conns /\ toReplay[c] = <<>>
    BY DEF GapInv, StreamTypes
  <2>2. Range(<<>>) = {}
    BY DEF Range
  <2>3. Own(filter[c]) \subseteq Held(c)
    BY DEF GapInv
  <2> QED
    BY <2>1, <2>2, <2>3 DEF Held
<1> QED
  BY <1>1, GapInvHolds, PTL

-----------------------------------------------------------------------------
(* The order of what a client gets.                                        *)

\* Two sequences joined: where their elements are.
LEMMA Joined ==
    ASSUME NEW S, NEW s \in Seq(S), NEW q \in Seq(S)
    PROVE  /\ s \o q \in Seq(S) /\ Len(s) \in Nat /\ Len(q) \in Nat
           /\ DOMAIN s = 1..Len(s) /\ DOMAIN q = 1..Len(q) /\ DOMAIN (s \o q) = 1..(Len(s) + Len(q))
           /\ \A i \in 1..Len(s) : (s \o q)[i] = s[i]
           /\ \A i \in 1..Len(q) : (s \o q)[Len(s) + i] = q[i]
           /\ \A i \in 1..(Len(s) + Len(q)) : i \notin 1..Len(s) => i - Len(s) \in 1..Len(q) /\ (s \o q)[i] = q[i - Len(s)]
OBVIOUS

\* The first of one is handed over to the other.
LEMMA Handover ==
    ASSUME NEW S, NEW s \in Seq(S), NEW q \in Seq(S), q # <<>>
    PROVE  /\ Append(s, Head(q)) \in Seq(S) /\ Tail(q) \in Seq(S)
           /\ Append(s, Head(q)) \o Tail(q) = s \o q
<1>1. Head(q) \in S /\ Tail(q) \in Seq(S) /\ <<Head(q)>> \in Seq(S)
  OBVIOUS
<1>2. Append(s, Head(q)) = s \o <<Head(q)>>
  BY <1>1, AppendIsConcat
<1>3. <<Head(q)>> \o Tail(q) = q
  BY <1>1
<1>4. (s \o <<Head(q)>>) \o Tail(q) = s \o (<<Head(q)>> \o Tail(q))
  BY <1>1, ConcatAssociative
<1> QED BY <1>1, <1>2, <1>3, <1>4

\* Joining three sequences; the equation has a name so that it is used only where cited.
Regrouped(s, t, u) == (s \o t) \o u = s \o (t \o u)
\* Concatenation is associative.
LEMMA Regroup ==
    ASSUME NEW s \in Seq(Events), NEW t \in Seq(Events), NEW u \in Seq(Events) PROVE Regrouped(s, t, u)
BY ConcatAssociative DEF Regrouped

Grows(s) == \A i, j \in DOMAIN s : i < j => s[i].n < s[j].n
UpTo(s, n) == \A i \in DOMAIN s : s[i].n <= n

\* A replay R and what came through the queue, Q: the one grows; the other repeats
\* only a step's event, and only at once; and what it brings late was replayed.
Fits(R, Q) ==
    /\ Grows(R)
    /\ \A i, j \in DOMAIN Q : i < j => /\ Q[i].n <= Q[j].n
                                       /\ Q[i].n = Q[j].n => j = i + 1 /\ Q[i].task \in DOMAIN MissionOf
    /\ \A q \in Range(Q), r \in Range(R) : q.n < r.n => q \in Range(R)

\* A record with one event more.
LEMMA GrowsOn ==
    ASSUME NEW s \in Seq(Events), NEW n \in Nat, Grows(s), UpTo(s, n), NEW e \in Events, e.n = n + 1
    PROVE  Append(s, e) \in Seq(Events) /\ Grows(Append(s, e)) /\ UpTo(Append(s, e), n + 1)
<1> DEFINE new == Append(s, e)
           m == Len(s)
<1>1. /\ new \in Seq(Events) /\ m \in Nat /\ DOMAIN s = 1..m /\ DOMAIN new = 1..(m + 1)
      /\ new[m + 1] = e /\ \A i \in 1..m : new[i] = s[i]
  OBVIOUS
<1> HIDE DEF new, m
<1>2. \A i \in 1..m : s[i].n \in Nat /\ s[i].n <= n
  <2>1. \A i \in 1..m : s[i] \in Events
    BY <1>1
  <2> QED BY <1>1, <2>1 DEF UpTo, Events
<1>3. Grows(new)
  BY <1>1, <1>2 DEF Grows
<1>4. UpTo(new, n + 1)
  BY <1>1, <1>2 DEF UpTo
<1> QED BY <1>1, <1>3, <1>4 DEF new

\* The newest event comes through the queue, twice at most.
LEMMA CopiesFit ==
    ASSUME NEW R \in Seq(Events), NEW Q \in Seq(Events), NEW n \in Nat, Fits(R, Q), UpTo(R, n), UpTo(Q, n),
           NEW e \in Events, e.n = n + 1, NEW m \in {0, 1, 2}, m = 2 => e.task \in DOMAIN MissionOf,
           NEW C \in Seq(Events), Len(C) = m, \A i \in 1..m : C[i] = e
    PROVE  Q \o C \in Seq(Events) /\ Fits(R, Q \o C) /\ UpTo(Q \o C, n + 1)
<1> DEFINE new == Q \o C
           l == Len(Q)
<1>1. C \in Seq(Events) /\ Len(C) = m /\ \A i \in 1..m : C[i] = e
  OBVIOUS
<1>2. /\ new \in Seq(Events) /\ l \in Nat /\ DOMAIN Q = 1..l /\ DOMAIN new = 1..(l + m)
      /\ \A i \in 1..l : new[i] = Q[i]
      /\ \A i \in 1..(l + m) : i \notin 1..l => new[i] = e
  BY <1>1, Joined
<1>3. \A i \in 1..l : Q[i].n \in Nat /\ Q[i].n <= n
  <2>1. \A i \in 1..l : Q[i] \in Events
    BY <1>2
  <2> QED BY <1>2, <2>1 DEF UpTo, Events
<1>4. \A r \in Range(R) : r.n \in Nat /\ r.n <= n
  <2>1. \A i \in DOMAIN R : R[i] \in Events
    OBVIOUS
  <2> QED BY <2>1 DEF UpTo, Events, Range
<1> HIDE DEF new, l
<1>5. UpTo(new, n + 1)
  BY <1>2, <1>3 DEF UpTo
<1>6. ASSUME NEW i \in 1..(l + m), NEW j \in 1..(l + m), i < j
      PROVE  new[i].n <= new[j].n /\ (new[i].n = new[j].n => j = i + 1 /\ new[i].task \in DOMAIN MissionOf)
  <2>1. CASE j \in 1..l
    <3>1. i \in 1..l
      BY <1>2, <1>6, <2>1
    <3> QED BY <1>2, <1>6, <2>1, <3>1 DEF Fits
  <2>2. CASE i \in 1..l /\ j \notin 1..l
    BY <1>2, <1>3, <2>2
  <2>3. CASE i \notin 1..l /\ j \notin 1..l
    <3>1. new[i] = e /\ new[j] = e
      BY <1>2, <2>3
    <3>2. m = 2 /\ j = i + 1
      BY <1>2, <1>6, <2>3
    <3> QED BY <3>1, <3>2
  <2> QED BY <1>2, <1>6, <2>1, <2>2, <2>3
<1>7. \A q \in Range(new), r \in Range(R) : q.n < r.n => q \in Range(R)
  <2>1. \A q \in Range(new) : q \in Range(Q) \/ q = e
    BY <1>2 DEF Range
  <2>2. \A r \in Range(R) : ~(e.n < r.n)
    BY <1>4
  <2> QED BY <2>1, <2>2 DEF Fits
<1>8. Fits(R, new)
  BY <1>2, <1>6, <1>7 DEF Fits
<1> QED BY <1>2, <1>5, <1>8 DEF new

\* What is out of order came before.
LateRepeated(s) == \A i, j \in DOMAIN s : i < j /\ s[j].n < s[i].n => \E h \in 1..(i - 1) : s[h] = s[j]
\* In a replay with its queue, an event behind a later one is a repetition.
LEMMA LateIsRepeated ==
    ASSUME NEW R \in Seq(Events), NEW Q \in Seq(Events), Fits(R, Q)
    PROVE  LateRepeated(R \o Q)
<1> SUFFICES ASSUME NEW i \in DOMAIN (R \o Q), NEW j \in DOMAIN (R \o Q), i < j, (R \o Q)[j].n < (R \o Q)[i].n
             PROVE  \E h \in 1..(i - 1) : (R \o Q)[h] = (R \o Q)[j]
  BY Zenon DEF LateRepeated
<1> DEFINE W == R \o Q
           l == Len(R)
<1>1. /\ l \in Nat /\ Len(Q) \in Nat /\ DOMAIN R = 1..l /\ DOMAIN Q = 1..Len(Q) /\ DOMAIN W = 1..(l + Len(Q))
      /\ \A k \in 1..l : W[k] = R[k]
      /\ \A k \in 1..(l + Len(Q)) : k \notin 1..l => k - l \in 1..Len(Q) /\ W[k] = Q[k - l]
  BY Joined
<1>a. (\A k \in DOMAIN R : R[k] \in Events) /\ (\A k \in DOMAIN Q : Q[k] \in Events)
  OBVIOUS
<1>2. \A k \in DOMAIN R : R[k].n \in Nat
  BY <1>a DEF Events
<1>3. \A k \in DOMAIN Q : Q[k].n \in Nat
  BY <1>a DEF Events
<1>4. i \in 1..(l + Len(Q)) /\ j \in 1..(l + Len(Q)) /\ i < j /\ W[j].n < W[i].n
  BY <1>1
<1> HIDE DEF W, l
<1>5. CASE j \in 1..l
  <2>1. i \in 1..l /\ R[i].n < R[j].n
    BY <1>1, <1>4, <1>5 DEF Fits, Grows
  <2>2. R[i].n \in Nat /\ R[j].n \in Nat /\ R[j].n < R[i].n
    BY <1>1, <1>2, <1>4, <1>5, <2>1
  <2> QED BY <2>1, <2>2
<1>6. CASE i \notin 1..l
  <2>1. i - l \in 1..Len(Q) /\ j - l \in 1..Len(Q) /\ i - l < j - l /\ W[i] = Q[i - l] /\ W[j] = Q[j - l]
    BY <1>1, <1>4, <1>6
  <2>2. Q[i - l].n <= Q[j - l].n /\ Q[i - l].n \in Nat /\ Q[j - l].n \in Nat
    BY <1>1, <1>3, <2>1 DEF Fits
  <2> QED BY <1>4, <2>1, <2>2
<1>7. CASE i \in 1..l /\ j \notin 1..l
  <2>1. W[i] = R[i] /\ j - l \in 1..Len(Q) /\ W[j] = Q[j - l]
    BY <1>1, <1>4, <1>7
  <2>2. R[i] \in Range(R) /\ Q[j - l] \in Range(Q)
    BY <1>1, <1>7, <2>1 DEF Range
  <2>3. W[j] \in Range(R)
    BY <1>4, <2>1, <2>2 DEF Fits
  <2>4. PICK h \in 1..l : R[h] = W[j]
    BY <1>1, <2>3 DEF Range
  <2>5. R[h].n < R[i].n /\ R[h].n \in Nat /\ R[i].n \in Nat
    BY <1>1, <1>2, <1>4, <1>7, <2>1, <2>4
  <2>a. \A x, y \in 1..l : x < y => R[x].n < R[y].n
    BY <1>1 DEF Fits, Grows
  <2>b. i < h => R[i].n < R[h].n
    BY <1>7, <2>a
  <2>6. ~(i < h) /\ i # h
    BY <2>5, <2>b
  <2>7. h \in 1..(i - 1) /\ W[h] = W[j]
    BY <1>1, <1>7, <2>4, <2>6
  <2> QED BY <2>7 DEF W
<1> QED BY <1>4, <1>5, <1>6, <1>7

\* An event is once in the replay, and once in the queue, or twice if a step's.
Within(s, e) == \E a, b : /\ {i \in DOMAIN s : s[i] = e} \subseteq {a, b, b + 1}
                          /\ e.task \notin DOMAIN MissionOf => {i \in DOMAIN s : s[i] = e} \subseteq {a, b}
\* In a replay with its queue, no event comes more often than it may.
LEMMA TimesAtMost ==
    ASSUME NEW R \in Seq(Events), NEW Q \in Seq(Events), Fits(R, Q), NEW e \in Events
    PROVE  Within(R \o Q, e)
<1> DEFINE W == R \o Q
           l == Len(R)
           A == {i \in 1..l : R[i] = e}
           B == {i \in 1..Len(Q) : Q[i] = e}
<1>1. /\ l \in Nat /\ Len(Q) \in Nat /\ DOMAIN R = 1..l /\ DOMAIN Q = 1..Len(Q) /\ DOMAIN W = 1..(l + Len(Q))
      /\ \A k \in 1..l : W[k] = R[k]
      /\ \A k \in 1..(l + Len(Q)) : k \notin 1..l => k - l \in 1..Len(Q) /\ W[k] = Q[k - l]
  BY Joined
<1>2. e.n \in Nat
  BY DEF Events
<1> HIDE DEF W, l
<1>3. \A i, j \in A : i = j
  <2> SUFFICES ASSUME NEW i \in A, NEW j \in A, i # j PROVE FALSE
    OBVIOUS
  <2>1. CASE i < j
    BY <1>1, <1>2, <2>1, SMTT(30) DEF Fits, Grows
  <2>2. CASE j < i
    BY <1>1, <1>2, <2>2, SMTT(30) DEF Fits, Grows
  <2> QED BY <1>1, <2>1, <2>2
<1>4. PICK a : A \subseteq {a}
  BY <1>3
<1>5. \A i, j \in B : i < j => j = i + 1 /\ e.task \in DOMAIN MissionOf
  <2> SUFFICES ASSUME NEW i \in B, NEW j \in B, i < j PROVE j = i + 1 /\ e.task \in DOMAIN MissionOf
    OBVIOUS
  <2>1. i \in DOMAIN Q /\ j \in DOMAIN Q /\ Q[i] = e /\ Q[j] = e
    BY <1>1
  <2> QED BY <2>1 DEF Fits
<1>6. \E b \in Int : B \subseteq {b, b + 1} /\ (e.task \notin DOMAIN MissionOf => B \subseteq {b})
  <2>1. CASE B = {}
    BY <2>1
  <2>2. CASE B # {}
    <3>1. PICK i \in B : TRUE
      BY <2>2
    <3>2. CASE \E j \in B : j < i
      <4>1. PICK j \in B : j < i
        BY <3>2
      <4>2. i = j + 1 /\ e.task \in DOMAIN MissionOf
        BY <1>5, <3>1, <4>1
      <4>3. \A k \in B : k \in {j, j + 1}
        <5> SUFFICES ASSUME NEW k \in B PROVE k \in {j, j + 1}
          OBVIOUS
        <5>1. k < j => j = k + 1 /\ i = k + 1
          BY <1>1, <1>5, <3>1, <4>1, <4>2
        <5>2. j < k => k = j + 1
          BY <1>5, <4>1
        <5> QED BY <1>1, <4>2, <5>1, <5>2
      <4>4. j \in Int
        BY <1>1, <4>1
      <4>5. B \subseteq {j, j + 1} /\ e.task \in DOMAIN MissionOf
        BY <4>2, <4>3
      <4> QED BY <4>4, <4>5
    <3>3. CASE ~\E j \in B : j < i
      <4>1. \A k \in B : k = i \/ (k = i + 1 /\ e.task \in DOMAIN MissionOf)
        <5> SUFFICES ASSUME NEW k \in B, k # i PROVE k = i + 1 /\ e.task \in DOMAIN MissionOf
          OBVIOUS
        <5>1. i < k
          BY <1>1, <3>1, <3>3
        <5> QED BY <1>5, <3>1, <5>1
      <4>2. i \in Int
        BY <1>1, <3>1
      <4> QED BY <4>1, <4>2
    <3> QED BY <3>2, <3>3
  <2> QED BY <2>1, <2>2
<1>7. PICK b \in Int : B \subseteq {b, b + 1} /\ (e.task \notin DOMAIN MissionOf => B \subseteq {b})
  BY <1>6
<1>8. \A i \in DOMAIN W : W[i] = e => i = a \/ i - l \in B
  BY <1>1, <1>4
<1>9. ASSUME NEW i \in DOMAIN W, W[i] = e
      PROVE  i \in {a, b + l, (b + l) + 1} /\ (e.task \notin DOMAIN MissionOf => i \in {a, b + l})
  <2>1. i \in Nat
    BY <1>1
  <2>2. CASE i = a
    BY <2>2
  <2>3. CASE i - l \in B
    <3>1. (i - l = b \/ i - l = b + 1) /\ (e.task \notin DOMAIN MissionOf => i - l = b)
      BY <1>7, <2>3
    <3>2. (i - l = b => i = b + l) /\ (i - l = b + 1 => i = (b + l) + 1)
      BY <1>1, <1>7, <2>1
    <3> QED BY <3>1, <3>2
  <2> QED BY <1>8, <1>9, <2>2, <2>3
<1> QED BY <1>9 DEF W, Within

\* The size of a set of at most three, and of at most two.
LEMMA AtMostThree ==
    ASSUME NEW a, NEW b, NEW d, NEW I, I \subseteq {a, b, d}
    PROVE  Cardinality(I) \in Nat /\ Cardinality(I) <= 3 /\ (I \subseteq {a, b} => Cardinality(I) <= 2)
<1>1. IsFiniteSet({}) /\ Cardinality({}) = 0
  BY FS_EmptySet
<1>2. IsFiniteSet({a}) /\ Cardinality({a}) = 1
  BY FS_Singleton
<1>3. IsFiniteSet({a} \cup {b}) /\ Cardinality({a} \cup {b}) <= 2
  BY <1>2, FS_AddElement
<1>4. {a} \cup {b} = {a, b} /\ {a, b} \cup {d} = {a, b, d}
  OBVIOUS
<1>5. IsFiniteSet({a, b} \cup {d}) /\ Cardinality({a, b} \cup {d}) <= 3
  <2>1. Cardinality({a, b}) \in Nat
    BY <1>3, <1>4, FS_CardinalityType
  <2> QED BY <1>3, <1>4, <2>1, FS_AddElement
<1>6. IsFiniteSet(I) /\ Cardinality(I) <= Cardinality({a, b, d}) /\ Cardinality({a, b, d}) \in Nat
  BY <1>4, <1>5, FS_Subset, FS_CardinalityType
<1>7. Cardinality(I) \in Nat
  BY <1>6, FS_CardinalityType
<1>8. I \subseteq {a, b} => Cardinality(I) <= Cardinality({a, b}) /\ Cardinality({a, b}) \in Nat
  BY <1>3, <1>4, FS_Subset, FS_CardinalityType
<1> QED BY <1>3, <1>4, <1>5, <1>6, <1>7, <1>8

-----------------------------------------------------------------------------
\* What a client got and will still get from what has been sent, rest, is a replay
\* R and what came through its queue, Q; a client not yet forwarded to has both ahead.
Follows(c, R, Q, rest) ==
    /\ Fits(R, Q) /\ UpTo(R, count) /\ UpTo(Q, count) /\ R \o Q = got[c] \o rest
    /\ conn[c] \in {"new", "hello", "replaying"} => R = got[c] \o toReplay[c] /\ Q = queue[c]
    /\ conn[c] = "streaming" => rest = queue[c]

Ordered(c) ==
    /\ conn[c] = "new" => queue[c] = <<>>
    /\ conn[c] \in {"new", "hello"} => got[c] = <<>>
    /\ conn[c] = "hello" /\ filter[c] \in Tasks => Range(queue[c]) \subseteq Range(log[filter[c]])
    /\ \E R, Q, rest \in Seq(Events) : Follows(c, R, Q, rest)

\* The inductive invariant behind FirstSeenInOrder.
Logged(t) == Grows(log[t]) /\ UpTo(log[t], count)
OrderInv == (\A t \in Tasks : Logged(t)) /\ (\A c \in Conns : Ordered(c))

\* What a broadcast puts in the queue of c.
Sent(c, e, k) ==
    \E m \in {0, 1, 2} : /\ queue'[c] = queue[c] \o [i \in 1..m |-> e] /\ m <= k
                         /\ m > 0 => c \in subs /\ filter[c] \in {All, e.task}

\* A subscriber gets the event at most k times; nobody else gets it.
LEMMA BroadcastCopies ==
    ASSUME StreamAssumption, StreamTypes, NEW e \in Events, NEW k \in {1, 2}, Broadcast(e, k), NEW c \in Conns
    PROVE  Sent(c, e, k)
<1>1. queue[c] \in Seq(Events) /\ Len(queue[c]) <= QueueSize /\ QueueSize \in Nat /\ Len(queue[c]) \in Nat
  <2>1. queue[c] \in Seq(Events) /\ Len(queue[c]) <= QueueSize /\ QueueSize \in Nat
    BY DEF StreamTypes, StreamAssumption
  <2> QED BY <2>1
<1>2. Room(c) \in Nat
  BY <1>1 DEF Room
<1>3. CASE Wants(c, e)
  <2> DEFINE m == IF k <= Room(c) THEN k ELSE Room(c)
  <2>1. queue'[c] = queue[c] \o [i \in 1..m |-> e]
    BY <1>3 DEF Broadcast
  <2>2. m \in {0, 1, 2} /\ m <= k
    BY <1>2
  <2>3. c \in subs /\ filter[c] \in {All, e.task}
    BY <1>3 DEF Wants
  <2> HIDE DEF m
  <2> QED BY <2>1, <2>2, <2>3 DEF Sent
<1>4. CASE ~Wants(c, e)
  <2>1. queue'[c] = queue[c]
    BY <1>4 DEF Broadcast
  <2>2. [i \in 1..0 |-> e] = <<>>
    OBVIOUS
  <2>3. queue[c] \o <<>> = queue[c]
    BY <1>1
  <2>4. queue'[c] = queue[c] \o [i \in 1..0 |-> e]
    BY <2>1, <2>2, <2>3
  <2>5. 0 \in {0, 1, 2} /\ 0 <= k /\ ~(0 > 0)
    OBVIOUS
  <2> QED BY <2>4, <2>5, Zenon DEF Sent
<1> QED BY <1>3, <1>4

\* A replay and a queue, with m copies of the newest event.
Copied(R, Q, g, rest, n, e, m) ==
    \E C \in Seq(Events) :
       /\ C = [i \in 1..m |-> e] /\ (m = 0 => C = <<>>) /\ \A x \in Range(C) : m > 0 /\ x = e
       /\ Q \o C \in Seq(Events) /\ rest \o C \in Seq(Events)
       /\ R \o Q = g \o rest => R \o (Q \o C) = g \o (rest \o C)
       /\ Fits(R, Q \o C) /\ UpTo(R, n + 1) /\ UpTo(Q \o C, n + 1)
\* The copies of the newest event fit behind what the client has or will get.
LEMMA CopiesFollow ==
    ASSUME NEW R \in Seq(Events), NEW Q \in Seq(Events), NEW g \in Seq(Events), NEW rest \in Seq(Events),
           NEW n \in Nat, Fits(R, Q), UpTo(R, n), UpTo(Q, n),
           NEW e \in Events, e.n = n + 1, NEW m \in {0, 1, 2}, m = 2 => e.task \in DOMAIN MissionOf
    PROVE  Copied(R, Q, g, rest, n, e, m)
<1> DEFINE C == [i \in 1..m |-> e]
<1>a. C \in Seq(Events) /\ Len(C) = m /\ \A i \in 1..m : C[i] = e
  OBVIOUS
<1>2. (m = 0 => C = <<>>) /\ \A x \in Range(C) : m > 0 /\ x = e
  BY DEF Range
<1> HIDE DEF C
<1>1. C \in Seq(Events) /\ Q \o C \in Seq(Events) /\ Fits(R, Q \o C) /\ UpTo(Q \o C, n + 1)
  BY <1>a, CopiesFit
<1>b. Regrouped(R, Q, C) /\ Regrouped(g, rest, C)
  BY <1>1, Regroup
<1>3. R \o (Q \o C) = (R \o Q) \o C /\ g \o (rest \o C) = (g \o rest) \o C
  BY <1>b DEF Regrouped
<1>4. UpTo(R, n + 1)
  <2>1. \A i \in DOMAIN R : R[i] \in Events
    OBVIOUS
  <2>2. \A i \in DOMAIN R : R[i].n \in Nat
    BY <2>1 DEF Events
  <2> QED BY <2>2 DEF UpTo
<1>5. rest \o C \in Seq(Events)
  BY <1>1
<1>6. C = [i \in 1..m |-> e]
  BY DEF C
<1>7. R \o Q = g \o rest => R \o (Q \o C) = g \o (rest \o C)
  BY <1>3
<1> QED BY <1>1, <1>2, <1>4, <1>5, <1>6, <1>7, Zenon DEF Copied

\* What publishing does to one connection.
LEMMA PublishedInOrder ==
    ASSUME StreamAssumption, GapInv, NEW c \in Conns, Ordered(c), NEW e \in Events, e.n = count + 1,
           NEW k \in {1, 2}, k = 2 => e.task \in DOMAIN MissionOf, Sent(c, e, k),
           count' = count + 1, UNCHANGED connVars,
           \A t \in Tasks : Range(log[t]) \subseteq Range(log'[t]),
           e.task \in Tasks => e \in Range(log'[e.task])
    PROVE  Ordered(c)'
<1>1. /\ NoLeakedSubscription /\ count \in Nat /\ queue[c] \in Seq(Events) /\ got[c] \in Seq(Events)
      /\ filter[c] \in Tasks \cup {All} /\ All \notin Tasks
  BY DEF GapInv, StreamTypes, StreamAssumption
<1>2. PICK m \in {0, 1, 2} : /\ queue'[c] = queue[c] \o [i \in 1..m |-> e] /\ m <= k
                             /\ m > 0 => c \in subs /\ filter[c] \in {All, e.task}
  BY Zenon DEF Sent
<1>3. PICK R \in Seq(Events), Q \in Seq(Events), rest \in Seq(Events) : Follows(c, R, Q, rest)
  BY DEF Ordered
<1>4. PICK n \in Nat, g \in Seq(Events) : n = count /\ g = got[c]
  BY <1>1
<1>5. /\ Fits(R, Q) /\ UpTo(R, n) /\ UpTo(Q, n) /\ R \o Q = g \o rest /\ e.n = n + 1
      /\ m = 2 => e.task \in DOMAIN MissionOf
  BY <1>2, <1>3, <1>4 DEF Follows
<1>x. Copied(R, Q, g, rest, n, e, m)
  BY <1>5, CopiesFollow
<1>6. PICK C \in Seq(Events) :
          /\ C = [i \in 1..m |-> e] /\ (m = 0 => C = <<>>) /\ \A x \in Range(C) : m > 0 /\ x = e
          /\ Q \o C \in Seq(Events) /\ rest \o C \in Seq(Events) /\ R \o (Q \o C) = g \o (rest \o C)
          /\ Fits(R, Q \o C) /\ UpTo(R, n + 1) /\ UpTo(Q \o C, n + 1)
  BY <1>5, <1>x, Zenon DEF Copied
<1>7. queue'[c] = queue[c] \o C
  BY <1>2, <1>6, Zenon
<1>8. /\ conn'[c] = conn[c] /\ filter'[c] = filter[c] /\ got'[c] = g /\ toReplay'[c] = toReplay[c]
      /\ count' = n + 1
  BY <1>4 DEF connVars
<1>9. Follows(c, R, Q \o C, rest \o C)'
  BY <1>3, <1>4, <1>6, <1>7, <1>8 DEF Follows
<1>10. m > 0 => c \in subs /\ filter[c] \in {All, e.task}
  BY <1>2
<1>11. m = 0 \/ m > 0
  OBVIOUS
<1>12. conn[c] = "new" => queue'[c] = <<>>
  <2>1. conn[c] = "new" => c \notin subs
    BY <1>1 DEF NoLeakedSubscription, Opened
  <2>2. conn[c] = "new" => C = <<>>
    BY <1>6, <1>10, <1>11, <2>1
  <2>3. conn[c] = "new" => queue[c] = <<>>
    BY DEF Ordered
  <2>4. <<>> \o <<>> = <<>>
    OBVIOUS
  <2> QED BY <1>7, <2>2, <2>3, <2>4
<1>13. ASSUME conn[c] = "hello", filter[c] \in Tasks PROVE Range(queue'[c]) \subseteq Range(log'[filter[c]])
  <2>1. Range(queue[c]) \subseteq Range(log'[filter[c]])
    BY <1>13 DEF Ordered
  <2>2. PICK q \in Seq(Events) : q = queue[c]
    BY <1>1
  <2>3. Range(q \o C) \subseteq Range(q) \cup Range(C)
    BY Joined DEF Range
  <2>4. m > 0 => e \in Range(log'[filter[c]])
    BY <1>1, <1>10, <1>13
  <2> QED BY <1>6, <1>7, <2>1, <2>2, <2>3, <2>4
<1>14. conn[c] \in {"new", "hello"} => got'[c] = <<>>
  BY <1>4, <1>8 DEF Ordered
<1>15. \E A, B, D \in Seq(Events) : Follows(c, A, B, D)'
  BY <1>6, <1>9
<1> QED BY <1>8, <1>12, <1>13, <1>14, <1>15 DEF Ordered

\* A connection that nothing happens to.
LEMMA QuietInOrder ==
    ASSUME NEW c \in Conns, Ordered(c), UNCHANGED <<log, count>>,
           conn'[c] = conn[c], filter'[c] = filter[c], got'[c] = got[c], toReplay'[c] = toReplay[c], queue'[c] = queue[c]
    PROVE  Ordered(c)'
<1>1. PICK R \in Seq(Events), Q \in Seq(Events), rest \in Seq(Events) : Follows(c, R, Q, rest)
  BY DEF Ordered
<1>2. Follows(c, R, Q, rest)'
  BY <1>1 DEF Follows
<1> QED BY <1>1, <1>2 DEF Ordered

\* A record that an event is appended to.
LEMMA AppendedInOrder ==
    ASSUME StreamAssumption, GapInv, NEW t \in Tasks, Logged(t), NEW e \in Events, e.n = count + 1, count' = count + 1,
           log'[t] = log[t] \/ log'[t] = Append(log[t], e)
    PROVE  Logged(t)' /\ Range(log[t]) \subseteq Range(log'[t])
           /\ (log'[t] = Append(log[t], e) => e \in Range(log'[t]))
<1>1. log[t] \in Seq(Events) /\ count \in Nat
  BY DEF GapInv, StreamTypes
<1> DEFINE s == log[t]
<1>2. s \in Seq(Events) /\ Grows(s) /\ UpTo(s, count)
  BY <1>1 DEF Logged
<1> HIDE DEF s
<1>3. /\ Append(s, e) \in Seq(Events) /\ Grows(Append(s, e)) /\ UpTo(Append(s, e), count + 1)
      /\ Range(Append(s, e)) = Range(s) \cup {e}
  BY <1>1, <1>2, GrowsOn, RangeAppend
<1>4. UpTo(s, count + 1)
  <2>1. \A i \in DOMAIN s : s[i].n \in Nat
    <3>1. \A i \in DOMAIN s : s[i] \in Events
      BY <1>2
    <3> QED BY <3>1 DEF Events
  <2> QED BY <1>1, <1>2, <2>1 DEF UpTo
<1>5. CASE log'[t] = s
  <2>1. Append(s, e) # s
    BY <1>2
  <2> QED BY <1>2, <1>4, <1>5, <2>1 DEF Logged, s
<1>6. CASE log'[t] = Append(s, e)
  BY <1>3, <1>6 DEF Logged, s
<1> QED BY <1>5, <1>6 DEF s

\* The store's steps.
LEMMA StoreInOrder ==
    ASSUME StreamAssumption, GapInv, OrderInv, Store PROVE OrderInv'
<1>1. ASSUME NEW t \in Tasks, Create(t) \/ Evict(t) PROVE OrderInv'
  <2>1. \A c \in Conns : Ordered(c)'
    BY <1>1, QuietInOrder DEF OrderInv, Create, Evict, connVars
  <2> QED BY <1>1, <2>1 DEF OrderInv, Create, Evict, Logged
<1>2. StreamTypes /\ count \in Nat /\ log \in [Tasks -> Seq(Events)]
  BY DEF GapInv, StreamTypes
<1>3. \A t \in Tasks \cup {System} : Event(t) \in Events /\ Event(t).n = count + 1 /\ Event(t).task = t
  BY <1>2 DEF Event, Events
<1>4. ASSUME NEW t \in Tasks, Publish(t) PROVE OrderInv'
  <2> DEFINE e == Event(t)
  <2>1. e \in Events /\ e.n = count + 1 /\ e.task = t
    BY <1>3
  <2>2. Broadcast(e, 1) /\ count' = count + 1 /\ UNCHANGED connVars
    BY <1>4 DEF Publish
  <2>3. \A u \in Tasks : log'[u] = log[u] \/ log'[u] = Append(log[u], e)
    BY <1>2, <1>4 DEF Publish
  <2>4. log'[t] = Append(log[t], e)
    BY <1>2, <1>4 DEF Publish
  <2> HIDE DEF e
  <2>5. \A u \in Tasks : Logged(u)' /\ Range(log[u]) \subseteq Range(log'[u])
    BY <2>1, <2>2, <2>3, AppendedInOrder DEF OrderInv
  <2>6. e.task \in Tasks => e \in Range(log'[e.task])
    BY <2>1, <2>2, <2>4, AppendedInOrder DEF OrderInv
  <2>7. \A c \in Conns : Ordered(c)'
    BY <1>2, <2>1, <2>2, <2>5, <2>6, BroadcastCopies, PublishedInOrder DEF OrderInv
  <2> QED BY <2>5, <2>7 DEF OrderInv
<1>5. ASSUME NEW t \in Tasks, PublishMirrored(t) PROVE OrderInv'
  <2> DEFINE e == Event(t)
  <2>1. e \in Events /\ e.n = count + 1 /\ e.task = t /\ t \in DOMAIN MissionOf
    BY <1>3, <1>5 DEF PublishMirrored
  <2>2. Broadcast(e, 2) /\ count' = count + 1 /\ UNCHANGED connVars
    BY <1>5 DEF PublishMirrored
  <2>3. MissionOf[t] \in Tasks \ {t}
    BY <2>1 DEF StreamAssumption
  <2>4. \A u \in Tasks : log'[u] = log[u] \/ log'[u] = Append(log[u], e)
    BY <1>2, <1>5, <2>3 DEF PublishMirrored
  <2>5. log'[t] = Append(log[t], e)
    BY <1>2, <1>5, <2>3 DEF PublishMirrored
  <2> HIDE DEF e
  <2>6. \A u \in Tasks : Logged(u)' /\ Range(log[u]) \subseteq Range(log'[u])
    BY <2>1, <2>2, <2>4, AppendedInOrder DEF OrderInv
  <2>7. e.task \in Tasks => e \in Range(log'[e.task])
    BY <2>1, <2>2, <2>5, AppendedInOrder DEF OrderInv
  <2>8. \A c \in Conns : Ordered(c)'
    BY <1>2, <2>1, <2>2, <2>6, <2>7, BroadcastCopies, PublishedInOrder DEF OrderInv
  <2> QED BY <2>6, <2>8 DEF OrderInv
<1>6. CASE Announce
  <2> DEFINE e == Event(System)
  <2>1. e \in Events /\ e.n = count + 1 /\ e.task \notin Tasks
    BY <1>3 DEF StreamAssumption
  <2>2. Broadcast(e, 1) /\ count' = count + 1 /\ UNCHANGED connVars /\ log' = log
    BY <1>6 DEF Announce
  <2> HIDE DEF e
  <2>3. \A u \in Tasks : Logged(u)' /\ Range(log[u]) \subseteq Range(log'[u])
    BY <2>1, <2>2, AppendedInOrder DEF OrderInv
  <2>4. \A c \in Conns : Ordered(c)'
    BY <1>2, <2>1, <2>2, <2>3, BroadcastCopies, PublishedInOrder DEF OrderInv
  <2> QED BY <2>3, <2>4 DEF OrderInv
<1> QED BY <1>1, <1>4, <1>5, <1>6 DEF Store

\* A connection's own steps: what was to be replayed and what is queued reach the
\* client in this order.
LEMMA SocketInOrder ==
    ASSUME StreamAssumption, GapInv, GapInv', OrderInv, NEW c \in Conns, Socket(c) PROVE OrderInv'
<1>1. /\ count \in Nat /\ queue \in [Conns -> Seq(Events)] /\ got \in [Conns -> Seq(Events)]
      /\ toReplay \in [Conns -> Seq(Events)] /\ log \in [Tasks -> Seq(Events)]
      /\ conn \in [Conns -> {"new", "hello", "replaying", "streaming", "closed"}]
      /\ filter \in [Conns -> Tasks \cup {All}]
  BY DEF GapInv, StreamTypes
<1>2. UNCHANGED <<log, count>>
  BY DEF Socket, Connect, Snapshot, Replay, StartForwarding, Forward, Disconnect
<1>3. ASSUME NEW d \in Conns, d # c PROVE Ordered(d)'
  <2>1. conn'[d] = conn[d] /\ filter'[d] = filter[d] /\ got'[d] = got[d] /\ toReplay'[d] = toReplay[d] /\ queue'[d] = queue[d]
    BY <1>1, <1>3 DEF Socket, Connect, Snapshot, Replay, StartForwarding, Forward, Disconnect
  <2> QED BY <1>2, <2>1, QuietInOrder DEF OrderInv
<1>4. PICK R \in Seq(Events), Q \in Seq(Events), rest \in Seq(Events) : Follows(c, R, Q, rest)
  BY DEF OrderInv, Ordered
<1>5. Ordered(c) /\ Range(<<>>) = {} /\ <<>> \in Seq(Events)
  BY DEF OrderInv, Range
<1>6. \A s \in Seq(Events) : s \o <<>> = s /\ <<>> \o s = s
  OBVIOUS
<1>7. queue[c] \in Seq(Events) /\ got[c] \in Seq(Events) /\ toReplay[c] \in Seq(Events)
  BY <1>1
<1>8. ASSUME NEW f \in Tasks \cup {All}, Connect(c, f) PROVE Ordered(c)'
  <2>1. /\ conn[c] = "new" /\ conn'[c] = "hello" /\ got'[c] = got[c] /\ queue'[c] = queue[c]
        /\ toReplay'[c] = toReplay[c]
    BY <1>1, <1>8 DEF Connect
  <2>2. got[c] = <<>> /\ queue[c] = <<>>
    BY <1>5, <2>1 DEF Ordered
  <2>3. Follows(c, R, Q, rest)'
    BY <1>2, <1>4, <2>1 DEF Follows
  <2> QED BY <1>2, <1>5, <2>1, <2>2, <2>3 DEF Ordered
<1>9. ASSUME Snapshot(c) PROVE Ordered(c)'
  <2>p. PICK P \in Seq(Events) : P = toReplay'[c]
    BY DEF GapInv, StreamTypes
  <2>1. conn[c] = "hello" /\ conn'[c] = "replaying" /\ got'[c] = got[c] /\ queue'[c] = queue[c]
    BY <1>1, <1>9 DEF Snapshot
  <2>2. got[c] = <<>> /\ Fits(R, Q) /\ UpTo(Q, count) /\ Q = queue[c]
    BY <1>4, <1>5, <2>1 DEF Ordered, Follows
  <2>3. P = <<>> \/ (filter[c] \in Tasks /\ P = log[filter[c]])
    BY <1>1, <1>9, <2>p DEF Snapshot
  <2>5. Grows(P) /\ UpTo(P, count)
    <3>1. Grows(<<>>) /\ UpTo(<<>>, count)
      BY DEF Grows, UpTo
    <3> QED BY <2>3, <3>1 DEF OrderInv, Logged
  <2>6. \A q \in Range(Q), r \in Range(P) : q \in Range(P)
    BY <1>5, <2>1, <2>2, <2>3 DEF Ordered
  <2>7. Fits(P, Q)
    BY <2>2, <2>5, <2>6 DEF Fits
  <2>8. P \o Q \in Seq(Events) /\ P \o Q = got[c] \o (P \o Q) /\ P = got[c] \o P
    BY <1>6, <2>2
  <2>9. Follows(c, P, Q, P \o Q)'
    BY <1>2, <2>p, <2>1, <2>2, <2>5, <2>7, <2>8 DEF Follows
  <2> QED BY <2>1, <2>8, <2>9 DEF Ordered
<1>10. ASSUME Replay(c) PROVE Ordered(c)'
  <2>p. PICK g \in Seq(Events), t \in Seq(Events), h \in Seq(Events), u \in Seq(Events) :
             g = got'[c] /\ t = toReplay'[c] /\ h = got[c] /\ u = toReplay[c]
    BY <1>7 DEF GapInv, StreamTypes
  <2>1. /\ conn[c] = "replaying" /\ conn'[c] = "replaying" /\ queue'[c] = queue[c] /\ u # <<>>
        /\ g = Append(h, Head(u)) /\ t = Tail(u)
    BY <1>1, <1>10, <2>p DEF Replay
  <2>2. g \o t = h \o u
    BY <2>1, Handover, SMTT(30)
  <2>3. Fits(R, Q) /\ UpTo(R, count) /\ UpTo(Q, count) /\ R = h \o u /\ Q = queue[c]
    BY <1>4, <2>1, <2>p DEF Follows
  <2>r. Regrouped(g, t, Q)
    BY Regroup
  <2>q. t \o Q \in Seq(Events) /\ (g \o t) \o Q = g \o (t \o Q)
    BY <2>r DEF Regrouped
  <2>4. t \o Q \in Seq(Events) /\ R \o Q = g \o (t \o Q)
    BY <2>2, <2>3, <2>q
  <2>5. Follows(c, R, Q, t \o Q)'
    BY <1>2, <2>p, <2>1, <2>2, <2>3, <2>4 DEF Follows
  <2> QED BY <2>1, <2>4, <2>5 DEF Ordered
<1>11. ASSUME StartForwarding(c) PROVE Ordered(c)'
  <2>1. /\ conn[c] = "replaying" /\ conn'[c] = "streaming" /\ queue'[c] = queue[c] /\ toReplay[c] = <<>>
        /\ got'[c] = got[c]
    BY <1>1, <1>11 DEF StartForwarding
  <2>2. Fits(R, Q) /\ UpTo(R, count) /\ UpTo(Q, count) /\ R = got[c] /\ Q = queue[c]
    BY <1>4, <1>6, <1>7, <2>1 DEF Follows
  <2>3. Follows(c, R, Q, queue[c])'
    BY <1>2, <2>1, <2>2 DEF Follows
  <2> QED BY <1>7, <2>1, <2>3 DEF Ordered
<1>12. ASSUME Forward(c) PROVE Ordered(c)'
  <2>p. PICK g \in Seq(Events), u \in Seq(Events), h \in Seq(Events), q \in Seq(Events) :
             g = got'[c] /\ u = queue'[c] /\ h = got[c] /\ q = queue[c]
    BY <1>7 DEF GapInv, StreamTypes
  <2>1. /\ conn[c] = "streaming" /\ conn'[c] = "streaming" /\ q # <<>>
        /\ g = Append(h, Head(q)) /\ u = Tail(q)
    BY <1>1, <1>12, <2>p DEF Forward
  <2>2. g \o u = h \o q
    BY <2>1, Handover, SMTT(30)
  <2>3. Fits(R, Q) /\ UpTo(R, count) /\ UpTo(Q, count) /\ R \o Q = h \o q
    BY <1>4, <2>1, <2>p DEF Follows
  <2>5. Follows(c, R, Q, u)'
    BY <1>2, <2>p, <2>1, <2>2, <2>3 DEF Follows
  <2> QED BY <2>1, <2>5 DEF Ordered
<1>13. ASSUME Disconnect(c) PROVE Ordered(c)'
  <2>1. conn'[c] = "closed" /\ got'[c] = got[c]
    BY <1>1, <1>13 DEF Disconnect
  <2>2. Follows(c, R, Q, rest)'
    BY <1>2, <1>4, <2>1 DEF Follows
  <2> QED BY <2>1, <2>2 DEF Ordered
<1>14. Ordered(c)'
  BY <1>8, <1>9, <1>10, <1>11, <1>12, <1>13 DEF Socket
<1> QED BY <1>2, <1>3, <1>14 DEF OrderInv, Logged

\* What every client got, and will still get, is a replay in order and then a queue
\* in order that repeats only what it must (publish, subscribe and the replay).
THEOREM OrderInvHolds == ASSUME StreamAssumption PROVE StreamSpec => []OrderInv
<1>1. StreamInit => OrderInv
  <2> SUFFICES ASSUME StreamInit PROVE OrderInv
    OBVIOUS
  <2>1. \A n : Grows(<<>>) /\ UpTo(<<>>, n)
    BY DEF Grows, UpTo
  <2>2. Fits(<<>>, <<>>) /\ Range(<<>>) = {} /\ <<>> \in Seq(Events) /\ <<>> \o <<>> = <<>>
    BY DEF Fits, Grows, Range
  <2>3. ASSUME NEW c \in Conns PROVE Ordered(c)
    <3>1. Follows(c, <<>>, <<>>, <<>>)
      BY <2>1, <2>2 DEF StreamInit, Follows
    <3> QED BY <2>2, <3>1 DEF StreamInit, Ordered
  <2> QED BY <2>1, <2>3 DEF StreamInit, OrderInv, Logged
<1>2. GapInv /\ GapInv' /\ OrderInv /\ [StreamNext]_streamVars => OrderInv'
  <2> SUFFICES ASSUME GapInv, GapInv', OrderInv, [StreamNext]_streamVars PROVE OrderInv'
    OBVIOUS
  <2>1. CASE Store
    BY <2>1, StoreInOrder
  <2>2. ASSUME NEW c \in Conns, Socket(c) PROVE OrderInv'
    BY <2>2, SocketInOrder
  <2>3. CASE UNCHANGED streamVars
    <3>1. \A c \in Conns : Ordered(c)'
      BY <2>3, QuietInOrder DEF OrderInv, streamVars
    <3> QED BY <2>3, <3>1 DEF OrderInv, Logged, streamVars
  <2> QED BY <2>1, <2>2, <2>3 DEF StreamNext
<1> QED
  BY <1>1, <1>2, GapInvHolds, PTL DEF StreamSpec

\* Repetitions aside a client sees events in the order of publication, each at most
\* three times: from the record, and from the queue once or, a step's, twice.
THEOREM FirstSeenInOrderHolds == ASSUME StreamAssumption PROVE StreamSpec => []FirstSeenInOrder
<1>1. GapInv /\ OrderInv => FirstSeenInOrder
  <2> SUFFICES ASSUME GapInv, OrderInv, NEW c \in Conns
               PROVE  /\ \A i, j \in DOMAIN got[c] :
                           (i < j /\ got[c][j].n < got[c][i].n) => \E h \in 1..(i - 1) : got[c][h] = got[c][j]
                      /\ \A e \in Range(got[c]) : Cardinality({i \in DOMAIN got[c] : got[c][i] = e})
                                                  <= IF e.task \in DOMAIN MissionOf THEN 3 ELSE 2
    BY DEF FirstSeenInOrder
  <2>1. PICK R \in Seq(Events), Q \in Seq(Events), rest \in Seq(Events) : Follows(c, R, Q, rest)
    BY DEF OrderInv, Ordered
  <2> DEFINE g == got[c]
             W == R \o Q
  <2>2. g \in Seq(Events) /\ Fits(R, Q) /\ W = g \o rest
    BY <2>1 DEF GapInv, StreamTypes, Follows
  <2>3. /\ Len(g) \in Nat /\ DOMAIN g = 1..Len(g) /\ DOMAIN g \subseteq DOMAIN (g \o rest)
        /\ \A i \in 1..Len(g) : (g \o rest)[i] = g[i]
    <3>1. g \in Seq(Events)
      BY <2>2
    <3> HIDE DEF g
    <3> QED BY <3>1, Joined
  <2>h. R \in Seq(Events) /\ Q \in Seq(Events)
    OBVIOUS
  <2>a. LateRepeated(W)
    BY <2>2, <2>h, LateIsRepeated
  <2>b. \A e \in Events : Within(W, e)
    BY <2>2, <2>h, TimesAtMost
  <2> HIDE DEF g, W
  <2>4. DOMAIN g \subseteq DOMAIN W /\ \A i \in DOMAIN g : W[i] = g[i]
    BY <2>2, <2>3
  <2>5. ASSUME NEW i \in DOMAIN g, NEW j \in DOMAIN g, i < j, g[j].n < g[i].n
        PROVE  \E h \in 1..(i - 1) : g[h] = g[j]
    <3>1. PICK h \in 1..(i - 1) : W[h] = W[j]
      BY <2>4, <2>5, <2>a DEF LateRepeated
    <3>2. h \in DOMAIN g
      BY <2>3, <2>5
    <3> QED BY <2>4, <3>1, <3>2
  <2>6. ASSUME NEW e \in Range(g)
        PROVE  Cardinality({i \in DOMAIN g : g[i] = e}) <= IF e.task \in DOMAIN MissionOf THEN 3 ELSE 2
    <3> DEFINE I == {i \in DOMAIN g : g[i] = e}
    <3>1. e \in Events
      BY <2>2 DEF Range
    <3>2. PICK a, b : /\ {i \in DOMAIN W : W[i] = e} \subseteq {a, b, b + 1}
                      /\ e.task \notin DOMAIN MissionOf => {i \in DOMAIN W : W[i] = e} \subseteq {a, b}
      BY <2>b, <3>1 DEF Within
    <3>3. I \subseteq {i \in DOMAIN W : W[i] = e}
      BY <2>4
    <3> HIDE DEF I
    <3>4. Cardinality(I) \in Nat /\ Cardinality(I) <= 3 /\ (I \subseteq {a, b} => Cardinality(I) <= 2)
      BY <3>2, <3>3, AtMostThree
    <3> QED BY <3>2, <3>3, <3>4 DEF I
  <2> QED BY <2>5, <2>6 DEF g
<1> QED
  BY <1>1, GapInvHolds, OrderInvHolds, PTL
=============================================================================

--------------------------- MODULE NoticingProofs ---------------------------
(***************************************************************************)
(* Theorems about what NEXUS does unasked, for any number of services,     *)
(* processes and workspaces, any clock and any limits: what the detector   *)
(* and the observation store announce, and what the suggestion engine      *)
(* offers of it.                                                           *)
(***************************************************************************)
EXTENDS Observations, SuggestionPanel, FiniteSetTheorems, FunctionTheorems, SequenceTheorems, TLAPS

-----------------------------------------------------------------------------
(* Observations.                                                           *)

\* What a read has found and nobody has heard of yet.
InNews(k) == \E i \in 1..Len(news) : news[i] = k

\* Types of the sweep's own variables.
SweepTypes ==
    /\ now \in 1..MaxTime /\ git \in [Paths -> Repos \cup {NotRead}]
    /\ pc \in {"idle", "processes", "services", "git"} /\ todo \subseteq Services \cup Paths
    /\ seeded \in BOOLEAN /\ known \in [Procs -> Statuses] /\ before \subseteq Procs
    /\ seen \in [Services -> {"UNKNOWN", "UP", "DOWN"}] /\ news \in Seq(Keys)

\* The store: a line is no newer than the last time its condition was seen, and
\* an edge that was seen was told.
StoreInv ==
    /\ ring \in Seq(Lines) /\ Len(ring) <= MaxObservations
    /\ lastSeen \in [Keys -> 0..MaxTime] /\ recent \in Seq(1..MaxTime) /\ told \subseteq Edges
    /\ \A i, j \in DOMAIN ring : i < j /\ ring[i].key = ring[j].key /\ ring[i].open /\ ring[j].open =>
            ring[j].at - ring[i].at >= Cooldown
    /\ \A i \in DOMAIN ring : ring[i].at <= lastSeen[ring[i].key]
    /\ \A k \in Keys : lastSeen[k] <= now
    /\ \A k \in Edges : lastSeen[k] # 0 => k \in told

\* What the detector knows beside what the store has: what it knows to be down or
\* failed was told, is about to be, or was so when it first looked.
ViewInv ==
    /\ \A s \in Services :
          /\ seen[s] = "DOWN" => <<"service", s, "DOWN">> \in told \/ InNews(<<"service", s, "DOWN">>)
          /\ <<"service", s, "UP">> \in told \/ InNews(<<"service", s, "UP">>) =>
                <<"service", s, "DOWN">> \in told
    /\ \A p \in Procs : known[p] = "FAILED" =>
          p \in before \/ (seeded /\ (<<"process", p, "FAILED">> \in told \/ InNews(<<"process", p, "FAILED">>)))

\* The invariant behind the three properties.
WatchInv == SweepTypes /\ StoreInv /\ ViewInv

\* SetToSeq gives every element of a finite set a place.
LEMMA InSomeOrder ==
    ASSUME NEW S, IsFiniteSet(S)
    PROVE  /\ SetToSeq(S) \in Seq(S)
           /\ \A x \in S : \E i \in 1..Len(SetToSeq(S)) : SetToSeq(S)[i] = x
<1> DEFINE n == Cardinality(S)
           f == SetToSeq(S)
<1>1. n \in Nat /\ ExistsBijection(1..n, S)
  BY FS_CardinalityType
<1>2. \E g \in [1..n -> S] : IsInjective(g)
  BY <1>1 DEF ExistsBijection, Bijection, Injection, IsInjective
<1>3. f \in [1..n -> S] /\ IsInjective(f)
  BY <1>2 DEF SetToSeq
<1>4. f \in Seq(S) /\ Len(f) = n
  BY <1>1, <1>3
<1>5. ASSUME NEW x \in S, \A i \in 1..n : f[i] # x PROVE FALSE
  <2>1. f \in [1..n -> S \ {x}]
    BY <1>3, <1>5
  <2>2. IsFiniteSet(S \ {x}) /\ Cardinality(S \ {x}) = n - 1
    BY FS_RemoveElement
  <2>3. IsFiniteSet(1..n) /\ Cardinality(1..n) = n
    BY <1>1, FS_Interval
  <2>4. \E i, j \in 1..n : i # j /\ f[i] = f[j]
    BY <2>1, <2>2, <2>3, <1>1, FS_PigeonHole
  <2> QED BY <2>4, <1>3 DEF IsInjective
<1> QED BY <1>4, <1>5

\* The last so many of a sequence's elements.
LEMMA LastOnes ==
    ASSUME NEW S, NEW s \in Seq(S), NEW I \in SUBSET DOMAIN s
    PROVE  /\ Cardinality(I) \in 0..Len(s)
           /\ SubSeq(s, Len(s) - Cardinality(I) + 1, Len(s)) \in Seq(S)
<1>0. Len(s) \in Nat /\ DOMAIN s = 1..Len(s)
  OBVIOUS
<1>1. IsFiniteSet(1..Len(s)) /\ Cardinality(1..Len(s)) = Len(s)
  <2>1. ASSUME NEW n \in Nat PROVE IsFiniteSet(1..n) /\ Cardinality(1..n) = n
    BY FS_Interval
  <2> QED BY <1>0, <2>1
<1>2. IsFiniteSet(I) /\ Cardinality(I) <= Len(s)
  BY <1>0, <1>1, FS_Subset
<1>3. Cardinality(I) \in Nat
  BY <1>2, FS_CardinalityType
<1>4. \A i \in (Len(s) - Cardinality(I) + 1)..Len(s) : s[i] \in S
  BY <1>2, <1>3
<1>5. SubSeq(s, Len(s) - Cardinality(I) + 1, Len(s)) \in Seq(S)
  BY <1>2, <1>3, <1>4, SubSeqProperties
<1> QED BY <1>2, <1>3, <1>5

-----------------------------------------------------------------------------

\* What is kept of the young entries, and of the lines, is a part of them.
LEMMA FreshTyped ==
    ASSUME StoreInv
    PROVE  Fresh \in Seq(1..MaxTime)
<1>1. recent \in Seq(1..MaxTime)
  BY DEF StoreInv
<1>2. {i \in DOMAIN recent : now - recent[i] <= Window} \in SUBSET DOMAIN recent
  OBVIOUS
<1> QED BY <1>1, <1>2, LastOnes DEF Fresh

\* The ring keeps the newest lines, in their order.
LEMMA NewestLines ==
    ASSUME NEW lines \in Seq(Lines)
    PROVE  /\ Newest(lines) \in Seq(Lines) /\ Len(Newest(lines)) <= MaxObservations
           /\ \E d \in Nat : \A i \in 1..Len(Newest(lines)) :
                  i + d \in 1..Len(lines) /\ Newest(lines)[i] = lines[i + d]
<1> DEFINE n == IF Len(lines) < MaxObservations THEN Len(lines) ELSE MaxObservations
           d == Len(lines) - n
<1>1. /\ Len(lines) \in Nat /\ n \in Nat /\ n <= MaxObservations /\ d \in Nat
      /\ n <= Len(lines) /\ 1 + Len(lines) - n = 1 + d
  BY ObservationAssumption
<1>2. Newest(lines) = SubSeq(lines, 1 + d, Len(lines))
  BY <1>1 DEF Newest
<1>3. \A i \in (1 + d)..Len(lines) : lines[i] \in Lines
  BY <1>1
<1> HIDE DEF n, d
<1>4. /\ SubSeq(lines, 1 + d, Len(lines)) \in Seq(Lines)
      /\ Len(SubSeq(lines, 1 + d, Len(lines))) = IF 1 + d <= Len(lines) THEN Len(lines) - (1 + d) + 1 ELSE 0
      /\ \A i \in 1..(Len(lines) - (1 + d) + 1) : SubSeq(lines, 1 + d, Len(lines))[i] = lines[(1 + d) + i - 1]
  BY <1>1, <1>3, SubSeqProperties
<1>5. d = Len(lines) - n
  BY DEF d
<1>6. Len(Newest(lines)) = n
  BY <1>1, <1>2, <1>4, <1>5
<1>7. \A i \in 1..n : i + d \in 1..Len(lines) /\ Newest(lines)[i] = lines[i + d]
  BY <1>1, <1>2, <1>4, <1>5
<1> QED BY <1>1, <1>2, <1>4, <1>6, <1>7

\* Whatever the store does with an edge, it is told, or was before: a condition
\* is quiet only after it was entered.
LEMMA RecordTells ==
    ASSUME WatchInv, NEW k \in Keys, Record(k)
    PROVE  told' = told \cup ({k} \cap Edges)
<1>1. CASE Drop(k)
  BY <1>1 DEF Drop
<1>2. CASE Suppress(k)
  BY <1>2 DEF Suppress, Quiet, WatchInv, StoreInv
<1>3. CASE Enter(k)
  BY <1>3 DEF Enter
<1> QED BY <1>1, <1>2, <1>3 DEF Record

\* The store keeps its part of the invariant.
LEMMA RecordKeeps ==
    ASSUME WatchInv, NEW k \in Keys, Record(k), UNCHANGED now
    PROVE  StoreInv'
<1>0. StoreInv /\ now \in 1..MaxTime /\ MaxTime \in Nat /\ Cooldown \in Nat
  BY ObservationAssumption DEF WatchInv, SweepTypes, StoreInv
<1>1. Fresh \in Seq(1..MaxTime)
  BY <1>0, FreshTyped
<1>2. told' \subseteq Edges
  BY <1>0, RecordTells DEF StoreInv
<1>3. CASE Drop(k) \/ Suppress(k)
  <2>1. UNCHANGED <<ring, lastSeen, now>> /\ recent' = Fresh /\ told \subseteq told'
    BY <1>3, RecordTells DEF Drop, Suppress
  <2> QED BY <1>0, <1>1, <1>2, <2>1 DEF StoreInv
<1>4. CASE Enter(k)
  <2> DEFINE line == [key |-> k, at |-> now, open |-> TRUE]
             lines == Append(ring, line)
  <2>1. lines \in Seq(Lines) /\ Len(lines) = Len(ring) + 1 /\ Len(ring) \in Nat
        /\ lines[Len(lines)] = line /\ \A i \in 1..Len(ring) : lines[i] = ring[i]
    BY <1>0 DEF StoreInv, Lines
  <2>2. /\ lastSeen' \in [Keys -> 0..MaxTime] /\ lastSeen'[k] = now
        /\ \A j \in Keys : lastSeen[j] <= lastSeen'[j] /\ lastSeen'[j] <= now
    BY <1>0, <1>4 DEF Enter, StoreInv
  <2>3. recent' \in Seq(1..MaxTime)
    BY <1>0, <1>1, <1>4 DEF Enter
  <2>4. ring' = Newest(lines) /\ UNCHANGED now
    BY <1>4 DEF Enter
  <2>5. ring' \in Seq(Lines) /\ Len(ring') <= MaxObservations
    BY <2>1, <2>4, NewestLines
  <2>6. PICK d \in Nat : \A i \in 1..Len(ring') : i + d \in 1..Len(lines) /\ ring'[i] = lines[i + d]
    BY <2>1, <2>4, NewestLines
  <2>7. \A i \in 1..Len(lines) : lines[i].at <= lastSeen'[lines[i].key]
    <3> SUFFICES ASSUME NEW i \in 1..Len(lines) PROVE lines[i].at <= lastSeen'[lines[i].key]
      OBVIOUS
    <3>1. CASE i = Len(lines)
      BY <1>0, <2>1, <2>2, <3>1
    <3>2. CASE i \in 1..Len(ring)
      <4>1. lines[i] = ring[i] /\ ring[i] \in Lines /\ ring[i].at <= lastSeen[ring[i].key]
        BY <1>0, <2>1, <3>2 DEF StoreInv
      <4>2. ring[i].key \in Keys /\ ring[i].at \in Nat
        BY <1>0, <4>1 DEF Lines
      <4>3. lastSeen[ring[i].key] \in Nat /\ lastSeen'[ring[i].key] \in Nat
        BY <1>0, <2>2, <4>2 DEF StoreInv
      <4> QED BY <2>2, <4>1, <4>2, <4>3
    <3> QED BY <2>1, <3>1, <3>2
  <2>8. ASSUME NEW i \in 1..Len(lines), NEW j \in 1..Len(lines),
               i < j, lines[i].key = lines[j].key, lines[i].open, lines[j].open
        PROVE  lines[j].at - lines[i].at >= Cooldown
    <3>1. CASE j <= Len(ring)
      <4>1. i \in DOMAIN ring /\ j \in DOMAIN ring /\ lines[i] = ring[i] /\ lines[j] = ring[j]
        BY <1>0, <2>1, <2>8, <3>1 DEF StoreInv
      <4> QED BY <1>0, <2>8, <4>1 DEF StoreInv
    <3>2. CASE j > Len(ring)
      <4>0. j = Len(lines) /\ i \in 1..Len(ring)
        BY <2>1, <2>8, <3>2
      <4>1. lines[j] = line /\ lines[i] = ring[i] /\ i \in DOMAIN ring /\ ring[i] \in Lines
        BY <1>0, <2>1, <4>0 DEF StoreInv
      <4>2. Listed(k) /\ ring[i].at <= lastSeen[k] /\ ring[i].at \in 1..MaxTime
        BY <1>0, <2>8, <4>1, SMTT(30) DEF Listed, StoreInv, Lines
      <4>3. lastSeen[k] \in 0..MaxTime
        BY <1>0 DEF StoreInv
      <4>4. now - lastSeen[k] >= Cooldown
        BY <1>0, <1>4, <4>2, <4>3 DEF Enter, Quiet
      <4> QED BY <1>0, <4>1, <4>2, <4>3, <4>4
    <3> QED BY <2>1, <3>1, <3>2
  <2>9. Len(ring') \in Nat /\ DOMAIN ring' = 1..Len(ring') /\ Len(lines) \in Nat
    BY <2>1, <2>5
  <2>10. \A i \in DOMAIN ring' : ring'[i].at <= lastSeen'[ring'[i].key]
    BY <2>6, <2>7, <2>9
  <2>11. \A i, j \in DOMAIN ring' : i < j /\ ring'[i].key = ring'[j].key /\ ring'[i].open /\ ring'[j].open =>
             ring'[j].at - ring'[i].at >= Cooldown
    <3> SUFFICES ASSUME NEW i \in DOMAIN ring', NEW j \in DOMAIN ring', i < j,
                        ring'[i].key = ring'[j].key, ring'[i].open, ring'[j].open
                 PROVE  ring'[j].at - ring'[i].at >= Cooldown
      OBVIOUS
    <3>1. i + d \in 1..Len(lines) /\ j + d \in 1..Len(lines) /\ i + d < j + d
      BY <2>6, <2>9
    <3>2. ring'[i] = lines[i + d] /\ ring'[j] = lines[j + d]
      BY <2>6, <2>9
    <3> QED BY <2>8, <3>1, <3>2
  <2>12. \A e \in Edges : lastSeen'[e] # 0 => e \in told'
    <3>1. Edges \subseteq Keys
      BY DEF Edges, Keys, ProcessKeys
    <3> QED BY <1>0, <1>4, <3>1, RecordTells DEF Enter, StoreInv
  <2> QED BY <1>2, <2>2, <2>3, <2>4, <2>5, <2>10, <2>11, <2>12 DEF StoreInv
<1> QED BY <1>3, <1>4 DEF Record

\* Recording keeps what the detector relies on: what leaves the news was told.
LEMMA NewsAreTold ==
    ASSUME WatchInv, RecordNews
    PROVE  WatchInv'
<1>1. SweepTypes /\ ViewInv /\ news # <<>>
  BY DEF WatchInv, RecordNews
<1>2. /\ Head(news) \in Keys /\ Head(news) = news[1] /\ news' = Tail(news)
      /\ news' \in Seq(Keys) /\ Len(news) \in Nat /\ Len(news') = Len(news) - 1
      /\ \A i \in 1..Len(news') : news'[i] = news[i + 1]
  BY <1>1 DEF SweepTypes, RecordNews
<1>3. StoreInv' /\ told' = told \cup ({Head(news)} \cap Edges)
  BY <1>2, RecordKeeps, RecordTells DEF RecordNews
<1>4. UNCHANGED <<now, pc, todo, seeded, before, known, seen, git>>
  BY DEF RecordNews, sweepVars, viewVars
<1>5. \A k : InNews(k)' => InNews(k)
  BY <1>2 DEF InNews
<1>6. \A k \in Edges : InNews(k) => k \in told' \/ InNews(k)'
  <2> SUFFICES ASSUME NEW k \in Edges, NEW i \in 1..Len(news), news[i] = k
               PROVE  k \in told' \/ InNews(k)'
    BY DEF InNews
  <2>1. CASE i = 1
    BY <1>2, <1>3, <2>1
  <2>2. CASE i # 1
    <3>1. i - 1 \in 1..Len(news') /\ news'[i - 1] = k
      BY <1>2, <2>2
    <3> QED BY <3>1 DEF InNews
  <2> QED BY <2>1, <2>2
<1>7. \A s \in Services : <<"service", s, "UP">> \in Edges /\ <<"service", s, "DOWN">> \in Edges
  BY DEF Edges, ServiceKeys
<1>8. \A p \in Procs : <<"process", p, "FAILED">> \in Edges
  BY DEF Edges
<1>9. told \subseteq told'
  BY <1>3
<1>10. \A s \in Services : <<"service", s, "UP">> \in told' => <<"service", s, "UP">> \in told \/ InNews(<<"service", s, "UP">>)
  BY <1>1, <1>2, <1>3 DEF InNews
<1>11. ViewInv'
  <2>1. ASSUME NEW s \in Services
        PROVE  /\ seen[s]' = "DOWN" => <<"service", s, "DOWN">> \in told' \/ InNews(<<"service", s, "DOWN">>)'
               /\ <<"service", s, "UP">> \in told' \/ InNews(<<"service", s, "UP">>)' =>
                     <<"service", s, "DOWN">> \in told'
    BY <1>1, <1>4, <1>5, <1>6, <1>7, <1>9, <1>10 DEF ViewInv
  <2>2. ASSUME NEW p \in Procs, known[p]' = "FAILED"
        PROVE  p \in before' \/ (seeded' /\ (<<"process", p, "FAILED">> \in told' \/ InNews(<<"process", p, "FAILED">>)'))
    BY <1>1, <1>4, <1>6, <1>8, <1>9, <2>2 DEF ViewInv
  <2> QED BY <2>1, <2>2 DEF ViewInv
<1>12. SweepTypes'
  BY <1>1, <1>2, <1>4 DEF SweepTypes
<1> QED BY <1>3, <1>11, <1>12 DEF WatchInv

\* A listing of the processes: what has failed since is in the news.
LEMMA ListingTells ==
    ASSUME WatchInv, news = <<>>, ReadProcesses
    PROVE  ViewInv' /\ news' \in Seq(Keys)
<1>1. SweepTypes /\ StoreInv /\ ViewInv
  BY DEF WatchInv
<1>2. UNCHANGED <<now, seeded, seen, git, told>>
  BY DEF ReadProcesses, storeVars
<1>3. \A k : ~InNews(k)
  BY DEF InNews
<1>4. CASE news' = <<>> /\ UNCHANGED <<known, before>>
  <2>1. \A k : ~InNews(k)'
    BY <1>4 DEF InNews
  <2> QED BY <1>1, <1>2, <1>3, <1>4, <2>1 DEF ViewInv
<1>5. CASE /\ known' \in [Procs -> Statuses]
           /\ news' = IF seeded THEN Listing(known') ELSE <<>>
           /\ before' = IF seeded THEN before ELSE {p \in Procs : known'[p] = "FAILED"}
  <2> DEFINE S == {p \in Procs : ProcessIsNews(known[p], known'[p])}
             changed == SetToSeq(S)
  <2>1. IsFiniteSet(S)
    BY ObservationAssumption, FS_Subset
  <2>2. changed \in Seq(S) /\ \A p \in S : \E i \in 1..Len(changed) : changed[i] = p
    BY <2>1, InSomeOrder
  <2>3. Listing(known') = [i \in DOMAIN changed |-> <<"process", changed[i], known'[changed[i]]>>]
    BY DEF Listing
  <2> HIDE DEF changed
  <2>4. \A p \in S : <<"process", p, known'[p]>> \in ProcessKeys
    BY <1>5 DEF ProcessIsNews, ProcessKeys
  <2>5. /\ Listing(known') \in Seq(ProcessKeys) /\ Len(Listing(known')) = Len(changed)
        /\ Len(changed) \in Nat
        /\ \A i \in 1..Len(changed) : Listing(known')[i] = <<"process", changed[i], known'[changed[i]]>>
    <3>1. Len(changed) \in Nat /\ DOMAIN changed = 1..Len(changed) /\ \A i \in 1..Len(changed) : changed[i] \in S
      BY <2>2
    <3>2. \A i \in 1..Len(changed) : <<"process", changed[i], known'[changed[i]]>> \in ProcessKeys
      BY <2>4, <3>1
    <3>3. Listing(known') \in [1..Len(changed) -> ProcessKeys]
      BY <2>3, <3>1, <3>2
    <3>4. Listing(known') \in Seq(ProcessKeys) /\ Len(Listing(known')) = Len(changed)
      BY <3>1, <3>3
    <3> QED BY <2>3, <3>1, <3>4
  <2>6. news' \in Seq(Keys)
    BY <1>5, <2>5 DEF Keys
  <2>7. CASE seeded
    <3>1. \A s \in Services, v \in {"UP", "DOWN"} : ~InNews(<<"service", s, v>>)'
      BY <1>5, <2>5, <2>7 DEF InNews
    <3>2. ASSUME NEW p \in Procs, known'[p] = "FAILED", known[p] # "FAILED"
          PROVE  InNews(<<"process", p, "FAILED">>)'
      <4>1. p \in S
        BY <3>2 DEF ProcessIsNews
      <4>2. PICK i \in 1..Len(changed) : changed[i] = p
        BY <2>2, <4>1
      <4> QED BY <1>5, <2>5, <2>7, <3>2, <4>2 DEF InNews
    <3>3. ASSUME NEW p \in Procs, known'[p] = "FAILED"
          PROVE  p \in before' \/ (seeded' /\ (<<"process", p, "FAILED">> \in told' \/ InNews(<<"process", p, "FAILED">>)'))
      BY <1>1, <1>2, <1>3, <1>5, <2>7, <3>2, <3>3 DEF ViewInv
    <3>4. ASSUME NEW s \in Services
          PROVE  /\ seen'[s] = "DOWN" => <<"service", s, "DOWN">> \in told' \/ InNews(<<"service", s, "DOWN">>)'
                 /\ <<"service", s, "UP">> \in told' \/ InNews(<<"service", s, "UP">>)' =>
                       <<"service", s, "DOWN">> \in told'
      BY <1>1, <1>2, <1>3, <3>1 DEF ViewInv
    <3> QED BY <2>6, <3>3, <3>4 DEF ViewInv
  <2>8. CASE ~seeded
    <3>1. news' = <<>> /\ \A k : ~InNews(k)'
      BY <1>5, <2>8 DEF InNews
    <3> QED BY <1>1, <1>2, <1>3, <1>5, <2>6, <2>8, <3>1 DEF ViewInv
  <2> QED BY <2>7, <2>8, <1>1 DEF SweepTypes
<1> QED BY <1>1, <1>4, <1>5 DEF ReadProcesses

\* A look at a service: down after up is news, up after down is news of what
\* was told to be down.
LEMMA ServiceTells ==
    ASSUME WatchInv, news = <<>>, NEW s \in Services, CheckService(s)
    PROVE  WatchInv'
<1>1. SweepTypes /\ StoreInv /\ ViewInv
  BY DEF WatchInv
<1>2. UNCHANGED <<now, pc, seeded, before, known, git, ring, lastSeen, recent, told>>
  BY DEF CheckService, storeVars
<1>3. \A k : ~InNews(k)
  BY DEF InNews
<1>4. StoreInv'
  BY <1>1, <1>2 DEF StoreInv
<1>5. todo' \subseteq Services \cup Paths
  BY <1>1 DEF CheckService, SweepTypes
<1>6. CASE news' = <<>> /\ UNCHANGED seen
  <2>1. \A k : ~InNews(k)'
    BY <1>6 DEF InNews
  <2>2. ViewInv' /\ SweepTypes'
    BY <1>1, <1>2, <1>3, <1>5, <1>6, <2>1 DEF ViewInv, SweepTypes
  <2> QED BY <1>4, <2>2 DEF WatchInv
<1>7. ASSUME NEW v \in {"UP", "DOWN"}, news' = ServiceNews(s, seen[s], v), seen' = [seen EXCEPT ![s] = v]
      PROVE  WatchInv'
  <2>1. /\ <<"service", s, v>> \in Keys /\ seen[s] \in {"UNKNOWN", "UP", "DOWN"}
        /\ news' \in {<<>>, <<<<"service", s, v>>>>}
        /\ news' = <<>> => v = seen[s] \/ (seen[s] = "UNKNOWN" /\ v = "UP")
        /\ news' # <<>> => v # seen[s] /\ (v = "UP" => seen[s] = "DOWN")
    BY <1>1, <1>7 DEF ServiceNews, Keys, ServiceKeys, SweepTypes
  <2>2. \A k : InNews(k)' <=> news' # <<>> /\ k = <<"service", s, v>>
    BY <2>1 DEF InNews
  <2>3. ASSUME NEW t \in Services
        PROVE  /\ seen'[t] = "DOWN" => <<"service", t, "DOWN">> \in told' \/ InNews(<<"service", t, "DOWN">>)'
               /\ <<"service", t, "UP">> \in told' \/ InNews(<<"service", t, "UP">>)' =>
                     <<"service", t, "DOWN">> \in told'
    <3>1. CASE t # s
      BY <1>1, <1>2, <1>3, <1>7, <2>2, <3>1 DEF ViewInv, SweepTypes
    <3>2. CASE t = s
      BY <1>1, <1>2, <1>3, <1>7, <2>1, <2>2, <3>2 DEF ViewInv, SweepTypes
    <3> QED BY <3>1, <3>2
  <2>4. ViewInv'
    BY <1>1, <1>2, <1>3, <2>3 DEF ViewInv
  <2>5. news' \in Seq(Keys)
    <3> DEFINE k == <<"service", s, v>>
    <3>1. k \in Keys /\ news' \in {<<>>, <<k>>}
      BY <2>1
    <3> HIDE DEF k
    <3>2. <<k>> \in Seq(Keys)
      BY <3>1
    <3>3. <<>> \in Seq(Keys)
      OBVIOUS
    <3> QED BY <3>1, <3>2, <3>3
  <2>6. SweepTypes'
    BY <1>1, <1>2, <1>5, <1>7, <2>5 DEF SweepTypes
  <2> QED BY <1>4, <2>4, <2>6 DEF WatchInv
<1> QED BY <1>6, <1>7 DEF CheckService

\* What only reads, or waits, or hears of something that is no edge.
LEMMA NothingSeen ==
    ASSUME WatchInv, news' = <<>>, news = <<>>, SweepTypes',
           UNCHANGED <<seeded, before, known, seen, storeVars, now>> \/ (seeded' /\ UNCHANGED <<before, known, seen, storeVars, now>>)
    PROVE  WatchInv'
<1>1. StoreInv /\ ViewInv /\ (seeded => seeded')
  BY DEF WatchInv
<1>2. UNCHANGED <<before, known, seen, ring, lastSeen, recent, told, now>>
  BY DEF storeVars
<1>3. \A k : ~InNews(k) /\ ~InNews(k)'
  BY DEF InNews
<1>4. StoreInv'
  BY <1>1, <1>2 DEF StoreInv
<1>5. ViewInv'
  BY <1>1, <1>2, <1>3 DEF ViewInv
<1> QED BY <1>4, <1>5 DEF WatchInv

\* A workspace's branch or its changed files may be news, but they are no edge.
LEMMA GitNewsIsNoEdge ==
    ASSUME NEW w \in Paths, NEW old \in Repos \cup {NotRead}, NEW new \in Repos
    PROVE  GitNews(w, old, new) = <<>> \/ \E k \in GitKeys : GitNews(w, old, new) = <<k>>
<1> DEFINE what == IF new.branch # old.branch THEN new.branch
                   ELSE IF Files(new) = 0 THEN "clean"
                   ELSE IF Files(old) = 0 THEN "dirty" ELSE "count"
<1>1. new.branch \in Branches
  BY DEF Repos
<1>2. what \in Branches \cup {"clean", "dirty", "count"}
  BY <1>1
<1>3. GitNews(w, old, new) = <<>> \/ GitNews(w, old, new) = <<<<"git", w, what>>>>
  BY DEF GitNews
<1> HIDE DEF what
<1>4. <<"git", w, what>> \in GitKeys
  BY <1>2 DEF GitKeys
<1> QED BY <1>3, <1>4

\* A look at a workspace.
LEMMA WorkspaceTells ==
    ASSUME WatchInv, news = <<>>, NEW w \in Paths, ReadWorkspace(w)
    PROVE  WatchInv'
<1>1. SweepTypes /\ StoreInv /\ ViewInv
  BY DEF WatchInv
<1>2. UNCHANGED <<now, pc, seeded, before, known, seen, ring, lastSeen, recent, told>>
  BY DEF ReadWorkspace, storeVars
<1>3. todo' \subseteq Services \cup Paths
  BY <1>1 DEF ReadWorkspace, SweepTypes
<1>4. git' \in [Paths -> Repos \cup {NotRead}]
  BY <1>1 DEF ReadWorkspace, SweepTypes
<1>5. news' = <<>> \/ \E k \in GitKeys : news' = <<k>>
  <2>1. git[w] \in Repos \cup {NotRead}
    BY <1>1 DEF SweepTypes
  <2>2. news' = <<>> \/ \E repo \in Repos : news' = GitNews(w, git[w], repo)
    BY DEF ReadWorkspace
  <2>3. ASSUME NEW repo \in Repos, news' = GitNews(w, git[w], repo)
        PROVE  news' = <<>> \/ \E k \in GitKeys : news' = <<k>>
    BY <2>1, <2>3, GitNewsIsNoEdge, Zenon
  <2> QED BY ONLY <2>2, <2>3, Zenon
<1>6. news' \in Seq(Keys)
  <2>1. CASE news' = <<>>
    BY <2>1
  <2>2. ASSUME NEW k \in GitKeys, news' = <<k>> PROVE news' \in Seq(Keys)
    BY <2>2 DEF Keys
  <2> QED BY <1>5, <2>1, <2>2
<1>7. SweepTypes'
  BY <1>1, <1>2, <1>3, <1>4, <1>6 DEF SweepTypes
<1>8. \A k : ~InNews(k)
  BY DEF InNews
<1>9. ASSUME NEW k \in Edges PROVE ~InNews(k)'
  <2>1. k \notin GitKeys
    BY DEF Edges, ServiceKeys, GitKeys
  <2> QED BY <1>5, <2>1 DEF InNews
<1>10. \A s \in Services, v \in {"UP", "DOWN"} : ~InNews(<<"service", s, v>>)'
  BY <1>9 DEF Edges, ServiceKeys
<1>11. \A p \in Procs : ~InNews(<<"process", p, "FAILED">>)'
  BY <1>9 DEF Edges
<1>12. StoreInv' /\ ViewInv'
  BY <1>1, <1>2, <1>8, <1>10, <1>11 DEF StoreInv, ViewInv
<1> QED BY <1>7, <1>12 DEF WatchInv

\* What the rest of the backend and the user do to the store.
LEMMA OthersAreRecorded ==
    ASSUME WatchInv, news = <<>>, NEW k \in Others, Observe(k)
    PROVE  WatchInv'
<1>1. SweepTypes /\ ViewInv
  BY DEF WatchInv
<1>2. UNCHANGED <<now, pc, todo, seeded, before, known, seen, git, news>>
  BY DEF Observe, sweepVars, viewVars
<1>3. k \in Keys /\ k \notin Edges
  BY OthersAssumption DEF Keys
<1>4. StoreInv' /\ told' = told
  BY <1>2, <1>3, RecordKeeps, RecordTells DEF Observe
<1>5. \A e : ~InNews(e) /\ ~InNews(e)'
  BY <1>2 DEF InNews
<1>6. ViewInv' /\ SweepTypes'
  BY <1>1, <1>2, <1>4, <1>5 DEF ViewInv, SweepTypes
<1> QED BY <1>4, <1>6 DEF WatchInv

\* Dismissing a line keeps the invariant.
LEMMA DismissKeeps ==
    ASSUME WatchInv, news = <<>>, NEW i \in DOMAIN ring, Dismiss(i)
    PROVE  WatchInv'
<1>1. SweepTypes /\ StoreInv /\ ViewInv
  BY DEF WatchInv
<1>2. UNCHANGED <<now, pc, todo, seeded, before, known, seen, git, news, lastSeen, recent, told>>
  BY DEF Dismiss, sweepVars, viewVars
<1>3. \A k : ~InNews(k) /\ ~InNews(k)'
  BY <1>2 DEF InNews
<1>4. ViewInv' /\ SweepTypes'
  BY <1>1, <1>2, <1>3 DEF ViewInv, SweepTypes
<1>5. /\ ring' \in Seq(Lines) /\ Len(ring') = Len(ring) /\ DOMAIN ring' = DOMAIN ring
      /\ \A j \in DOMAIN ring : /\ ring'[j].key = ring[j].key /\ ring'[j].at = ring[j].at
                                /\ ring'[j].open => ring[j].open
  <2>1. ring \in Seq(Lines) /\ ring' = [ring EXCEPT ![i] = [ring[i] EXCEPT !.open = FALSE]]
    BY <1>1 DEF Dismiss, StoreInv
  <2>2. ring[i] \in Lines
    BY <2>1
  <2>3. /\ [ring[i] EXCEPT !.open = FALSE] \in Lines
        /\ [ring[i] EXCEPT !.open = FALSE].key = ring[i].key
        /\ [ring[i] EXCEPT !.open = FALSE].at = ring[i].at
        /\ [ring[i] EXCEPT !.open = FALSE].open = FALSE
    BY <2>2 DEF Lines
  <2> QED BY <2>1, <2>3
<1>6. StoreInv'
  BY <1>1, <1>2, <1>5 DEF StoreInv
<1> QED BY <1>4, <1>6 DEF WatchInv

\* A tick keeps the invariant: it lets cooldowns and the minute pass.
LEMMA TimePasses ==
    ASSUME WatchInv, news = <<>>, Tick
    PROVE  WatchInv'
<1>1. SweepTypes /\ StoreInv /\ ViewInv
  BY DEF WatchInv
<1>2. /\ UNCHANGED <<pc, todo, seeded, before, known, seen, git, news, ring, lastSeen, recent, told>>
      /\ now' = now + 1 /\ now' \in 1..MaxTime
  BY <1>1, ObservationAssumption DEF Tick, sweepVars, viewVars, storeVars, SweepTypes
<1>3. \A k : ~InNews(k) /\ ~InNews(k)'
  BY <1>2 DEF InNews
<1>4. ViewInv' /\ SweepTypes'
  BY <1>1, <1>2, <1>3 DEF ViewInv, SweepTypes
<1>5. StoreInv'
  <2>1. \A k \in Keys : lastSeen[k] \in 0..MaxTime /\ lastSeen[k] <= now
    BY <1>1 DEF StoreInv
  <2>2. \A k \in Keys : lastSeen'[k] <= now'
    BY <1>1, <1>2, <2>1, ObservationAssumption DEF SweepTypes
  <2> QED BY <1>1, <1>2, <2>2 DEF StoreInv
<1> QED BY <1>4, <1>5 DEF WatchInv

\* The rest of the sweep.
LEMMA SweepKeeps ==
    ASSUME WatchInv, news = <<>>, Sweep
    PROVE  WatchInv'
<1>1. SweepTypes /\ StoreInv
  BY DEF WatchInv
<1>2. CASE StartSweep
  <2>1. SweepTypes'
    BY <1>1, <1>2 DEF StartSweep, SweepTypes, viewVars
  <2> QED BY <1>2, <2>1, NothingSeen DEF StartSweep, viewVars
<1>3. CASE ReadProcesses
  <2>1. ViewInv' /\ news' \in Seq(Keys)
    BY <1>3, ListingTells
  <2>2. SweepTypes'
    BY <1>1, <1>3, <2>1 DEF ReadProcesses, SweepTypes
  <2>3. StoreInv'
    BY <1>1, <1>3 DEF ReadProcesses, StoreInv, storeVars
  <2> QED BY <2>1, <2>2, <2>3 DEF WatchInv
<1>4. CASE ChoosePaths
  <2>1. Watched \subseteq Paths
    BY ObservationAssumption DEF Watched
  <2>2. SweepTypes'
    BY <1>1, <1>4, <2>1 DEF ChoosePaths, SweepTypes, viewVars
  <2> QED BY <1>4, <2>2, NothingSeen DEF ChoosePaths, viewVars
<1>5. CASE EndSweep
  <2>1. SweepTypes'
    BY <1>1, <1>5 DEF EndSweep, SweepTypes, viewVars
  <2> QED BY <1>5, <2>1, NothingSeen DEF EndSweep, viewVars
<1> QED BY <1>2, <1>3, <1>4, <1>5, ServiceTells, WorkspaceTells DEF Sweep

\* Every step of detector and store keeps the invariant.
LEMMA WatchStep == WatchInv /\ [Next]_vars => WatchInv'
<1> SUFFICES ASSUME WatchInv, [Next]_vars PROVE WatchInv'
  OBVIOUS
<1>1. CASE UNCHANGED vars
  <2>1. UNCHANGED <<now, pc, todo, seeded, before, known, seen, git, news, ring, lastSeen, recent, told>>
    BY <1>1 DEF vars, sweepVars, viewVars, storeVars
  <2> QED BY <2>1 DEF WatchInv, SweepTypes, StoreInv, ViewInv, InNews
<1>2. CASE RecordNews
  BY <1>2, NewsAreTold
<1>3. CASE news = <<>> /\ Tick
  BY <1>3, TimePasses
<1>4. CASE news = <<>> /\ Sweep
  BY <1>4, SweepKeeps
<1>5. CASE news = <<>> /\ Elsewhere
  BY <1>5, OthersAreRecorded, DismissKeeps DEF Elsewhere
<1> QED BY <1>1, <1>2, <1>3, <1>4, <1>5 DEF Next

\* Nothing has been seen.
LEMMA WatchStart == Init => WatchInv
<1> SUFFICES ASSUME Init PROVE WatchInv
  OBVIOUS
<1>1. \A k : ~InNews(k)
  BY DEF Init, InNews
<1>2. SweepTypes
  <2>1. news \in Seq(Keys) /\ git \in [Paths -> Repos \cup {NotRead}]
    BY DEF Init
  <2>2. known \in [Procs -> Statuses] /\ seen \in [Services -> {"UNKNOWN", "UP", "DOWN"}]
    BY DEF Init, Statuses
  <2>3. todo \subseteq Services \cup Paths /\ before \subseteq Procs /\ seeded \in BOOLEAN
    BY DEF Init
  <2>5. now \in 1..MaxTime
    <3>1. now = 1
      BY DEF Init
    <3> QED BY <3>1, ObservationAssumption
  <2>4. pc = "idle"
    BY DEF Init
  <2> QED BY <2>1, <2>2, <2>3, <2>4, <2>5 DEF SweepTypes
<1>3. StoreInv
  <2>1. ring = <<>> /\ recent = <<>> /\ told = {} /\ now = 1 /\ lastSeen = [k \in Keys |-> 0]
    BY DEF Init
  <2>2. Edges \subseteq Keys
    BY DEF Edges, Keys, ProcessKeys
  <2>3. lastSeen \in [Keys -> 0..MaxTime] /\ \A k \in Keys : lastSeen[k] = 0
    BY <2>1, ObservationAssumption
  <2> QED BY <2>1, <2>2, <2>3, ObservationAssumption DEF StoreInv
<1>4. ViewInv
  BY <1>1 DEF Init, ViewInv
<1> QED BY <1>2, <1>3, <1>4 DEF WatchInv

\* In every behaviour what the detector knows and what the store has told fit.
THEOREM WatchInvHolds == Spec => []WatchInv
BY WatchStart, WatchStep, PTL DEF Spec

\* No condition is announced again over its own line within the cooldown, and
\* every variable has its type.
THEOREM NoticingIsQuiet == Spec => []QuietWhileListed
<1>1. WatchInv => QuietWhileListed
  BY DEF WatchInv, SweepTypes, StoreInv, QuietWhileListed, TypeOK
<1> QED BY <1>1, WatchInvHolds, PTL

\* A service is never said to have recovered from what nobody was told of.
THEOREM RecoveriesFollowOutages == Spec => []RecoveryFollowsOutage
<1>1. WatchInv => RecoveryFollowsOutage
  BY DEF WatchInv, ViewInv, RecoveryFollowsOutage
<1> QED BY <1>1, WatchInvHolds, PTL

\* No failure of a process is missed between two sweeps.
THEOREM FailuresAreTold == Spec => []NoFailureIsMissed
<1>1. WatchInv => NoFailureIsMissed
  BY DEF WatchInv, ViewInv, NoFailureIsMissed, InNews
<1> QED BY <1>1, WatchInvHolds, PTL

-----------------------------------------------------------------------------
(* Suggestions.                                                            *)

\* The list of suggestions, when the last id given was n.
ListFits(its, n) ==
    /\ its \in Seq(Suggestion) /\ Len(its) <= MaxSuggestions /\ Cardinality(Pending(its)) <= MaxPending
    /\ \A i \in DOMAIN its : its[i].id \in 1..n
    /\ \A i, j \in DOMAIN its : i < j => its[i].id < its[j].id
    /\ \A i, j \in Pending(its) : its[i].key = its[j].key => i = j

\* What is published, E, when the list becomes new: what it says of an id is so,
\* and of an id it does not mention nothing has changed.
Tells(its, new, E) ==
    /\ IsFiniteSet(E)
    /\ \A e \in E : e.id \in Ids(new, DOMAIN new) => (e.what = "created" <=> e.id \in Ids(new, Pending(new)))
    /\ \A id \in Ids(new, DOMAIN new) : (\A e \in E : e.id # id) =>
            id \in Ids(its, DOMAIN its) /\ (id \in Ids(new, Pending(new)) <=> id \in Ids(its, Pending(its)))

\* What is published is of ids that were given.
Given(E, n) == E \subseteq [what : {"created", "gone"}, id : 1..n]

Entry == [what : {"offer", "dismiss"}, key : Conditions, at : 1..MaxClock]

\* A dismissal is never later than the last one kept of its key.
DiaryInv ==
    /\ diary \in Seq(Entry) /\ DismissedStaysQuiet
    /\ dismissed \in [Conditions -> 0..MaxClock] /\ \A k \in Conditions : dismissed[k] <= clock
    /\ \A i \in DOMAIN diary : diary[i].what = "dismiss" => diary[i].at <= dismissed[diary[i].key]

WorldTypes ==
    /\ clock \in 1..MaxClock /\ lives \in [Processes -> {"new", "running", "ended"}]
    /\ heard \in [Processes -> SUBSET {"detector", "start_process", "stop_process"}]
    /\ stops \in [Processes -> Nat] /\ offered \in Seq(1..MaxClock)

\* The invariant behind the properties of the store.
OfferInv == WorldTypes /\ DiaryInv /\ ListFits(items, NewId - 1) /\ Given(published, NewId - 1)

\* A step of the store tells what it does.
StepTells == Tells(items, items', published')

\* A set of places in a list.
LEMMA Places ==
    ASSUME NEW n \in Nat, NEW I \in SUBSET (1..n)
    PROVE  IsFiniteSet(I) /\ Cardinality(I) \in 0..n
<1>1. IsFiniteSet(1..n) /\ Cardinality(1..n) = n
  BY FS_Interval
<1>2. IsFiniteSet(I) /\ Cardinality(I) <= n
  BY <1>1, FS_Subset
<1> QED BY <1>2, FS_CardinalityType

\* The places G of the list, with ids of their own.
Gone(its, G) == {Event("gone", its[i].id) : i \in G}

\* No two of a list have the same id.
LEMMA IdsDiffer ==
    ASSUME NEW n \in Nat, NEW its, ListFits(its, n)
    PROVE  \A i, j \in DOMAIN its : its[i].id = its[j].id => i = j
<1> SUFFICES ASSUME NEW i \in DOMAIN its, NEW j \in DOMAIN its, its[i].id = its[j].id PROVE i = j
  OBVIOUS
<1>1. its[i].id \in 1..n /\ i \in Nat /\ j \in Nat
  BY DEF ListFits
<1>2. CASE i < j
  BY <1>1, <1>2 DEF ListFits
<1>3. CASE j < i
  BY <1>1, <1>3 DEF ListFits
<1> QED BY <1>1, <1>2, <1>3

\* Fewer of the same list are pending, and those that are not any more are told.
LEMMA FewerPending ==
    ASSUME NEW n \in Nat, NEW its, ListFits(its, n),
           NEW new \in Seq(Suggestion), DOMAIN new = DOMAIN its, Len(new) = Len(its),
           \A i \in DOMAIN its : new[i].id = its[i].id /\ new[i].key = its[i].key,
           NEW G \in SUBSET Pending(its), Pending(new) = Pending(its) \ G
    PROVE  ListFits(new, n) /\ Tells(its, new, Gone(its, G)) /\ Given(Gone(its, G), n)
<1>1. Pending(its) \subseteq DOMAIN its
  BY DEF Pending
<1>2. Ids(new, Pending(new)) = Ids(its, Pending(new)) /\ Ids(new, DOMAIN new) = Ids(its, DOMAIN its)
  BY <1>1 DEF Ids
<1>3. IsFiniteSet(Pending(its)) /\ Cardinality(Pending(its)) \in Nat
  <2>1. Len(its) \in Nat /\ Pending(its) \in SUBSET (1..Len(its))
    BY <1>1 DEF ListFits
  <2> QED BY <2>1, Places
<1>4. Cardinality(Pending(new)) <= MaxPending
  <2>1. Cardinality(Pending(new)) <= Cardinality(Pending(its)) /\ IsFiniteSet(Pending(new))
    BY <1>3, FS_Subset
  <2>2. Cardinality(Pending(new)) \in Nat
    BY <2>1, FS_CardinalityType
  <2> QED BY <1>3, <2>1, <2>2, OffersAssumption DEF ListFits
<1>5. \A i, j \in DOMAIN its : its[i].id = its[j].id => i = j
  BY IdsDiffer
<1>6. ListFits(new, n)
  BY <1>1, <1>4 DEF ListFits
<1>7. IsFiniteSet(Gone(its, G))
  <2>1. IsFiniteSet(G)
    BY <1>3, FS_Subset
  <2> DEFINE f == [i \in G |-> Event("gone", its[i].id)]
  <2>2. f \in Surjection(G, Gone(its, G))
    BY DEF Gone, Surjection
  <2> QED BY <2>1, <2>2, FS_Surjection
<1>8. \A e \in Gone(its, G) : e.what = "gone" /\ \E i \in G : e.id = its[i].id
  BY DEF Gone, Event
<1>9. \A i \in G : its[i].id \notin Ids(its, Pending(new))
  BY <1>1, <1>5 DEF Ids
<1>10. ASSUME NEW id \in Ids(its, DOMAIN its), \A e \in Gone(its, G) : e.id # id
       PROVE  id \in Ids(its, Pending(new)) <=> id \in Ids(its, Pending(its))
  <2>1. ASSUME NEW i \in G PROVE its[i].id # id
    <3>1. Event("gone", its[i].id) \in Gone(its, G) /\ Event("gone", its[i].id).id = its[i].id
      BY DEF Gone, Event
    <3> QED BY <1>10, <3>1
  <2> QED BY <2>1 DEF Ids
<1>11. Tells(its, new, Gone(its, G))
  BY <1>2, <1>7, <1>8, <1>9, <1>10 DEF Tells
<1>12. Given(Gone(its, G), n)
  <2>1. \A i \in G : its[i].id \in 1..n
    BY <1>1 DEF ListFits
  <2> QED BY <2>1 DEF Given, Gone, Event
<1> QED BY <1>6, <1>11, <1>12

\* What is due expires, and is told.
LEMMA ExpiringFits ==
    ASSUME NEW n \in Nat, ListFits(items, n)
    PROVE  /\ ListFits(Expire(items), n) /\ Tells(items, Expire(items), Expired) /\ Given(Expired, n)
           /\ Pending(Expire(items)) \subseteq Pending(items)
<1> DEFINE its == Expire(items)
<1>1. items \in Seq(Suggestion) /\ Due(items) \subseteq Pending(items) /\ Pending(items) \subseteq DOMAIN items
  BY DEF ListFits, Due, Pending
<1>2. ASSUME NEW i \in DOMAIN items
      PROVE  /\ its[i] \in Suggestion /\ its[i].id = items[i].id /\ its[i].key = items[i].key
             /\ its[i].status = IF i \in Due(items) THEN "EXPIRED" ELSE items[i].status
  <2>1. its[i] = IF i \in Due(items) THEN [items[i] EXCEPT !.status = "EXPIRED"] ELSE items[i]
    BY DEF Expire
  <2>2. items[i] \in Suggestion
    BY <1>1
  <2> QED BY <2>1, <2>2 DEF Suggestion
<1>3. its \in Seq(Suggestion) /\ DOMAIN its = DOMAIN items /\ Len(its) = Len(items)
  BY <1>1, <1>2 DEF Expire
<1>4. Pending(its) = Pending(items) \ Due(items)
  BY <1>2, <1>3 DEF Pending
<1>5. Gone(items, Due(items)) = Expired
  BY DEF Gone, Expired, Ids
<1> HIDE DEF its
<1>6. ListFits(its, n) /\ Tells(items, its, Gone(items, Due(items))) /\ Given(Gone(items, Due(items)), n)
  BY <1>1, <1>2, <1>3, <1>4, FewerPending
<1> QED BY <1>4, <1>5, <1>6 DEF its

\* The user answers one that is pending.
LEMMA ResolvingFits ==
    ASSUME NEW n \in Nat, NEW its, ListFits(its, n),
           NEW i \in Pending(its), NEW status \in {"ACCEPTED", "DISMISSED"}
    PROVE  /\ ListFits([its EXCEPT ![i].status = status], n)
           /\ Tells(its, [its EXCEPT ![i].status = status], {Event("gone", its[i].id)})
           /\ Given({Event("gone", its[i].id)}, n)
           /\ its[i].id \notin Ids([its EXCEPT ![i].status = status], Pending([its EXCEPT ![i].status = status]))
<1> DEFINE new == [its EXCEPT ![i].status = status]
<1>1. its \in Seq(Suggestion) /\ i \in DOMAIN its
  BY DEF ListFits, Pending
<1>2. its[i] \in Suggestion
  BY <1>1
<1>3. ASSUME NEW j \in DOMAIN its
      PROVE  /\ new[j] \in Suggestion /\ new[j].id = its[j].id /\ new[j].key = its[j].key
             /\ new[j].status = IF j = i THEN status ELSE its[j].status
  <2>1. its[j] \in Suggestion /\ new[j] = IF j = i THEN [its[i] EXCEPT !.status = status] ELSE its[j]
    BY <1>1
  <2> QED BY <1>2, <2>1 DEF Suggestion
<1>4. new \in Seq(Suggestion) /\ DOMAIN new = DOMAIN its /\ Len(new) = Len(its)
  BY <1>1, <1>3
<1> HIDE DEF new
<1>5. Pending(new) = Pending(its) \ {i}
  BY <1>3, <1>4 DEF Pending
<1>6. Gone(its, {i}) = {Event("gone", its[i].id)}
  BY DEF Gone
<1>7. {i} \in SUBSET Pending(its)
  OBVIOUS
<1>8. ListFits(new, n) /\ Tells(its, new, Gone(its, {i})) /\ Given(Gone(its, {i}), n)
  BY <1>3, <1>4, <1>5, <1>7, FewerPending
<1>9. its[i].id \notin Ids(new, Pending(new))
  <2>1. \A j \in Pending(new) : j \in DOMAIN its /\ j # i /\ new[j].id = its[j].id
    BY <1>3, <1>4, <1>5 DEF Pending
  <2> QED BY <1>1, <2>1, IdsDiffer DEF Ids
<1> QED BY <1>6, <1>8, <1>9 DEF new

\* The newest items are a part of the list.
LEMMA NewestAreLast ==
    ASSUME NEW its \in Seq(Suggestion)
    PROVE  /\ NewestItems(its) \in Seq(Suggestion) /\ Len(NewestItems(its)) <= MaxSuggestions
           /\ \E d \in Nat : \A i \in 1..Len(NewestItems(its)) :
                  i + d \in 1..Len(its) /\ NewestItems(its)[i] = its[i + d]
<1>0. Len(its) \in Nat /\ MaxSuggestions \in Nat
  BY OffersAssumption
<1>1. CASE Len(its) <= MaxSuggestions
  <2>1. NewestItems(its) = its
    BY <1>1 DEF NewestItems
  <2>2. \A i \in 1..Len(its) : i + 0 \in 1..Len(its) /\ its[i] = its[i + 0]
    BY <1>0
  <2> QED BY <1>1, <2>1, <2>2
<1>2. CASE Len(its) > MaxSuggestions
  <2> DEFINE d == Len(its) - MaxSuggestions
  <2>1. d \in Nat /\ Len(its) = d + MaxSuggestions
    BY <1>0, <1>2
  <2> HIDE DEF d
  <2>2. NewestItems(its) = SubSeq(its, d + 1, Len(its))
    BY <1>0, <1>2 DEF NewestItems, d
  <2>3. \A i \in (d + 1)..Len(its) : its[i] \in Suggestion
    BY <2>1
  <2>4. /\ NewestItems(its) \in Seq(Suggestion) /\ Len(NewestItems(its)) = MaxSuggestions
        /\ \A i \in 1..(Len(its) - (d + 1) + 1) : NewestItems(its)[i] = its[(d + 1) + i - 1]
    BY <1>0, <2>1, <2>2, <2>3, SubSeqProperties
  <2>5. \A i \in 1..MaxSuggestions : i + d \in 1..Len(its) /\ NewestItems(its)[i] = its[i + d]
    BY <1>0, <2>1, <2>4
  <2>6. \A i \in 1..Len(NewestItems(its)) : i + d \in 1..Len(its) /\ NewestItems(its)[i] = its[i + d]
    BY <2>4, <2>5
  <2>7. NewestItems(its) \in Seq(Suggestion) /\ Len(NewestItems(its)) <= MaxSuggestions
    BY <1>0, <2>4
  <2> QED BY <2>1, <2>6, <2>7
<1>3. Len(its) <= MaxSuggestions \/ Len(its) > MaxSuggestions
  BY <1>0
<1> QED BY ONLY <1>1, <1>2, <1>3

\* A new offer, at the end of the list; the oldest may leave it.
LEMMA OfferingFits ==
    ASSUME NEW n \in Nat, NEW its, ListFits(its, n),
           NEW k \in Conditions, NEW until \in Nat,
           ~Collapsed(its, k), Cardinality(Pending(its)) < MaxPending
    PROVE  LET all == Append(its, [id |-> n + 1, key |-> k, until |-> until, status |-> "PENDING"])
           IN  ListFits(NewestItems(all), n + 1) /\ Tells(its, NewestItems(all), {Event("created", n + 1)})
<1> DEFINE line == [id |-> n + 1, key |-> k, until |-> until, status |-> "PENDING"]
           all == Append(its, line)
           new == NewestItems(all)
           m == Len(its)
<1>1. its \in Seq(Suggestion) /\ line \in Suggestion /\ m \in Nat /\ DOMAIN its = 1..m
  BY DEF ListFits, Suggestion
<1>2. /\ all \in Seq(Suggestion) /\ Len(all) = m + 1 /\ all[m + 1] = line
      /\ \A i \in 1..m : all[i] = its[i]
  BY <1>1
<1>3. /\ new \in Seq(Suggestion) /\ Len(new) <= MaxSuggestions
      /\ \E d \in Nat : \A i \in 1..Len(new) : i + d \in 1..(m + 1) /\ new[i] = all[i + d]
  BY <1>2, NewestAreLast
<1>4. PICK d \in Nat : \A i \in 1..Len(new) : i + d \in 1..(m + 1) /\ new[i] = all[i + d]
  BY <1>3
<1>5. line.id = n + 1 /\ line.key = k /\ line.status = "PENDING"
  OBVIOUS
<1>6. Len(new) \in Nat /\ DOMAIN new = 1..Len(new)
  BY <1>3
<1>7. DOMAIN all = 1..(m + 1)
  BY <1>2
<1> HIDE DEF line, all, new, m
<1>8. \A i \in 1..(m + 1) : all[i].id \in 1..(n + 1)
  <2>1. \A i \in 1..m : its[i].id \in 1..n
    BY <1>1 DEF ListFits
  <2> QED BY <1>1, <1>2, <1>5, <2>1
<1>9. \A i, j \in 1..(m + 1) : i < j => all[i].id < all[j].id
  <2>1. \A i, j \in 1..m : i < j => its[i].id < its[j].id
    BY <1>1 DEF ListFits
  <2>2. \A i \in 1..m : its[i].id \in 1..n
    BY <1>1 DEF ListFits
  <2> QED BY <1>1, <1>2, <1>5, <2>1, <2>2, SMTT(30)
<1>10. Pending(all) = Pending(its) \cup {m + 1}
  BY <1>1, <1>2, <1>5, <1>7 DEF Pending
<1>11. \A i, j \in Pending(all) : all[i].key = all[j].key => i = j
  <2>1. \A i \in Pending(its) : i \in 1..m /\ all[i] = its[i] /\ its[i].key # k
    BY <1>1, <1>2 DEF Pending, Collapsed
  <2>2. \A i, j \in Pending(its) : its[i].key = its[j].key => i = j
    BY DEF ListFits
  <2> QED BY <1>2, <1>5, <1>10, <2>1, <2>2
<1>12. \A i, j \in 1..(m + 1) : all[i].id = all[j].id => i = j
  <2> SUFFICES ASSUME NEW i \in 1..(m + 1), NEW j \in 1..(m + 1), all[i].id = all[j].id PROVE i = j
    OBVIOUS
  <2>1. i \in Nat /\ j \in Nat /\ all[i].id \in Nat /\ all[j].id \in Nat
    BY <1>8
  <2>2. ~(i < j) /\ ~(j < i)
    BY <1>9, <2>1
  <2> QED BY <2>1, <2>2
<1>14. \A i \in Pending(new) : i \in 1..Len(new) /\ i + d \in Pending(all)
  BY <1>4, <1>6, <1>7 DEF Pending
<1>15. \A i \in 1..Len(new) : i + d \in Pending(all) => i \in Pending(new)
  BY <1>4, <1>6, <1>7 DEF Pending
<1>16. Cardinality(Pending(new)) <= MaxPending
  <2>1. Pending(its) \in SUBSET (1..m) /\ MaxPending \in Nat
    BY <1>1, OffersAssumption DEF Pending
  <2>2. IsFiniteSet(Pending(its)) /\ Cardinality(Pending(its)) \in Nat
    BY <1>1, <2>1, Places
  <2>3. IsFiniteSet(Pending(all)) /\ Cardinality(Pending(all)) <= Cardinality(Pending(its)) + 1
        /\ Cardinality(Pending(all)) \in Nat
    <3>1. IsFiniteSet(Pending(all))
          /\ Cardinality(Pending(all)) = IF m + 1 \in Pending(its) THEN Cardinality(Pending(its)) ELSE Cardinality(Pending(its)) + 1
      BY <1>10, <2>2, FS_AddElement
    <3> QED BY <2>2, <3>1
  <2> DEFINE f == [i \in Pending(new) |-> i + d]
  <2>4. f \in Injection(Pending(new), Pending(all))
    BY <1>14, Fun_IsInj
  <2>5. Cardinality(Pending(new)) <= Cardinality(Pending(all)) /\ IsFiniteSet(Pending(new))
    BY <2>3, <2>4, FS_Injection
  <2>6. Cardinality(Pending(new)) \in Nat
    BY <2>5, FS_CardinalityType
  <2> QED BY <2>1, <2>2, <2>3, <2>5, <2>6
<1>17. \A i \in DOMAIN new : new[i].id \in 1..(n + 1)
  BY <1>4, <1>6, <1>8
<1>18. \A i, j \in DOMAIN new : i < j => new[i].id < new[j].id
  <2> SUFFICES ASSUME NEW i \in 1..Len(new), NEW j \in 1..Len(new), i < j PROVE new[i].id < new[j].id
    BY <1>6
  <2>1. i + d < j + d /\ i + d \in 1..(m + 1) /\ j + d \in 1..(m + 1)
    BY <1>4, <1>6
  <2> QED BY <1>4, <1>9, <2>1
<1>19. \A i, j \in Pending(new) : new[i].key = new[j].key => i = j
  <2> SUFFICES ASSUME NEW i \in Pending(new), NEW j \in Pending(new), new[i].key = new[j].key PROVE i = j
    OBVIOUS
  <2>1. i \in 1..Len(new) /\ j \in 1..Len(new) /\ i + d \in Pending(all) /\ j + d \in Pending(all)
    BY <1>14
  <2>2. i + d = j + d
    BY <1>4, <1>11, <2>1
  <2> QED BY <1>6, <2>1, <2>2
<1>20. ListFits(new, n + 1)
  BY <1>3, <1>16, <1>17, <1>18, <1>19 DEF ListFits
<1>21. \A id \in Ids(new, DOMAIN new) : \E i \in 1..Len(new) : id = new[i].id /\ id = all[i + d].id /\ i + d \in 1..(m + 1)
  BY <1>4, <1>6 DEF Ids
<1>22. n + 1 \in Ids(new, DOMAIN new) => n + 1 \in Ids(new, Pending(new))
  <2> SUFFICES ASSUME NEW i \in 1..Len(new), n + 1 = new[i].id, n + 1 = all[i + d].id, i + d \in 1..(m + 1)
               PROVE  n + 1 \in Ids(new, Pending(new))
    BY <1>21
  <2>1. i + d = m + 1
    BY <1>1, <1>2, <1>5, <1>12
  <2>2. i \in Pending(new)
    BY <1>10, <1>15, <2>1
  <2> QED BY <2>2 DEF Ids
<1>23. ASSUME NEW id \in Ids(new, DOMAIN new), id # n + 1
       PROVE  id \in Ids(its, DOMAIN its) /\ (id \in Ids(new, Pending(new)) <=> id \in Ids(its, Pending(its)))
  <2>1. PICK i \in 1..Len(new) : id = new[i].id /\ id = all[i + d].id /\ i + d \in 1..(m + 1)
    BY <1>21, <1>23
  <2>2. i + d \in 1..m /\ id = its[i + d].id
    BY <1>1, <1>2, <1>5, <1>23, <2>1
  <2>3. id \in Ids(its, DOMAIN its)
    BY <1>1, <2>2 DEF Ids
  <2>4. ASSUME id \in Ids(new, Pending(new)) PROVE id \in Ids(its, Pending(its))
    <3>1. PICK j \in Pending(new) : id = new[j].id
      BY <2>4 DEF Ids
    <3>2. j \in 1..Len(new) /\ j + d \in Pending(all) /\ id = all[j + d].id
      BY <1>4, <1>14, <3>1
    <3>3. j + d # m + 1
      BY <1>2, <1>5, <1>23, <3>2
    <3>4. j + d \in Pending(its)
      BY <1>10, <3>2, <3>3
    <3>5. all[j + d] = its[j + d]
      BY <1>1, <1>2, <3>4 DEF Pending
    <3> QED BY <3>2, <3>4, <3>5 DEF Ids
  <2>5. ASSUME id \in Ids(its, Pending(its)) PROVE id \in Ids(new, Pending(new))
    <3>1. PICK j \in Pending(its) : id = its[j].id
      BY <2>5 DEF Ids
    <3>2. j \in 1..m /\ all[j] = its[j]
      BY <1>1, <1>2, <3>1 DEF Pending
    <3>3. j = i + d
      <4>1. j \in 1..(m + 1) /\ all[j].id = all[i + d].id
        BY <1>1, <2>1, <3>1, <3>2
      <4> QED BY <1>12, <2>1, <4>1
    <3>4. i \in Pending(new)
      BY <1>10, <1>15, <3>1, <3>3
    <3> QED BY <2>1, <3>4 DEF Ids
  <2> QED BY <2>3, <2>4, <2>5
<1>24. Tells(its, new, {Event("created", n + 1)})
  <2> DEFINE E == {Event("created", n + 1)}
  <2>1. \A e \in E : e.what = "created" /\ e.id = n + 1
    BY DEF Event
  <2>2. IsFiniteSet(E) /\ \E e \in E : e.id = n + 1
    BY <2>1, FS_Singleton
  <2> HIDE DEF E
  <2>3. Tells(its, new, E)
    BY <1>22, <1>23, <2>1, <2>2 DEF Tells
  <2> QED BY <2>3 DEF E
<1> QED BY <1>20, <1>24 DEF new, all, line

\* One after the other, of different ids.
LEMMA TellsBoth ==
    ASSUME NEW its, NEW mid, NEW new, NEW E, NEW F, Tells(its, mid, E), Tells(mid, new, F),
           \A e \in E, f \in F : e.id # f.id
    PROVE  Tells(its, new, E \cup F)
<1>1. IsFiniteSet(E \cup F)
  BY FS_Union DEF Tells
<1>2. ASSUME NEW e \in E, e.id \in Ids(new, DOMAIN new)
      PROVE  e.what = "created" <=> e.id \in Ids(new, Pending(new))
  BY <1>2 DEF Tells
<1>3. ASSUME NEW f \in F, f.id \in Ids(new, DOMAIN new)
      PROVE  f.what = "created" <=> f.id \in Ids(new, Pending(new))
  BY <1>3 DEF Tells
<1>4. ASSUME NEW id \in Ids(new, DOMAIN new), \A e \in E \cup F : e.id # id
      PROVE  id \in Ids(its, DOMAIN its) /\ (id \in Ids(new, Pending(new)) <=> id \in Ids(its, Pending(its)))
  BY <1>4 DEF Tells
<1> QED BY <1>1, <1>2, <1>3, <1>4 DEF Tells

-----------------------------------------------------------------------------

\* The next id is one more than the offers made.
Offers(d) == {i \in DOMAIN d : d[i].what = "offer"}

\* The offers of a diary are a number up to its length.
LEMMA OffersCounted ==
    ASSUME NEW d \in Seq(Entry)
    PROVE  Cardinality(Offers(d)) \in 0..Len(d)
<1>1. Len(d) \in Nat /\ Offers(d) \in SUBSET (1..Len(d))
  BY DEF Offers
<1> QED BY <1>1, Places

\* An entry adds at most one offer to the diary.
LEMMA OneMoreEntry ==
    ASSUME NEW d \in Seq(Entry), NEW e \in Entry
    PROVE  /\ Append(d, e) \in Seq(Entry)
           /\ Cardinality(Offers(Append(d, e))) = Cardinality(Offers(d)) + (IF e.what = "offer" THEN 1 ELSE 0)
<1> DEFINE n == Len(d)
           all == Append(d, e)
<1>1. n \in Nat /\ DOMAIN d = 1..n /\ all \in Seq(Entry) /\ DOMAIN all = 1..(n + 1)
      /\ all[n + 1] = e /\ \A i \in 1..n : all[i] = d[i]
  OBVIOUS
<1> HIDE DEF all
<1>2. Offers(d) \in SUBSET (1..n) /\ n + 1 \notin Offers(d)
  BY <1>1 DEF Offers
<1>3. IsFiniteSet(Offers(d)) /\ Cardinality(Offers(d)) \in Nat
  BY <1>1, <1>2, Places
<1>4. CASE e.what = "offer"
  <2>1. Offers(all) = Offers(d) \cup {n + 1}
    BY <1>1, <1>4 DEF Offers
  <2>2. Cardinality(Offers(d) \cup {n + 1}) = Cardinality(Offers(d)) + 1
    BY <1>2, <1>3, FS_AddElement
  <2> QED BY <1>1, <1>4, <2>1, <2>2 DEF all
<1>5. CASE e.what # "offer"
  <2>1. Offers(all) = Offers(d)
    BY <1>1, <1>5 DEF Offers
  <2> QED BY <1>1, <1>3, <1>5, <2>1 DEF all
<1> QED BY <1>4, <1>5

\* Every offer is counted in the next id.
LEMMA NextId ==
    ASSUME DiaryInv
    PROVE  NewId = Cardinality(Offers(diary)) + 1 /\ NewId - 1 \in Nat /\ NewId - 1 <= Len(diary)
<1>1. Cardinality(Offers(diary)) \in 0..Len(diary) /\ Len(diary) \in Nat
  BY OffersCounted DEF DiaryInv
<1>2. NewId = 1 + Cardinality(Offers(diary))
  BY DEF NewId, Offers
<1> QED BY <1>1, <1>2

\* What is kept of the recent offers is a part of them.
LEMMA RecentTyped ==
    ASSUME WorldTypes
    PROVE  RecentOffers \in Seq(1..MaxClock)
<1>1. offered \in Seq(1..MaxClock)
  BY DEF WorldTypes
<1>2. {i \in DOMAIN offered : clock - offered[i] <= OfferWindow} \in SUBSET DOMAIN offered
  OBVIOUS
<1> QED BY <1>1, <1>2, LastOnes DEF RecentOffers

\* An offer that is refused changes what was due only; one that is made is the
\* only one of its key, and not of one dismissed a moment ago.
LEMMA OfferKeeps ==
    ASSUME OfferInv, NEW k \in Conditions, Offer(k), UNCHANGED clock,
           lives' \in [Processes -> {"new", "running", "ended"}],
           heard' \in [Processes -> SUBSET {"detector", "start_process", "stop_process"}],
           stops' \in [Processes -> Nat]
    PROVE  OfferInv' /\ StepTells
<1> DEFINE its == Expire(items)
           n == NewId - 1
<1>1. WorldTypes /\ DiaryInv /\ ListFits(items, n) /\ n \in Nat
      /\ n = Cardinality(Offers(diary)) /\ NewId = n + 1
  <2>1. WorldTypes /\ DiaryInv /\ ListFits(items, n)
    BY DEF OfferInv
  <2>2. DiaryInv => Cardinality(Offers(diary)) \in Nat
    BY OffersCounted DEF DiaryInv
  <2> QED BY <2>1, <2>2, NextId
<1>2. ListFits(its, n) /\ Tells(items, its, Expired) /\ Given(Expired, n)
  BY <1>1, ExpiringFits
<1>3. RecentOffers \in Seq(1..MaxClock) /\ clock \in 1..MaxClock
  BY <1>1, RecentTyped DEF WorldTypes
<1>4. CASE /\ items' = its /\ published' = Expired /\ offered' = RecentOffers
           /\ UNCHANGED <<dismissed, diary>>
  <2>1. NewId' = NewId
    BY <1>4 DEF NewId
  <2>2. DiaryInv'
    BY <1>1, <1>4 DEF DiaryInv, DismissedStaysQuiet
  <2>3. WorldTypes'
    BY <1>1, <1>3, <1>4 DEF WorldTypes
  <2> QED BY <1>2, <1>4, <2>1, <2>2, <2>3 DEF OfferInv, StepTells
<1>5. CASE /\ ~Refuses(its, k)
           /\ items' = NewestItems(Append(its,
                          [id |-> NewId, key |-> k, until |-> clock + TTL, status |-> "PENDING"]))
           /\ published' = Expired \cup {Event("created", NewId)} /\ offered' = Append(RecentOffers, clock)
           /\ diary' = Append(diary, [what |-> "offer", key |-> k, at |-> clock])
           /\ UNCHANGED dismissed
  <2> DEFINE e == [what |-> "offer", key |-> k, at |-> clock]
  <2>1. diary \in Seq(Entry) /\ e \in Entry /\ e.what = "offer" /\ e.key = k /\ e.at = clock
    BY <1>1, <1>3 DEF DiaryInv, Entry
  <2>2. diary' = Append(diary, e)
    BY <1>5
  <2> HIDE DEF e
  <2>3. diary' \in Seq(Entry) /\ Cardinality(Offers(diary')) = n + 1
    BY <1>1, <2>1, <2>2, OneMoreEntry
  <2>4. NewId' = n + 2
    BY <1>1, <2>3 DEF NewId, Offers
  <2>5. Cardinality(Pending(its)) < MaxPending /\ ~Collapsed(its, k) /\ ~WavedAway(k)
    <3>1. ~(Cardinality(Pending(its)) >= MaxPending) /\ Len(its) \in Nat /\ MaxPending \in Nat
      BY <1>2, <1>5, OffersAssumption DEF Refuses, ListFits
    <3>2. Cardinality(Pending(its)) \in Nat
      <4>1. Pending(its) \in SUBSET (1..Len(its))
        BY <1>2 DEF Pending, ListFits
      <4> QED BY <3>1, <4>1, Places
    <3> QED BY <1>5, <3>1, <3>2 DEF Refuses
  <2>6. clock + TTL \in Nat
    BY <1>3, OffersAssumption
  <2>7. ListFits(items', n + 1) /\ Tells(its, items', {Event("created", n + 1)})
    BY <1>1, <1>2, <1>5, <2>5, <2>6, OfferingFits
  <2>12. Given(published', n + 1) /\ StepTells
    <3>1. published' = Expired \cup {Event("created", n + 1)}
      BY <1>1, <1>5
    <3>2. Expired \subseteq [what : {"created", "gone"}, id : 1..n]
      BY <1>2 DEF Given
    <3>3. \A x \in {Event("created", n + 1)} : x.what = "created" /\ x.id = n + 1
      BY DEF Event
    <3>4. Given(published', n + 1)
      <4>1. Event("created", n + 1) \in [what : {"created", "gone"}, id : 1..(n + 1)]
        BY <1>1 DEF Event
      <4>2. [what : {"created", "gone"}, id : 1..n] \subseteq [what : {"created", "gone"}, id : 1..(n + 1)]
        BY <1>1
      <4> QED BY <3>1, <3>2, <4>1, <4>2 DEF Given
    <3>5. \A x \in Expired, y \in {Event("created", n + 1)} : x.id # y.id
      BY <1>1, <3>2, <3>3
    <3>6. Tells(items, items', Expired \cup {Event("created", n + 1)})
      BY <1>2, <2>7, <3>5, TellsBoth
    <3> QED BY <3>1, <3>4, <3>6 DEF StepTells
  <2>8. DismissedStaysQuiet'
    <3> DEFINE m == Len(diary)
    <3>0. m \in Nat /\ Len(diary') = m + 1 /\ DOMAIN diary' = 1..(m + 1) /\ DOMAIN diary = 1..m
          /\ diary'[m + 1] = e /\ \A i \in 1..m : diary'[i] = diary[i]
      BY <2>1, <2>2
    <3> SUFFICES ASSUME NEW i \in 1..(m + 1), NEW j \in 1..(m + 1), i < j, diary'[i].what = "dismiss",
                        diary'[j].what = "offer", diary'[j].key = diary'[i].key
                 PROVE  diary'[j].at - diary'[i].at >= OfferCooldown
      BY <3>0 DEF DismissedStaysQuiet
    <3>1. CASE j \in 1..m
      <4>1. i \in 1..m /\ diary'[i] = diary[i] /\ diary'[j] = diary[j]
        BY <3>0, <3>1
      <4>2. \A a, b \in 1..m : a < b /\ diary[a].what = "dismiss" /\ diary[b].what = "offer"
                               /\ diary[b].key = diary[a].key => diary[b].at - diary[a].at >= OfferCooldown
        BY <1>1, <3>0 DEF DiaryInv, DismissedStaysQuiet
      <4> QED BY <3>1, <4>1, <4>2
    <3>2. CASE j = m + 1
      <4>1. i \in 1..m /\ diary'[i] = diary[i] /\ diary[i] \in Entry /\ diary[i].key = k
        BY <2>1, <3>0, <3>2
      <4>2. diary[i].at \in 1..MaxClock /\ diary[i].at <= dismissed[k] /\ dismissed[k] \in 0..MaxClock
        BY <1>1, <3>0, <4>1 DEF DiaryInv, Entry
      <4>3. clock - dismissed[k] >= OfferCooldown
        BY <1>3, <2>5, <4>2, OffersAssumption, SMTT(30) DEF WavedAway
      <4> QED BY <1>3, <2>1, <3>0, <3>2, <4>1, <4>2, <4>3, OffersAssumption, SMTT(30)
    <3> QED BY <3>0, <3>1, <3>2
  <2>9. \A i \in DOMAIN diary' : diary'[i].what = "dismiss" => diary'[i].at <= dismissed'[diary'[i].key]
    BY <1>1, <1>5, <2>1, <2>2 DEF DiaryInv
  <2>10. DiaryInv'
    BY <1>1, <1>5, <2>3, <2>8, <2>9 DEF DiaryInv
  <2>11. WorldTypes'
    BY <1>1, <1>3, <1>5 DEF WorldTypes
  <2> QED BY <1>1, <2>4, <2>7, <2>10, <2>11, <2>12 DEF OfferInv
<1> QED BY <1>4, <1>5 DEF Offer

\* An answer takes the suggestion out of the pending ones, if it still is one, and
\* a dismissal is remembered.
LEMMA AnswerKeeps ==
    ASSUME OfferInv, NEW id, NEW status \in {"ACCEPTED", "DISMISSED"}, Answer(id, status)
    PROVE  OfferInv' /\ StepTells /\ id \notin Ids(items', Pending(items'))
<1> DEFINE n == NewId - 1
<1>1. WorldTypes /\ DiaryInv /\ ListFits(items, n) /\ n \in Nat
      /\ n = Cardinality(Offers(diary)) /\ NewId = n + 1
  <2>1. WorldTypes /\ DiaryInv /\ ListFits(items, n)
    BY DEF OfferInv
  <2>2. DiaryInv => Cardinality(Offers(diary)) \in Nat
    BY OffersCounted DEF DiaryInv
  <2> QED BY <2>1, <2>2, NextId
<1>2. UNCHANGED <<clock, lives, heard, stops, offered>>
  BY DEF Answer, worldVars
<1>3. WorldTypes'
  BY <1>1, <1>2 DEF WorldTypes
<1>4. CASE TooLate(id)
  <2>1. UNCHANGED <<dismissed, diary>> /\ id \notin Ids(items, Pending(items))
        /\ items' = Expire(items) /\ published' = Expired
    BY <1>4 DEF TooLate
  <2>2. /\ ListFits(Expire(items), n) /\ Tells(items, Expire(items), Expired) /\ Given(Expired, n)
        /\ Pending(Expire(items)) \subseteq Pending(items)
    BY <1>1, ExpiringFits
  <2>3. id \notin Ids(Expire(items), Pending(Expire(items)))
    <3>1. \A i \in Pending(items) : Expire(items)[i].id = items[i].id
      BY DEF Expire, Pending
    <3> QED BY <2>1, <2>2, <3>1 DEF Ids
  <2>5. NewId' = NewId /\ DiaryInv'
    BY <1>1, <1>2, <2>1 DEF NewId, DiaryInv, DismissedStaysQuiet
  <2> QED BY <1>3, <2>1, <2>2, <2>3, <2>5 DEF OfferInv, StepTells
<1>5. CASE Resolve(id, status)
  <2>1. PICK i \in Pending(items) :
          /\ items[i].id = id
          /\ items' = [items EXCEPT ![i].status = status]
          /\ dismissed' = IF status = "DISMISSED" THEN [dismissed EXCEPT ![items[i].key] = clock] ELSE dismissed
          /\ diary' = IF status # "DISMISSED" THEN diary
                      ELSE Append(diary, [what |-> "dismiss", key |-> items[i].key, at |-> clock])
    BY <1>5 DEF Resolve
  <2>2. published' = {Event("gone", id)}
    BY <1>5 DEF Resolve
  <2>3. /\ ListFits(items', n) /\ Tells(items, items', published') /\ Given(published', n)
        /\ id \notin Ids(items', Pending(items'))
    <3>1. /\ ListFits([items EXCEPT ![i].status = status], n)
          /\ Tells(items, [items EXCEPT ![i].status = status], {Event("gone", items[i].id)})
          /\ Given({Event("gone", items[i].id)}, n)
          /\ items[i].id \notin Ids([items EXCEPT ![i].status = status], Pending([items EXCEPT ![i].status = status]))
      BY <1>1, ResolvingFits
    <3>2. items[i].id = id /\ items' = [items EXCEPT ![i].status = status]
      BY <2>1
    <3> QED BY <2>2, <3>1, <3>2
  <2>4. CASE status # "DISMISSED"
    <3>1. UNCHANGED <<dismissed, diary>>
      BY <2>1, <2>4
    <3>2. NewId' = NewId /\ DiaryInv'
      BY <1>1, <1>2, <3>1 DEF NewId, DiaryInv, DismissedStaysQuiet
    <3> QED BY <1>3, <2>3, <3>2 DEF OfferInv, StepTells
  <2>5. CASE status = "DISMISSED"
    <3> DEFINE key == items[i].key
               e == [what |-> "dismiss", key |-> key, at |-> clock]
               m == Len(diary)
    <3>1. key \in Conditions /\ clock \in 1..MaxClock
      <4>1. items \in Seq(Suggestion) /\ i \in DOMAIN items
        BY <1>1 DEF ListFits, Pending
      <4>2. items[i] \in Suggestion
        BY <4>1
      <4> QED BY <1>1, <4>2 DEF Suggestion, WorldTypes
    <3>2. diary \in Seq(Entry) /\ e \in Entry /\ e.what = "dismiss" /\ e.key = key /\ e.at = clock
      BY <1>1, <3>1 DEF DiaryInv, Entry
    <3>3. diary' = Append(diary, e) /\ dismissed' = [dismissed EXCEPT ![key] = clock]
      BY <2>1, <2>5
    <3> HIDE DEF e, key
    <3>4. diary' \in Seq(Entry) /\ Cardinality(Offers(diary')) = n
      BY <1>1, <3>2, <3>3, OneMoreEntry
    <3>5. NewId' = NewId
      BY <1>1, <3>4 DEF NewId, Offers
    <3>6. m \in Nat /\ DOMAIN diary' = 1..(m + 1) /\ DOMAIN diary = 1..m
          /\ diary'[m + 1] = e /\ \A j \in 1..m : diary'[j] = diary[j]
      BY <3>2, <3>3
    <3> HIDE DEF m
    <3>7. /\ dismissed' \in [Conditions -> 0..MaxClock] /\ dismissed'[key] = clock
          /\ \A k \in Conditions : dismissed[k] <= dismissed'[k] /\ dismissed'[k] <= clock
      <4>1. dismissed \in [Conditions -> 0..MaxClock] /\ \A k \in Conditions : dismissed[k] <= clock
        BY <1>1 DEF DiaryInv
      <4> QED BY <3>1, <3>3, <4>1, OffersAssumption
    <3>8. \A j \in 1..(m + 1) : diary'[j].what = "dismiss" => diary'[j].at <= dismissed'[diary'[j].key]
      <4> SUFFICES ASSUME NEW j \in 1..(m + 1), diary'[j].what = "dismiss"
                   PROVE  diary'[j].at <= dismissed'[diary'[j].key]
        OBVIOUS
      <4>1. CASE j = m + 1
        BY <3>1, <3>2, <3>6, <3>7, <4>1
      <4>2. CASE j \in 1..m
        <5>1. diary'[j] = diary[j] /\ diary[j] \in Entry /\ diary[j].at <= dismissed[diary[j].key]
          BY <1>1, <3>2, <3>6, <4>2 DEF DiaryInv
        <5>2. diary[j].key \in Conditions /\ diary[j].at \in 1..MaxClock
          BY <5>1 DEF Entry
        <5>3. dismissed[diary[j].key] \in 0..MaxClock /\ dismissed'[diary[j].key] \in 0..MaxClock
          BY <1>1, <3>7, <5>2 DEF DiaryInv
        <5> QED BY <3>7, <5>1, <5>2, <5>3
      <4> QED BY <3>6, <4>1, <4>2
    <3>9. DismissedStaysQuiet'
      <4>1. \A a, b \in 1..m : a < b /\ diary[a].what = "dismiss" /\ diary[b].what = "offer"
                               /\ diary[b].key = diary[a].key => diary[b].at - diary[a].at >= OfferCooldown
        BY <1>1, <3>6 DEF DiaryInv, DismissedStaysQuiet
      <4> SUFFICES ASSUME NEW a \in 1..(m + 1), NEW b \in 1..(m + 1), a < b, diary'[a].what = "dismiss",
                          diary'[b].what = "offer", diary'[b].key = diary'[a].key
                   PROVE  diary'[b].at - diary'[a].at >= OfferCooldown
        BY <3>6 DEF DismissedStaysQuiet
      <4>2. b \in 1..m
        BY <3>2, <3>6
      <4>3. a \in 1..m /\ diary'[a] = diary[a] /\ diary'[b] = diary[b]
        BY <3>6, <4>2
      <4> QED BY <4>1, <4>2, <4>3
    <3>10. DiaryInv'
      BY <1>2, <3>4, <3>6, <3>7, <3>8, <3>9 DEF DiaryInv
    <3> QED BY <1>3, <2>3, <3>5, <3>10 DEF OfferInv, StepTells
  <2> QED BY <2>4, <2>5
<1> QED BY <1>4, <1>5 DEF Answer

\* Reading the list changes what is due only.
LEMMA ReadKeeps ==
    ASSUME OfferInv, ReadList
    PROVE  OfferInv' /\ StepTells
<1>1. WorldTypes /\ DiaryInv /\ ListFits(items, NewId - 1) /\ NewId - 1 \in Nat
  BY NextId DEF OfferInv
<1>2. ListFits(Expire(items), NewId - 1) /\ Tells(items, Expire(items), Expired) /\ Given(Expired, NewId - 1)
  BY <1>1, ExpiringFits
<1>3. items' = Expire(items) /\ published' = Expired
  BY DEF ReadList
<1>4. WorldTypes' /\ DiaryInv' /\ NewId' = NewId
  BY <1>1 DEF ReadList, WorldTypes, DiaryInv, DismissedStaysQuiet, NewId, worldVars
<1> QED BY <1>2, <1>3, <1>4 DEF OfferInv, StepTells

\* Nothing happens to the list, and nothing is told.
LEMMA ListStays ==
    ASSUME UNCHANGED items, published' = {}
    PROVE  StepTells
BY FS_EmptySet DEF StepTells, Tells

\* What an observation becomes is an offer about a process, a server or something else.
LEMMA ReportKeeps ==
    ASSUME OfferInv, NEW p \in Processes, NEW who \in {"detector", "start_process", "stop_process"}, Consider(p, who)
    PROVE  OfferInv' /\ StepTells
<1> DEFINE k == <<IF stops[p] + 1 >= FlappingThreshold THEN "flapping" ELSE "stopped", p>>
<1>1. WorldTypes
  BY DEF OfferInv
<1>2. k \in Conditions /\ Offer(k) /\ UNCHANGED <<clock, lives>>
  BY DEF Consider, Conditions
<1> HIDE DEF k
<1>3. heard' \in [Processes -> SUBSET {"detector", "start_process", "stop_process"}]
      /\ stops' \in [Processes -> Nat]
  BY <1>1 DEF Consider, WorldTypes
<1>4. lives' \in [Processes -> {"new", "running", "ended"}]
  BY <1>1, <1>2 DEF WorldTypes
<1> QED BY <1>2, <1>3, <1>4, OfferKeeps

\* Time and processes keep the invariant.
LEMMA WorldKeeps ==
    ASSUME OfferInv, UNCHANGED <<stops, offerVars>>, published' \in {{}, published},
           UNCHANGED <<clock, worldVars>> \/ ClockTicks \/ \E p \in Processes : Starts(p) \/ Ends(p)
    PROVE  OfferInv'
<1>1. WorldTypes /\ DiaryInv
  BY DEF OfferInv
<1>2. UNCHANGED <<items, dismissed, offered, diary, stops>>
  BY DEF offerVars
<1>3. /\ lives' \in [Processes -> {"new", "running", "ended"}] /\ UNCHANGED heard
      /\ clock' \in 1..MaxClock /\ clock <= clock'
  <2>1. clock \in 1..MaxClock /\ lives \in [Processes -> {"new", "running", "ended"}]
    BY <1>1 DEF WorldTypes
  <2> QED BY <2>1, OffersAssumption DEF ClockTicks, Starts, Ends, worldVars
<1>4. WorldTypes'
  BY <1>1, <1>2, <1>3 DEF WorldTypes
<1>5. \A k \in Conditions : dismissed[k] <= clock'
  <2>1. \A k \in Conditions : dismissed[k] \in 0..MaxClock /\ dismissed[k] <= clock
    BY <1>1 DEF DiaryInv
  <2>2. clock \in Nat /\ clock' \in Nat
    BY <1>1, <1>3 DEF WorldTypes
  <2> QED BY <1>3, <2>1, <2>2, OffersAssumption
<1>6. DiaryInv'
  BY <1>1, <1>2, <1>5 DEF DiaryInv, DismissedStaysQuiet
<1>7. NewId' = NewId
  BY <1>2 DEF NewId
<1>8. Given(published', NewId - 1)
  BY DEF OfferInv, Given
<1> QED BY <1>2, <1>4, <1>6, <1>7, <1>8 DEF OfferInv

\* Every step of engine and store keeps the invariant, and tells what it does.
LEMMA StoreStep ==
    ASSUME OfferInv, SuggestionNext
    PROVE  OfferInv' /\ StepTells
<1>1. WorldTypes
  BY DEF OfferInv
<1>2. CASE ClockTicks \/ \E p \in Processes : Starts(p) \/ Ends(p)
  <2>1. UNCHANGED <<stops, offerVars>> /\ published' = {}
    BY <1>2 DEF ClockTicks, Starts, Ends
  <2> QED BY <1>2, <2>1, WorldKeeps, ListStays DEF offerVars
<1>3. CASE ReadList
  BY <1>3, ReadKeeps
<1>4. ASSUME NEW k \in Conditions, Offer(k), UNCHANGED <<clock, worldVars, stops>> PROVE OfferInv' /\ StepTells
  BY <1>1, <1>4, OfferKeeps DEF WorldTypes, worldVars
<1>5. ASSUME NEW s \in Servers, ServiceReported(s) PROVE OfferInv' /\ StepTells
  BY <1>4, <1>5 DEF ServiceReported, Conditions
<1>6. ASSUME NEW k \in OtherOffers, OtherReported(k) PROVE OfferInv' /\ StepTells
  BY <1>4, <1>6 DEF OtherReported, Conditions
<1>7. ASSUME NEW p \in Processes, DetectorReports(p) \/ \E tool \in {"start_process", "stop_process"} : VerifierReports(p, tool)
      PROVE  OfferInv' /\ StepTells
  BY <1>7, ReportKeeps DEF DetectorReports, VerifierReports
<1> QED BY <1>2, <1>3, <1>5, <1>6, <1>7, AnswerKeeps DEF SuggestionNext

LEMMA OfferStep == OfferInv /\ [SuggestionNext]_suggestionVars => OfferInv'
<1>1. OfferInv /\ UNCHANGED suggestionVars => OfferInv'
  BY WorldKeeps DEF suggestionVars
<1> QED BY <1>1, StoreStep

\* Nothing has been offered.
LEMMA OfferStart == SuggestionInit => OfferInv
<1> SUFFICES ASSUME SuggestionInit PROVE OfferInv
  OBVIOUS
<1>1. WorldTypes
  <2>1. clock = 1 /\ offered = <<>>
    BY DEF SuggestionInit
  <2>2. lives \in [Processes -> {"new", "running", "ended"}] /\ stops \in [Processes -> Nat]
        /\ heard \in [Processes -> SUBSET {"detector", "start_process", "stop_process"}]
    BY DEF SuggestionInit
  <2> QED BY <2>1, <2>2, OffersAssumption DEF WorldTypes
<1>2. DiaryInv
  <2>1. diary = <<>> /\ clock = 1 /\ dismissed = [k \in Conditions |-> 0]
    BY DEF SuggestionInit
  <2>2. diary \in Seq(Entry) /\ DismissedStaysQuiet
    BY <2>1 DEF DismissedStaysQuiet
  <2> QED BY <2>1, <2>2, OffersAssumption DEF DiaryInv
<1>3. ListFits(items, NewId - 1)
  <2>1. items = <<>> /\ items \in Seq(Suggestion)
    BY DEF SuggestionInit
  <2>2. Pending(items) = {} /\ Cardinality(Pending(items)) = 0
    BY <2>1, FS_EmptySet DEF Pending
  <2> QED BY <2>1, <2>2, OffersAssumption DEF ListFits, Ids
<1>4. Given(published, NewId - 1)
  BY DEF SuggestionInit, Given
<1> QED BY <1>1, <1>2, <1>3, <1>4 DEF OfferInv

\* In every behaviour the list of suggestions is in order.
THEOREM OfferInvHolds == SuggestionSpec => []OfferInv
BY OfferStart, OfferStep, PTL DEF SuggestionSpec

\* No condition is offered twice at a time, or again soon after a dismissal; and
\* every variable has its type.
THEOREM OffersStaySparing == SuggestionSpec => []OffersAreSparing
<1>1. OfferInv => OffersAreSparing
  <2> SUFFICES ASSUME OfferInv PROVE OffersAreSparing
    OBVIOUS
  <2>1. WorldTypes /\ DiaryInv /\ ListFits(items, NewId - 1) /\ NewId - 1 <= Len(diary) /\ NewId - 1 \in Nat
    BY NextId DEF OfferInv
  <2>2. \A e \in published : e.what \in {"created", "gone"} /\ e.id \in 1..Len(diary)
    <3>1. Given(published, NewId - 1) /\ Len(diary) \in Nat
      BY <2>1 DEF OfferInv, DiaryInv
    <3> QED BY <2>1, <3>1 DEF Given
  <2> QED BY <2>1, <2>2 DEF WorldTypes, DiaryInv, ListFits, Entry, OffersAreSparing, OnePendingPerKey, SuggestionsOK
<1> QED BY <1>1, OfferInvHolds, PTL

-----------------------------------------------------------------------------
(* What the client shows of it.                                            *)

Events == [what : {"created", "gone"}, id : Nat]
Have == Ids(items, DOMAIN items)

PanelTypes ==
    /\ link \in {"new", "up", "down"} /\ deaf \in BOOLEAN /\ wire \in Seq(Events)
    /\ link # "up" => wire = <<>> /\ ~deaf
    /\ reads \in [Slots -> [st : {"free", "asked", "back"}, got : SUBSET Nat, after : SUBSET Nat]]

\* The last event of an id on the wire says how it is.
OnWire == {wire[j].id : j \in DOMAIN wire}
LastOnWire(j) == \A h \in DOMAIN wire : h > j => wire[h].id # wire[j].id
WireFits ==
    ~deaf => \A j \in DOMAIN wire :
        wire[j].id \in Have /\ LastOnWire(j) => (wire[j].what = "created" <=> Pends(wire[j].id))

\* What a read brings is so, but for what was published since.
ReadsFit ==
    \A i \in Slots : reads[i].st = "back" =>
        \A id \in Have \ reads[i].after : id \in reads[i].got <=> Pends(id)

\* What is wrong on the screen will be put right, or is excused.
ReadComes(id) ==
    \E i \in Slots : reads[i].st = "asked" \/ (reads[i].st = "back" /\ id \notin reads[i].after)
AnswerComes(id) == \E p \in posts : p.id = id /\ p.st = "sent"
Mended(id) ==
    \/ deaf \/ link = "down" \/ id \in excused \/ id \in OnWire \/ ReadComes(id)
    \/ Pends(id) /\ AnswerComes(id)
AllMended == \A id \in Have : (id \in shown <=> Pends(id)) \/ Mended(id)

\* The invariant behind what the client shows.
PanelInv == PanelTypes /\ WireFits /\ ReadsFit /\ AllMended

\* An event that finds room is on the wire, after all that was there before it.
LEMMA NewsArrives ==
    ASSUME PanelTypes, Broadcast, link = "up", ~deaf, published' \subseteq Events, IsFiniteSet(published')
    PROVE  /\ wire' \in Seq(Events) /\ deaf' \in BOOLEAN
           /\ DOMAIN wire \subseteq DOMAIN wire' /\ \A j \in DOMAIN wire : wire'[j] = wire[j]
           /\ \A j \in DOMAIN wire' : j \in DOMAIN wire \/ wire'[j] \in published'
           /\ ~deaf' => \A e \in published' : \E h \in DOMAIN wire' : wire'[h] = e /\ \A j \in DOMAIN wire : h > j
<1>1. PICK s \in SetToSeqs(published'), k \in 0..QueueSize :
          k <= Len(s) /\ wire' = wire \o SubSeq(s, 1, k) /\ deaf' = (k < Len(s))
  BY DEF Broadcast
<1> DEFINE n == Cardinality(published')
           m == Len(wire)
           t == SubSeq(s, 1, k)
<1>2. n \in Nat /\ m \in Nat /\ k \in Nat /\ wire \in Seq(Events) /\ DOMAIN wire = 1..m
  BY PanelAssumption, FS_CardinalityType DEF PanelTypes
<1>3. s \in [1..n -> published'] /\ \A i, j \in 1..n : i # j => s[i] # s[j]
  BY DEF SetToSeqs
<1> HIDE DEF n
<1>4. \A e \in published' : \E i \in 1..n : s[i] = e
  <2>1. s \in Injection(1..n, published')
    BY <1>3, Fun_IsInj
  <2>2. IsFiniteSet(1..n) /\ Cardinality(1..n) = n
    BY <1>2, FS_Interval DEF n
  <2>3. s \in Surjection(1..n, published')
    BY <2>1, <2>2, FS_Injection DEF n
  <2> QED BY <2>3 DEF Surjection
<1>5. s \in Seq(published') /\ Len(s) = n
  BY <1>2, <1>3
<1>6. k \in 0..n /\ deaf' = (k < n)
  BY <1>1, <1>2, <1>5
<1>7. t \in Seq(published') /\ Len(t) = k /\ \A i \in 1..k : t[i] = s[i]
  <2>1. \A i \in 1..k : s[i] \in published'
    BY <1>2, <1>3, <1>6
  <2> QED BY <1>2, <1>5, <1>6, <2>1, SubSeqProperties
<1> HIDE DEF t
<1>8. t \in Seq(Events)
  BY <1>7
<1>9. wire' = wire \o t
  BY <1>1 DEF t
<1> HIDE DEF m
<1>10. /\ wire' \in Seq(Events) /\ DOMAIN wire' = 1..(m + k)
       /\ \A j \in 1..m : wire'[j] = wire[j]
       /\ \A i \in 1..k : wire'[m + i] = t[i]
  BY <1>2, <1>7, <1>8, <1>9 DEF m
<1>11. ASSUME NEW j \in DOMAIN wire' PROVE j \in DOMAIN wire \/ wire'[j] \in published'
  <2>1. j \in 1..m \/ \E i \in 1..k : j = m + i
    <3>1. j \in 1..(m + k) /\ (j <= m \/ j - m \in 1..k) /\ j = m + (j - m)
      BY <1>2, <1>10
    <3> QED BY <1>2, <3>1
  <2>2. \A i \in 1..k : t[i] \in published'
    BY <1>7
  <2> QED BY <1>2, <1>10, <2>1, <2>2
<1>12. ASSUME ~deaf', NEW e \in published'
       PROVE  \E h \in DOMAIN wire' : wire'[h] = e /\ \A j \in DOMAIN wire : h > j
  <2>0. ~(k < n)
    BY <1>6, <1>12, Zenon
  <2>1. k = n
    BY <1>2, <1>6, <2>0
  <2>2. PICK i \in 1..k : s[i] = e
    BY <1>4, <2>1
  <2>3. m + i \in 1..(m + k) /\ wire'[m + i] = e /\ \A j \in 1..m : m + i > j
    BY <1>2, <1>7, <1>10, <2>2
  <2> QED BY <1>2, <1>10, <2>3
<1>13. deaf' \in BOOLEAN
  BY <1>6
<1>14. DOMAIN wire \subseteq DOMAIN wire'
  BY <1>2, <1>10
<1> QED BY <1>2, <1>10, <1>11, <1>12, <1>13, <1>14

\* What was served just now, and what a step does to the reads.
ServedNow == [st |-> "back", got |-> Ids(items', Pending(items')), after |-> {}]
ReadsGoOn ==
    /\ reads' \in [Slots -> [st : {"free", "asked", "back"}, got : SUBSET Nat, after : SUBSET Nat]]
    /\ \A i \in Slots : \/ reads'[i] = Overtaken(reads[i])
                        \/ reads[i].st = "asked" /\ reads'[i] = ServedNow

\* The reads that wait learn what is published.
LEMMA ReadsOvertaken ==
    ASSUME PanelTypes, OfferInv', reads' = [i \in Slots |-> Overtaken(reads[i])]
    PROVE  ReadsGoOn
<1>1. News \subseteq Nat
  BY DEF OfferInv, Given, News
<1>2. ASSUME NEW i \in Slots
      PROVE  Overtaken(reads[i]) \in [st : {"free", "asked", "back"}, got : SUBSET Nat, after : SUBSET Nat]
  BY <1>1 DEF PanelTypes, Overtaken
<1> QED BY <1>2 DEF ReadsGoOn

\* The store moves, whoever moves it: of what it publishes the client will hear,
\* or read, or is excused.
LEMMA PublishKeeps ==
    ASSUME OfferInv', PanelInv, StepTells, Publishes, ReadsGoOn, UNCHANGED shown,
           \A id : Pends(id)' /\ AnswerComes(id) => AnswerComes(id)'
    PROVE  PanelInv'
<1>1. PanelTypes /\ WireFits /\ ReadsFit /\ AllMended
  BY DEF PanelInv
<1>2. published' \subseteq Events /\ IsFiniteSet(published')
  <2>1. published' \subseteq Events
    BY DEF OfferInv, Given, Events
  <2> QED BY <2>1 DEF StepTells, Tells
<1>3. \A id \in Have' : id \notin News => id \in Have /\ (Pends(id)' <=> Pends(id))
  BY DEF StepTells, Tells, News, Have, Pends
<1>4. \A e \in published' : e.id \in Have' => (e.what = "created" <=> e.id \in Ids(items', Pending(items')))
  BY DEF StepTells, Tells, Have
<1>5. /\ link' = link /\ excused' = IF link = "new" THEN excused \cup News ELSE excused
      /\ ~(link = "up" /\ ~deaf) => UNCHANGED <<wire, deaf>>
  BY DEF Publishes, Broadcast
<1>6. link = "up" /\ ~deaf =>
          /\ wire' \in Seq(Events) /\ deaf' \in BOOLEAN
          /\ DOMAIN wire \subseteq DOMAIN wire' /\ \A j \in DOMAIN wire : wire'[j] = wire[j]
          /\ \A j \in DOMAIN wire' : j \in DOMAIN wire \/ wire'[j] \in published'
          /\ ~deaf' => \A e \in published' : \E h \in DOMAIN wire' : wire'[h] = e /\ \A j \in DOMAIN wire : h > j
  BY <1>1, <1>2, NewsArrives DEF Publishes
<1>7. PanelTypes'
  <2>1. wire' \in Seq(Events) /\ deaf' \in BOOLEAN /\ (link' # "up" => wire' = <<>> /\ ~deaf')
    BY <1>1, <1>5, <1>6 DEF PanelTypes
  <2> QED BY <1>1, <1>5, <2>1 DEF PanelTypes, ReadsGoOn
<1>8. WireFits'
  <2> SUFFICES ASSUME ~deaf', NEW j \in DOMAIN wire', wire'[j].id \in Have', LastOnWire(j)'
               PROVE  wire'[j].what = "created" <=> wire'[j].id \in Ids(items', Pending(items'))
    BY DEF WireFits, Pends
  <2>1. link = "up" /\ ~deaf
    BY <1>1, <1>5 DEF PanelTypes
  <2>2. CASE wire'[j] \in published'
    BY <1>4, <2>2
  <2>3. CASE j \in DOMAIN wire
    <3>1. wire'[j] = wire[j]
      BY <1>6, <2>1, <2>3
    <3>2. wire[j].id \notin News
      <4> SUFFICES ASSUME NEW e \in published', e.id = wire[j].id PROVE FALSE
        BY DEF News
      <4>1. PICK h \in DOMAIN wire' : wire'[h] = e /\ h > j
        BY <1>6, <2>1, <2>3
      <4> QED BY <3>1, <4>1 DEF LastOnWire
    <3>3. /\ wire[j].id \in Have
          /\ wire[j].id \in Ids(items', Pending(items')) <=> wire[j].id \in Ids(items, Pending(items))
      BY <1>3, <3>1, <3>2 DEF Pends
    <3>4. LastOnWire(j)
      BY <1>6, <2>1, <3>1 DEF LastOnWire
    <3>5. wire[j].what = "created" <=> wire[j].id \in Ids(items, Pending(items))
      BY <1>1, <2>1, <2>3, <3>3, <3>4 DEF WireFits, Pends
    <3> QED BY <3>1, <3>3, <3>5
  <2> QED BY <1>6, <2>1, <2>2, <2>3
<1>9. ReadsFit'
  <2> SUFFICES ASSUME NEW i \in Slots, reads'[i].st = "back", NEW id \in Have', id \notin reads'[i].after
               PROVE  id \in reads'[i].got <=> Pends(id)'
    BY DEF ReadsFit
  <2>1. CASE reads'[i] = ServedNow
    BY <2>1 DEF ServedNow, Pends
  <2>2. CASE reads'[i] = Overtaken(reads[i])
    <3>1. reads[i].st = "back" /\ reads'[i].got = reads[i].got /\ reads'[i].after = reads[i].after \cup News
      BY <1>1, <2>2 DEF Overtaken, PanelTypes
    <3>2. id \in Have /\ (Pends(id)' <=> Pends(id))
      BY <1>3, <3>1
    <3> QED BY <1>1, <3>1, <3>2 DEF ReadsFit
  <2> QED BY <2>1, <2>2 DEF ReadsGoOn
<1>10. ASSUME NEW id, id \notin News, ReadComes(id) PROVE ReadComes(id)'
  <2>1. PICK i \in Slots : reads[i].st = "asked" \/ (reads[i].st = "back" /\ id \notin reads[i].after)
    BY <1>10 DEF ReadComes
  <2>2. CASE reads'[i] = ServedNow
    BY <2>2 DEF ServedNow, ReadComes
  <2>3. CASE reads'[i] = Overtaken(reads[i])
    <3>1. CASE reads[i].st = "asked"
      BY <2>3, <3>1 DEF Overtaken, ReadComes
    <3>2. CASE reads[i].st = "back" /\ id \notin reads[i].after
      <4>1. reads'[i].st = "back" /\ reads'[i].after = reads[i].after \cup News
        BY <1>1, <2>3, <3>2 DEF Overtaken, PanelTypes
      <4> QED BY <1>10, <3>2, <4>1 DEF ReadComes
    <3> QED BY <2>1, <3>1, <3>2
  <2> QED BY <2>2, <2>3 DEF ReadsGoOn
<1>11. OnWire \subseteq OnWire' /\ (deaf => deaf')
  BY <1>5, <1>6 DEF OnWire
<1>12. ASSUME NEW id \in News PROVE link = "down" \/ id \in excused' \/ deaf' \/ id \in OnWire'
  <2>1. PICK e \in published' : e.id = id
    BY DEF News
  <2>2. CASE link = "up" /\ ~deaf /\ ~deaf'
    BY <1>6, <2>1, <2>2 DEF OnWire
  <2> QED BY <1>1, <1>5, <2>2 DEF PanelTypes
<1>13. AllMended'
  <2> SUFFICES ASSUME NEW id \in Have', ~(id \in shown <=> Pends(id)') PROVE Mended(id)'
    BY DEF AllMended
  <2>1. CASE id \in News
    BY <1>5, <1>12, <2>1 DEF Mended
  <2>2. CASE id \notin News
    <3>1. id \in Have /\ (Pends(id)' <=> Pends(id))
      BY <1>3, <2>2
    <3>2. Mended(id)
      BY <1>1, <3>1 DEF AllMended
    <3>3. ReadComes(id) => ReadComes(id)'
      BY <1>10, <2>2
    <3>4. Pends(id) /\ AnswerComes(id) => Pends(id)' /\ AnswerComes(id)'
      BY <3>1
    <3>5. id \in excused => id \in excused'
      BY <1>5
    <3> QED BY <1>5, <1>11, <3>2, <3>3, <3>4, <3>5 DEF Mended
  <2> QED BY <2>1, <2>2
<1> QED BY <1>7, <1>8, <1>9, <1>13 DEF PanelInv

\* A step of the client's own leaves the list as it is.
LEMMA ListWaits ==
    ASSUME OfferInv, StoreWaits
    PROVE  OfferInv' /\ UNCHANGED items
BY WorldKeeps DEF StoreWaits, offerVars

\* Reads that begin or end bring nothing that is not so.
LEMMA ReadsTurn ==
    ASSUME PanelTypes, ReadsFit, UNCHANGED items, NEW i \in Slots, NEW r \in {Free, Asked},
           reads' = [reads EXCEPT ![i] = r]
    PROVE  /\ ReadsFit'
           /\ reads' \in [Slots -> [st : {"free", "asked", "back"}, got : SUBSET Nat, after : SUBSET Nat]]
           /\ reads'[i] = r /\ \A j \in Slots \ {i} : reads'[j] = reads[j]
<1>1. r \in [st : {"free", "asked", "back"}, got : SUBSET Nat, after : SUBSET Nat] /\ r.st # "back"
  BY DEF Free, Asked
<1>2. /\ reads' \in [Slots -> [st : {"free", "asked", "back"}, got : SUBSET Nat, after : SUBSET Nat]]
      /\ reads'[i] = r /\ \A j \in Slots \ {i} : reads'[j] = reads[j]
  BY <1>1 DEF PanelTypes
<1>3. ReadsFit'
  <2> SUFFICES ASSUME NEW j \in Slots, reads'[j].st = "back", NEW id \in Have', id \notin reads'[j].after
               PROVE  id \in reads'[j].got <=> Pends(id)'
    BY DEF ReadsFit
  <2>1. reads'[j] = reads[j]
    BY <1>1, <1>2
  <2>2. id \in Have /\ (Pends(id)' <=> Pends(id))
    BY DEF Have, Pends
  <2> QED BY <2>1, <2>2 DEF ReadsFit
<1> QED BY <1>2, <1>3

\* A read that has begun brings everything.
LEMMA LoadMends ==
    ASSUME PanelTypes, ReadsFit, UNCHANGED items, Load
    PROVE  /\ ReadsFit' /\ \A id : ReadComes(id)'
           /\ reads' \in [Slots -> [st : {"free", "asked", "back"}, got : SUBSET Nat, after : SUBSET Nat]]
<1>1. PICK i \in Slots : reads' = [reads EXCEPT ![i] = Asked]
  BY DEF Load
<1>2. /\ ReadsFit' /\ reads'[i] = Asked
      /\ reads' \in [Slots -> [st : {"free", "asked", "back"}, got : SUBSET Nat, after : SUBSET Nat]]
  BY <1>1, ReadsTurn
<1> QED BY <1>2 DEF ReadComes, Asked

\* All reads have answered.
LEMMA ShownKeeps ==
    ASSUME PanelInv, UNCHANGED items, NEW i \in Slots, Shown(i)
    PROVE  PanelInv'
<1>1. PanelTypes /\ WireFits /\ ReadsFit /\ AllMended
  BY DEF PanelInv
<1>2. /\ reads[i].st = "back" /\ shown' = reads[i].got /\ excused' = reads[i].after \ OnWire
      /\ reads' = [reads EXCEPT ![i] = Free] /\ UNCHANGED <<link, wire, deaf, posts>>
  BY DEF Shown, socketVars, OnWire
<1>3. /\ ReadsFit'
      /\ reads' \in [Slots -> [st : {"free", "asked", "back"}, got : SUBSET Nat, after : SUBSET Nat]]
  BY <1>1, <1>2, ReadsTurn
<1>4. PanelTypes' /\ WireFits'
  BY <1>1, <1>2, <1>3 DEF PanelTypes, WireFits, LastOnWire, Have, Pends
<1>5. AllMended'
  <2> SUFFICES ASSUME NEW id \in Have', ~(id \in reads[i].got <=> Pends(id)') PROVE Mended(id)'
    BY <1>2 DEF AllMended
  <2>1. id \in Have /\ (Pends(id)' <=> Pends(id))
    BY DEF Have, Pends
  <2>2. id \in reads[i].after
    BY <1>1, <1>2, <2>1 DEF ReadsFit
  <2> QED BY <1>2, <2>2 DEF Mended, OnWire
<1> QED BY <1>3, <1>4, <1>5 DEF PanelInv

\* A read fails.
LEMMA LostKeeps ==
    ASSUME PanelInv, UNCHANGED items, NEW i \in Slots, Lost(i)
    PROVE  PanelInv'
<1>1. PanelTypes /\ WireFits /\ ReadsFit /\ AllMended
  BY DEF PanelInv
<1>2. /\ excused' = excused \cup Wrong
      /\ reads' = [reads EXCEPT ![i] = Free] /\ UNCHANGED <<link, wire, deaf, shown, posts>>
  BY DEF Lost, socketVars
<1>3. /\ ReadsFit'
      /\ reads' \in [Slots -> [st : {"free", "asked", "back"}, got : SUBSET Nat, after : SUBSET Nat]]
  BY <1>1, <1>2, ReadsTurn
<1>4. PanelTypes' /\ WireFits'
  BY <1>1, <1>2, <1>3 DEF PanelTypes, WireFits, LastOnWire, Have, Pends
<1>5. AllMended'
  <2> SUFFICES ASSUME NEW id \in Have', ~(id \in shown <=> Pends(id)') PROVE Mended(id)'
    BY <1>2 DEF AllMended
  <2>1. id \in Wrong
    BY DEF Have, Pends, Wrong
  <2> QED BY <1>2, <2>1 DEF Mended
<1> QED BY <1>3, <1>4, <1>5 DEF PanelInv

\* What is wrong stays so while nothing that mends it is lost.
LEMMA StillMended ==
    ASSUME AllMended, UNCHANGED <<items, shown>>,
           \A id : Mended(id) => Mended(id)'
    PROVE  AllMended'
BY DEF AllMended, Have, Pends

\* The socket opens.
LEMMA OpensKeeps ==
    ASSUME PanelInv, UNCHANGED items, Opens
    PROVE  PanelInv'
<1>1. PanelTypes /\ WireFits /\ ReadsFit /\ AllMended
  BY DEF PanelInv
<1>2. link # "up" /\ link' = "up" /\ UNCHANGED <<wire, deaf, shown, posts, excused>>
      /\ (link = "down" => Load) /\ (link # "down" => UNCHANGED reads)
  BY DEF Opens
<1>3. WireFits'
  BY <1>1, <1>2 DEF WireFits, LastOnWire, Have, Pends
<1>4. CASE link = "down"
  <2>1. /\ ReadsFit' /\ \A id : ReadComes(id)'
        /\ reads' \in [Slots -> [st : {"free", "asked", "back"}, got : SUBSET Nat, after : SUBSET Nat]]
    BY <1>1, <1>2, <1>4, LoadMends
  <2>2. PanelTypes'
    BY <1>1, <1>2, <2>1 DEF PanelTypes
  <2>3. AllMended'
    BY <2>1 DEF AllMended, Mended
  <2> QED BY <1>3, <2>1, <2>2, <2>3 DEF PanelInv
<1>5. CASE link # "down"
  <2>1. UNCHANGED reads
    BY <1>2, <1>5
  <2>2. PanelTypes' /\ ReadsFit'
    BY <1>1, <1>2, <2>1 DEF PanelTypes, ReadsFit, Have, Pends
  <2>3. \A id : Mended(id) => Mended(id)'
    BY <1>2, <1>5, <2>1 DEF Mended, OnWire, ReadComes, AnswerComes, Pends
  <2>4. AllMended'
    BY <1>1, <1>2, <2>3, StillMended
  <2> QED BY <1>3, <2>2, <2>4 DEF PanelInv
<1> QED BY <1>4, <1>5

\* It closes, with all that is on it.
LEMMA ClosesKeeps ==
    ASSUME PanelInv, UNCHANGED items, Closes
    PROVE  PanelInv'
<1>1. PanelTypes /\ ReadsFit
  BY DEF PanelInv
<1>2. link' = "down" /\ wire' = <<>> /\ deaf' = FALSE /\ UNCHANGED reads
  BY DEF Closes
<1>3. PanelTypes'
  <2>1. wire' \in Seq(Events)
    BY <1>2
  <2> QED BY <1>1, <1>2, <2>1 DEF PanelTypes
<1>4. WireFits'
  BY <1>2 DEF WireFits
<1>5. ReadsFit'
  BY <1>1, <1>2 DEF ReadsFit, Have, Pends
<1>6. AllMended'
  BY <1>2 DEF AllMended, Mended
<1> QED BY <1>3, <1>4, <1>5, <1>6 DEF PanelInv

\* An event arrives: the last of its id puts the screen right.
LEMMA HearsKeeps ==
    ASSUME PanelInv, UNCHANGED items, Hears
    PROVE  PanelInv'
<1> DEFINE e == Head(wire)
<1>1. PanelTypes /\ WireFits /\ ReadsFit /\ AllMended
  BY DEF PanelInv
<1>2. /\ link = "up" /\ wire # <<>> /\ wire' = Tail(wire)
      /\ shown' = IF e.what = "created" THEN shown \cup {e.id} ELSE shown \ {e.id}
      /\ UNCHANGED <<link, deaf, reads, posts, excused>>
  BY DEF Hears
<1>3. wire \in Seq(Events)
  BY <1>1 DEF PanelTypes
<1>4. /\ wire' \in Seq(Events) /\ Len(wire) \in Nat \ {0} /\ Len(wire') = Len(wire) - 1 /\ e = wire[1]
      /\ \A j \in 1..Len(wire') : wire'[j] = wire[j + 1]
  BY <1>2, <1>3
<1>5. DOMAIN wire = 1..Len(wire) /\ DOMAIN wire' = 1..Len(wire')
  BY <1>3, <1>4
<1> HIDE DEF e
<1>6. PanelTypes' /\ ReadsFit'
  BY <1>1, <1>2, <1>4 DEF PanelTypes, ReadsFit, Have, Pends
<1>7. WireFits'
  <2> SUFFICES ASSUME ~deaf, NEW j \in 1..Len(wire'), wire'[j].id \in Have', LastOnWire(j)'
               PROVE  wire'[j].what = "created" <=> wire'[j].id \in Ids(items', Pending(items'))
    BY <1>2, <1>5 DEF WireFits, Pends
  <2>1. j + 1 \in DOMAIN wire /\ wire'[j] = wire[j + 1]
    BY <1>4, <1>5
  <2>2. LastOnWire(j + 1)
    <3> SUFFICES ASSUME NEW h \in DOMAIN wire, h > j + 1 PROVE wire[h].id # wire[j + 1].id
      BY DEF LastOnWire
    <3>1. h - 1 \in 1..Len(wire') /\ h - 1 > j /\ wire'[h - 1] = wire[(h - 1) + 1] /\ (h - 1) + 1 = h
      BY <1>4, <1>5
    <3> QED BY <1>5, <2>1, <3>1 DEF LastOnWire
  <2> QED BY <1>1, <2>1, <2>2 DEF WireFits, Have, Pends
<1>8. ASSUME NEW id, id \in OnWire, id # e.id PROVE id \in OnWire'
  <2>1. PICK j \in 1..Len(wire) : wire[j].id = id
    BY <1>5, <1>8 DEF OnWire
  <2>2. j # 1
    BY <1>4, <1>8, <2>1
  <2>3. j - 1 \in 1..Len(wire') /\ wire'[j - 1] = wire[(j - 1) + 1] /\ (j - 1) + 1 = j
    BY <1>4, <2>2
  <2> QED BY <1>5, <2>1, <2>3 DEF OnWire
<1>9. ASSUME ~deaf, e.id \in Have, e.id \notin OnWire' PROVE e.what = "created" <=> Pends(e.id)
  <2>1. 1 \in DOMAIN wire
    BY <1>4, <1>5
  <2>2. LastOnWire(1)
    <3> SUFFICES ASSUME NEW h \in DOMAIN wire, h > 1 PROVE wire[h].id # wire[1].id
      BY DEF LastOnWire
    <3>1. h - 1 \in 1..Len(wire') /\ wire'[h - 1] = wire[(h - 1) + 1] /\ (h - 1) + 1 = h
      BY <1>4, <1>5
    <3>2. wire[h].id \in OnWire'
      BY <1>5, <3>1 DEF OnWire
    <3> QED BY <1>4, <1>9, <3>2
  <2> QED BY <1>1, <1>4, <1>9, <2>1, <2>2 DEF WireFits
<1>10. AllMended'
  <2> SUFFICES ASSUME NEW id \in Have', ~(id \in shown' <=> Pends(id)') PROVE Mended(id)'
    BY DEF AllMended
  <2>1. id \in Have /\ (Pends(id)' <=> Pends(id))
    BY DEF Have, Pends
  <2>2. CASE id = e.id
    BY <1>2, <1>9, <2>1, <2>2 DEF Mended
  <2>3. CASE id # e.id
    <3>1. id \in shown' <=> id \in shown
      BY <1>2, <2>3
    <3>2. Mended(id)
      BY <1>1, <2>1, <3>1 DEF AllMended
    <3> QED BY <1>2, <1>8, <2>1, <2>3, <3>2 DEF Mended, ReadComes, AnswerComes
  <2> QED BY <2>2, <2>3
<1> QED BY <1>6, <1>7, <1>10 DEF PanelInv

\* The user answers: the card is off the screen, the answer is on its way.
LEMMA ClicksKeeps ==
    ASSUME PanelInv, UNCHANGED items, NEW id, NEW status, Clicks(id, status)
    PROVE  PanelInv'
<1>1. PanelTypes /\ WireFits /\ ReadsFit /\ AllMended
  BY DEF PanelInv
<1>2. /\ shown' = shown \ {id} /\ posts' = posts \cup {[id |-> id, status |-> status, st |-> "sent"]}
      /\ UNCHANGED <<link, wire, deaf, reads, excused>>
  BY DEF Clicks, socketVars
<1>3. PanelTypes' /\ WireFits' /\ ReadsFit'
  BY <1>1, <1>2 DEF PanelTypes, WireFits, ReadsFit, LastOnWire, Have, Pends
<1>4. AllMended'
  <2> SUFFICES ASSUME NEW x \in Have', ~(x \in shown' <=> Pends(x)') PROVE Mended(x)'
    BY DEF AllMended
  <2>1. x \in Have /\ (Pends(x)' <=> Pends(x))
    BY DEF Have, Pends
  <2>2. CASE x = id
    <3>1. Pends(x)'
      BY <1>2, <2>2
    <3>2. AnswerComes(x)'
      <4> DEFINE p == [id |-> id, status |-> status, st |-> "sent"]
      <4>1. p \in posts' /\ p.id = id /\ p.st = "sent"
        BY <1>2
      <4> QED BY ONLY <2>2, <4>1 DEF AnswerComes
    <3> QED BY <3>1, <3>2 DEF Mended
  <2>3. CASE x # id
    <3>1. Mended(x)
      BY <1>1, <1>2, <2>1, <2>3 DEF AllMended
    <3>2. AnswerComes(x) => AnswerComes(x)'
      BY <1>2 DEF AnswerComes
    <3> QED BY <1>2, <2>1, <3>1, <3>2 DEF Mended, OnWire, ReadComes
  <2> QED BY <2>2, <2>3
<1> QED BY <1>3, <1>4 DEF PanelInv

\* An answer that was heard returns: the event of it is ahead, or was missed.
LEMMA ReturnsKeeps ==
    ASSUME PanelInv, UNCHANGED items, NEW p \in posts, Returns(p)
    PROVE  PanelInv'
<1>1. PanelTypes /\ WireFits /\ ReadsFit /\ AllMended
  BY DEF PanelInv
<1>2. p.st = "done" /\ posts' = posts \ {p} /\ UNCHANGED <<link, wire, deaf, shown, reads, excused>>
  BY DEF Returns, socketVars
<1>3. PanelTypes' /\ WireFits' /\ ReadsFit'
  BY <1>1, <1>2 DEF PanelTypes, WireFits, ReadsFit, LastOnWire, Have, Pends
<1>4. \A id : AnswerComes(id) => AnswerComes(id)'
  BY <1>2 DEF AnswerComes
<1>5. \A id : Mended(id) => Mended(id)'
  BY <1>2, <1>4 DEF Mended, OnWire, ReadComes, Pends
<1>6. AllMended'
  BY <1>1, <1>2, <1>5, StillMended
<1> QED BY <1>3, <1>6 DEF PanelInv

\* One that fails is followed by a read, or excused if the store never heard of it.
LEMMA FailsKeeps ==
    ASSUME PanelInv, UNCHANGED items, NEW p \in posts, Fails(p)
    PROVE  PanelInv'
<1>1. PanelTypes /\ WireFits /\ ReadsFit /\ AllMended
  BY DEF PanelInv
<1>2. posts' = posts \ {p} /\ UNCHANGED <<link, wire, deaf, shown>>
  BY DEF Fails, socketVars
<1>3. WireFits'
  BY <1>1, <1>2 DEF WireFits, LastOnWire, Have, Pends
<1>4. CASE Load
  <2>1. /\ ReadsFit' /\ \A id : ReadComes(id)'
        /\ reads' \in [Slots -> [st : {"free", "asked", "back"}, got : SUBSET Nat, after : SUBSET Nat]]
    BY <1>1, <1>4, LoadMends
  <2>2. PanelTypes'
    BY <1>1, <1>2, <2>1 DEF PanelTypes
  <2>3. AllMended'
    BY <2>1 DEF AllMended, Mended
  <2> QED BY <1>3, <2>1, <2>2, <2>3 DEF PanelInv
<1>5. CASE UNCHANGED reads /\ excused' = IF p.st = "sent" THEN excused \cup {p.id} ELSE excused
  <2>1. PanelTypes' /\ ReadsFit'
    BY <1>1, <1>2, <1>5 DEF PanelTypes, ReadsFit, Have, Pends
  <2>2. ASSUME NEW id, AnswerComes(id) PROVE AnswerComes(id)' \/ id \in excused'
    <3>1. PICK q \in posts : q.id = id /\ q.st = "sent"
      BY <2>2 DEF AnswerComes
    <3>2. CASE q = p
      BY <1>5, <3>1, <3>2
    <3>3. CASE q # p
      BY <1>2, <3>1, <3>3 DEF AnswerComes
    <3> QED BY <3>2, <3>3
  <2>3. ASSUME NEW id, Mended(id) PROVE Mended(id)'
    <3>1. excused \subseteq excused'
      BY <1>5
    <3>2. AnswerComes(id) => AnswerComes(id)' \/ id \in excused'
      BY <2>2
    <3> QED BY <1>2, <1>5, <2>3, <3>1, <3>2 DEF Mended, OnWire, ReadComes, Pends
  <2>4. AllMended'
    BY <1>1, <1>2, <2>3, StillMended
  <2> QED BY <1>3, <2>1, <2>4 DEF PanelInv
<1> QED BY <1>4, <1>5 DEF Fails

\* The store moves by itself, or for another client.
LEMMA StoreMovesKeeps ==
    ASSUME OfferInv, PanelInv, StoreMoves
    PROVE  OfferInv' /\ PanelInv'
<1>1. SuggestionNext /\ Publishes /\ reads' = [i \in Slots |-> Overtaken(reads[i])] /\ UNCHANGED <<shown, posts>>
  BY DEF StoreMoves
<1>2. OfferInv' /\ StepTells
  BY <1>1, StoreStep
<1>3. PanelTypes
  BY DEF PanelInv
<1>4. ReadsGoOn
  BY <1>1, <1>2, <1>3, ReadsOvertaken
<1>5. \A id : AnswerComes(id) => AnswerComes(id)'
  BY <1>1 DEF AnswerComes
<1> QED BY <1>1, <1>2, <1>4, <1>5, PublishKeeps

\* The list is served to a read of this client's.
LEMMA ServedKeeps ==
    ASSUME OfferInv, PanelInv, NEW i \in Slots, Served(i)
    PROVE  OfferInv' /\ PanelInv'
<1>1. /\ reads[i].st = "asked" /\ ReadList /\ Publishes /\ UNCHANGED <<shown, posts>>
      /\ reads' = [j \in Slots |-> IF j = i THEN ServedNow ELSE Overtaken(reads[j])]
  BY DEF Served, ServedNow
<1>2. OfferInv' /\ StepTells
  BY <1>1, ReadKeeps
<1>3. PanelTypes
  BY DEF PanelInv
<1>4. ServedNow \in [st : {"free", "asked", "back"}, got : SUBSET Nat, after : SUBSET Nat]
  <2>1. \A j \in DOMAIN items' : items'[j].id \in Nat
    BY <1>2 DEF OfferInv, ListFits, Suggestion
  <2>2. Ids(items', Pending(items')) \subseteq Nat
    BY <2>1 DEF Ids, Pending
  <2> QED BY <2>2 DEF ServedNow
<1>5. News \subseteq Nat
  BY <1>2 DEF OfferInv, Given, News
<1>6. \A j \in Slots : Overtaken(reads[j]) \in [st : {"free", "asked", "back"}, got : SUBSET Nat, after : SUBSET Nat]
  BY <1>3, <1>5 DEF PanelTypes, Overtaken
<1>7. ReadsGoOn
  BY <1>1, <1>4, <1>6 DEF ReadsGoOn
<1>8. \A id : AnswerComes(id) => AnswerComes(id)'
  BY <1>1 DEF AnswerComes
<1> QED BY <1>1, <1>2, <1>7, <1>8, PublishKeeps

\* What the user can answer.
PostsFit ==
    \A p \in posts : p \in [id : {p.id}, status : {"ACCEPTED", "DISMISSED"}, st : {"sent", "done", "unknown"}]

\* The user's answer reaches the store: what it is about is not pending any more.
LEMMA ReachesKeeps ==
    ASSUME OfferInv, PanelInv, PostsFit, NEW p \in posts, Reaches(p)
    PROVE  OfferInv' /\ PanelInv'
<1>1. /\ p.st = "sent" /\ Answer(p.id, p.status) /\ Publishes /\ UNCHANGED shown
      /\ posts \ {p} \subseteq posts' /\ reads' = [i \in Slots |-> Overtaken(reads[i])]
  BY DEF Reaches
<1>2. OfferInv' /\ StepTells /\ p.id \notin Ids(items', Pending(items'))
  BY <1>1, AnswerKeeps DEF PostsFit
<1>3. PanelTypes
  BY DEF PanelInv
<1>4. ReadsGoOn
  BY <1>1, <1>2, <1>3, ReadsOvertaken
<1>5. ASSUME NEW id, Pends(id)', AnswerComes(id) PROVE AnswerComes(id)'
  <2>1. PICK q \in posts : q.id = id /\ q.st = "sent"
    BY <1>5 DEF AnswerComes
  <2>2. q # p
    BY <1>2, <1>5, <2>1 DEF Pends
  <2> QED BY <1>1, <2>1, <2>2 DEF AnswerComes
<1> QED BY <1>1, <1>2, <1>4, <1>5, PublishKeeps

\* Nothing has been offered; the page's own read is under way.
LEMMA PanelStart == PanelInit => OfferInv /\ PanelInv /\ PostsFit
<1> SUFFICES ASSUME PanelInit PROVE OfferInv /\ PanelInv /\ PostsFit
  OBVIOUS
<1>1. /\ SuggestionInit /\ link = "new" /\ wire = <<>> /\ deaf = FALSE /\ posts = {}
      /\ reads = [i \in Slots |-> IF i = 1 THEN Asked ELSE Free]
  BY DEF PanelInit
<1>2. Have = {}
  <2>1. items = <<>>
    BY <1>1 DEF SuggestionInit
  <2> QED BY <2>1 DEF Have, Ids
<1>3. PanelTypes
  <2>1. wire \in Seq(Events)
    BY <1>1
  <2>2. reads \in [Slots -> [st : {"free", "asked", "back"}, got : SUBSET Nat, after : SUBSET Nat]]
    BY <1>1 DEF Asked, Free
  <2> QED BY <1>1, <2>1, <2>2 DEF PanelTypes
<1>4. WireFits /\ ReadsFit /\ AllMended
  BY <1>1, <1>2 DEF WireFits, ReadsFit, AllMended
<1>5. PostsFit
  BY <1>1 DEF PostsFit
<1> QED BY <1>1, <1>3, <1>4, <1>5, OfferStart DEF PanelInv

\* A step of the client's that does not touch the store.
LEMMA ClientAlone ==
    ASSUME OfferInv, PanelInv,
           \/ Opens \/ Closes \/ Hears \/ \E i \in Slots : Shown(i) \/ Lost(i)
           \/ \E id \in shown : \E status \in {"ACCEPTED", "DISMISSED"} : Clicks(id, status)
           \/ \E p \in posts : Returns(p) \/ Fails(p)
    PROVE  OfferInv' /\ PanelInv'
<1>1. StoreWaits
  BY DEF Opens, Closes, Hears, Shown, Lost, Clicks, Returns, Fails
<1>2. OfferInv' /\ UNCHANGED items
  BY <1>1, ListWaits
<1>3. CASE Opens \/ Closes \/ Hears
  BY <1>2, <1>3, OpensKeeps, ClosesKeeps, HearsKeeps
<1>4. CASE \E i \in Slots : Shown(i) \/ Lost(i)
  BY <1>2, <1>4, ShownKeeps, LostKeeps
<1>5. CASE \E id \in shown : \E status \in {"ACCEPTED", "DISMISSED"} : Clicks(id, status)
  BY <1>2, <1>5, ClicksKeeps
<1>6. CASE \E p \in posts : Returns(p) \/ Fails(p)
  BY <1>2, <1>6, ReturnsKeeps, FailsKeeps
<1> QED BY <1>3, <1>4, <1>5, <1>6

\* Answers are acceptances and dismissals.
LEMMA PostsStay ==
    ASSUME PostsFit, PanelNext
    PROVE  PostsFit'
<1>1. CASE UNCHANGED posts
  BY <1>1 DEF PostsFit
<1>2. ASSUME NEW id, NEW status \in {"ACCEPTED", "DISMISSED"}, Clicks(id, status) PROVE PostsFit'
  BY <1>2 DEF Clicks, PostsFit
<1>3. ASSUME NEW p \in posts, Reaches(p) PROVE PostsFit'
  <2>1. PICK st \in {"done", "unknown"} : posts' = (posts \ {p}) \cup {[p EXCEPT !.st = st]}
    BY <1>3 DEF Reaches
  <2>2. p \in [id : {p.id}, status : {"ACCEPTED", "DISMISSED"}, st : {"sent", "done", "unknown"}]
    BY DEF PostsFit
  <2>3. [p EXCEPT !.st = st] \in [id : {p.id}, status : {"ACCEPTED", "DISMISSED"}, st : {"sent", "done", "unknown"}]
        /\ [p EXCEPT !.st = st].id = p.id
    BY <2>2
  <2> QED BY <2>1, <2>3 DEF PostsFit
<1>4. ASSUME NEW p \in posts, Returns(p) \/ Fails(p) PROVE PostsFit'
  BY <1>4 DEF Returns, Fails, PostsFit
<1>5. UNCHANGED posts \/ (\E id \in shown : \E status \in {"ACCEPTED", "DISMISSED"} : Clicks(id, status))
      \/ \E p \in posts : Reaches(p) \/ Returns(p) \/ Fails(p)
  BY DEF PanelNext, StoreMoves, Client, Opens, Closes, Hears, Served, Shown, Lost
<1> QED BY <1>1, <1>2, <1>3, <1>4, <1>5

LEMMA PanelStep ==
    OfferInv /\ PanelInv /\ PostsFit /\ [PanelNext]_allVars => OfferInv' /\ PanelInv' /\ PostsFit'
<1> SUFFICES ASSUME OfferInv, PanelInv, PostsFit, [PanelNext]_allVars PROVE OfferInv' /\ PanelInv' /\ PostsFit'
  OBVIOUS
<1>1. CASE UNCHANGED allVars
  <2>1. UNCHANGED suggestionVars /\ UNCHANGED <<link, wire, deaf, shown, reads, posts, excused>>
    BY <1>1 DEF allVars, panelVars, socketVars
  <2>2. OfferInv'
    BY <2>1, OfferStep
  <2>3. UNCHANGED items
    BY <2>1 DEF suggestionVars, offerVars
  <2>4. PanelTypes' /\ WireFits' /\ ReadsFit'
    BY <2>1, <2>3 DEF PanelInv, PanelTypes, WireFits, ReadsFit, LastOnWire, Have, Pends
  <2>5. AllMended'
    <3>1. \A id : Mended(id) => Mended(id)'
      BY <2>1, <2>3 DEF Mended, OnWire, ReadComes, AnswerComes, Pends
    <3> QED BY <2>1, <2>3, <3>1, StillMended DEF PanelInv
  <2>6. PostsFit'
    BY <2>1 DEF PostsFit
  <2> QED BY <2>2, <2>4, <2>5, <2>6 DEF PanelInv
<1>2. CASE PanelNext
  <2>1. PostsFit'
    BY <1>2, PostsStay
  <2>2. CASE StoreMoves
    BY <2>1, <2>2, StoreMovesKeeps
  <2>3. CASE \E i \in Slots : Served(i)
    BY <2>1, <2>3, ServedKeeps
  <2>4. CASE \E p \in posts : Reaches(p)
    BY <2>1, <2>4, ReachesKeeps
  <2> QED BY <1>2, <2>1, <2>2, <2>3, <2>4, ClientAlone DEF PanelNext, Client
<1> QED BY <1>1, <1>2

\* What is wrong on the screen, of what the store still has, is on its way to be
\* put right by an event, a read or an answer, or nothing can: in every behaviour
\* of store and client (loadAuthoritative, onmessage, _broadcast).
THEOREM PanelInvHolds == PanelSpec => [](OfferInv /\ PanelInv)
<1>1. PanelSpec => [](OfferInv /\ PanelInv /\ PostsFit)
  BY PanelStart, PanelStep, PTL DEF PanelSpec
<1> QED BY <1>1, PTL

\* When nothing is under way the screen shows what the store offers, but for what
\* no event and no read can have told it.
THEOREM ClientsListIsRight == PanelSpec => []ClientShowsPending
<1>1. PanelInv => ClientShowsPending
  <2> SUFFICES ASSUME PanelInv, AtRest, NEW id \in Ids(items, DOMAIN items) \ excused
               PROVE  id \in shown <=> Pends(id)
    BY DEF ClientShowsPending
  <2>1. link = "up" /\ ~deaf /\ id \notin OnWire
    BY DEF AtRest, OnWire
  <2>2. ~ReadComes(id) /\ ~AnswerComes(id)
    BY DEF AtRest, ReadComes, AnswerComes, Free
  <2> QED BY <2>1, <2>2 DEF PanelInv, AllMended, Mended, Have
<1> QED BY <1>1, PanelInvHolds, PTL

=============================================================================

---------------------------- MODULE ClientProofs ----------------------------
(***************************************************************************)
(* Theorem about the web client, for any number of requests, reads and     *)
(* closings of the socket: an answer is shown once.                        *)
(***************************************************************************)
EXTENDS Client, FiniteSetTheorems, SequenceTheorems, TLAPS

Events == [task : Tasks, what : {"remark", "answer", "asked", "ended"}]
OnWire(t, what) == \E i \in DOMAIN wire : wire[i].task = t /\ wire[i].what = what
Closed(t) == \E i \in DOMAIN said[t] : said[t][i] # "remark"

\* Nothing is known, said or read of a task before its POST has returned.
PostsInv ==
    \A t \in Tasks :
        /\ chat[t] \in {"unsent", "never", "posted"} => run[t] = "none"
        /\ chat[t] # "known" => said[t] = <<>> /\ active # t /\ net[t] = "off"
        /\ outcome[t] # "none" => run[t] = "ended"

\* The events of a task come in order: remarks and requests, its answer, its end.
WireInv ==
    /\ \A i, j \in DOMAIN wire :
          i < j /\ wire[i].task = wire[j].task /\ wire[i].what \in {"answer", "ended"} => wire[j].what = "ended"
    /\ \A t \in Tasks :
          /\ OnWire(t, "answer") => run[t] \in {"answered", "ended"}
          /\ OnWire(t, "ended") => run[t] \in {"failing", "ended"}
          /\ outcome[t] = "answered" =>
                \A i, j \in DOMAIN wire : wire[i].task = t /\ wire[i].what = "ended" /\ wire[j].task = t => j <= i
          /\ t \in early => /\ run[t] \in {"answered", "ended"}
                            /\ \A i \in DOMAIN wire : wire[i].task = t => wire[i].what = "ended"

\* An answer that is still to come is the first closing turn of its task.
TurnsInv ==
    \A t \in Tasks :
        /\ \A i, j \in DOMAIN said[t] : said[t][i] # "remark" /\ said[t][j] # "remark" => i = j
        /\ active = t /\ Closed(t) => run[t] \in {"answered", "ended"} /\ ~OnWire(t, "answer")

\* A request that never overlapped another is the only one in hand.
AloneInv == \A t \in InHand : t \in aside \/ InHand = {t}

\* What there is to show of such a request is on its way, shown, or to be read by
\* the safety net; its turn at being active ends with its end or a turn.
ToldInv ==
    \A t \in Tasks \ aside :
        /\ chat[t] = "known" /\ active # t =>
              said[t] # <<>> \/ (run[t] \in {"failing", "ended"} /\ ~OnWire(t, "answer"))
        /\ /\ t \notin cut \cup unread \cup early
           /\ chat[t] \in {"replied", "known"}
           /\ run[t] = "answered" \/ (run[t] = "ended" /\ outcome[t] = "answered")
           => \/ OnWire(t, "answer")
              \/ said[t] # <<>>
              \/ /\ run[t] = "ended" /\ \A i \in DOMAIN wire : wire[i].task # t
                 /\ chat[t] = "replied" \/ (active = t /\ net[t] \in {"armed", "asked", "answer"})

\* The invariant behind AnswerIsShownOnce.
ClientInv == TypeOK /\ PostsInv /\ WireInv /\ TurnsInv /\ AloneInv /\ ToldInv

-----------------------------------------------------------------------------
(* Types.                                                                  *)

\* An event is put on the wire, at its end, or is cut off.
Told(t, what) ==
    \/ UNCHANGED wire /\ cut' = cut \cup {t}
    \/ /\ Len(wire') = Len(wire) + 1 /\ wire'[Len(wire) + 1].task = t /\ wire'[Len(wire) + 1].what = what
       /\ \A i \in 1..Len(wire) : wire'[i] = wire[i]
       /\ UNCHANGED cut

\* What a run publishes is on the wire, or lost, and its task is known.
LEMMA Published ==
    ASSUME TypeOK, NEW t \in Tasks, NEW what \in {"remark", "answer", "asked", "ended"}, Publish(t, what)
    PROVE  wire' \in Seq(Events) /\ cut' \subseteq Tasks /\ Told(t, what)
<1>1. wire \in Seq(Events) /\ cut \subseteq Tasks
  BY DEF TypeOK, Events
<1>2. Event(t, what) \in Events /\ Event(t, what).task = t /\ Event(t, what).what = what
  BY DEF Event, Events
<1>3. CASE link = "up"
  <2>1. wire' = Append(wire, Event(t, what)) /\ UNCHANGED cut
    BY <1>3 DEF Publish
  <2> QED BY <1>1, <1>2, <2>1 DEF Told
<1>4. CASE link # "up"
  BY <1>1, <1>4 DEF Publish, Told
<1> QED BY <1>3, <1>4

\* What a step of a run does to its state and its outcome, and what it tells.
Moves(from, to, old, new, what) ==
    \/ from = "running" /\ to \in {"running", "asking"} /\ new = old /\ what \in {"remark", "asked"}
    \/ from = "asking" /\ to = "running" /\ new = old /\ what = "nothing"
    \/ from = "running" /\ to = "answered" /\ new = old /\ what = "answer"
    \/ from = "answered" /\ to = "ended" /\ new = "answered" /\ what = "ended"
    \/ from = "running" /\ to = "ended" /\ new = "silent" /\ what = "ended"
    \/ from \in {"running", "asking", "answered", "failing"} /\ to = "ended" /\ new = "stopped" /\ what = "ended"
    \/ from = "running" /\ to = "failing" /\ new = old /\ what = "ended"
    \/ from = "failing" /\ to = "ended" /\ new = "stopped" /\ what = "nothing"

Moved(t) ==
    /\ \E to, new, what : /\ Moves(run[t], to, outcome[t], new, what)
                          /\ run' = [run EXCEPT ![t] = to] /\ outcome' = [outcome EXCEPT ![t] = new]
                          /\ IF what = "nothing" THEN UNCHANGED <<wire, cut>> ELSE Told(t, what)
    /\ UNCHANGED <<chat, net, active, said, unread, aside, early>>

\* A step of a run moves its task alone, and keeps every type.
LEMMA RunsMove ==
    ASSUME TypeOK, NEW t \in Tasks, Runs(t)
    PROVE  Moved(t) /\ TypeOK'
<1>1. run[t] \in {"none", "running", "asking", "answered", "failing", "ended"}
      /\ outcome \in [Tasks -> {"none", "answered", "silent", "stopped"}]
      /\ run \in [Tasks -> {"none", "running", "asking", "answered", "failing", "ended"}]
  BY DEF TypeOK
<1>2. outcome = [outcome EXCEPT ![t] = outcome[t]] /\ run = [run EXCEPT ![t] = run[t]]
  BY <1>1
<1>3. CASE Speak(t)
  <2>1. wire' \in Seq(Events) /\ cut' \subseteq Tasks /\ Told(t, "remark")
    BY <1>3, Published DEF Speak
  <2>2. Moved(t)
    BY <1>2, <1>3, <2>1 DEF Speak, Elsewhere, screen, Moved, Moves
  <2>3. TypeOK'
    BY <1>3, <2>1 DEF Speak, Elsewhere, screen, TypeOK, Events
  <2> QED BY <2>2, <2>3
<1>4. CASE Ask(t)
  <2>1. wire' \in Seq(Events) /\ cut' \subseteq Tasks /\ Told(t, "asked")
    BY <1>4, Published DEF Ask
  <2>2. Moved(t)
    BY <1>2, <1>4, <2>1 DEF Ask, Run, Elsewhere, screen, Moved, Moves
  <2>3. TypeOK'
    BY <1>4, <2>1 DEF Ask, Run, Elsewhere, screen, TypeOK, Events
  <2> QED BY <2>2, <2>3
<1>5. CASE Settle(t)
  <2>1. Moved(t)
    BY <1>2, <1>5 DEF Settle, Run, Elsewhere, screen, Moved, Moves
  <2>2. TypeOK'
    BY <1>5 DEF Settle, Run, Elsewhere, screen, TypeOK
  <2> QED BY <2>1, <2>2
<1>6. CASE Answer(t)
  <2>1. wire' \in Seq(Events) /\ cut' \subseteq Tasks /\ Told(t, "answer")
    BY <1>6, Published DEF Answer
  <2>2. Moved(t)
    BY <1>2, <1>6, <2>1 DEF Answer, Run, Elsewhere, screen, Moved, Moves
  <2>3. TypeOK'
    BY <1>6, <2>1 DEF Answer, Run, Elsewhere, screen, TypeOK, Events
  <2> QED BY <2>2, <2>3
<1>7. CASE Complete(t)
  <2>1. wire' \in Seq(Events) /\ cut' \subseteq Tasks /\ Told(t, "ended")
    BY <1>7, Published DEF Complete, End
  <2>2. Moved(t)
    BY <1>7, <2>1 DEF Complete, End, Run, Elsewhere, screen, Moved, Moves
  <2>3. TypeOK'
    BY <1>7, <2>1 DEF Complete, End, Run, Elsewhere, screen, TypeOK, Events
  <2> QED BY <2>2, <2>3
<1>8. CASE Cancelled(t)
  <2>1. wire' \in Seq(Events) /\ cut' \subseteq Tasks /\ Told(t, "ended")
    BY <1>8, Published DEF Cancelled, End
  <2>2. Moved(t)
    BY <1>8, <2>1 DEF Cancelled, End, Run, Elsewhere, screen, Moved, Moves
  <2>3. TypeOK'
    BY <1>8, <2>1 DEF Cancelled, End, Run, Elsewhere, screen, TypeOK, Events
  <2> QED BY <2>2, <2>3
<1>9. CASE Fail(t)
  <2>1. wire' \in Seq(Events) /\ cut' \subseteq Tasks /\ Told(t, "ended")
    BY <1>9, Published DEF Fail
  <2>2. Moved(t)
    BY <1>2, <1>9, <2>1 DEF Fail, Run, Elsewhere, screen, Moved, Moves
  <2>3. TypeOK'
    BY <1>9, <2>1 DEF Fail, Run, Elsewhere, screen, TypeOK, Events
  <2> QED BY <2>2, <2>3
<1>10. CASE Failed(t)
  <2>1. Moved(t)
    BY <1>10 DEF Failed, Run, Elsewhere, screen, Moved, Moves
  <2>2. TypeOK'
    BY <1>10 DEF Failed, Run, Elsewhere, screen, TypeOK
  <2> QED BY <2>1, <2>2
<1> QED BY <1>3, <1>4, <1>5, <1>6, <1>7, <1>8, <1>9, <1>10 DEF Runs, Works

\* The wire after its first event was taken off.
LEMMA Popped ==
    ASSUME TypeOK, wire # <<>>, wire' = Tail(wire)
    PROVE  /\ wire' \in Seq(Events) /\ Head(wire) \in Events /\ Head(wire) = wire[1] /\ 1 \in DOMAIN wire
           /\ Len(wire) \in Nat /\ Len(wire') = Len(wire) - 1
           /\ \A i \in 1..Len(wire') : wire'[i] = wire[i + 1]
<1>1. wire \in Seq(Events)
  BY DEF TypeOK, Events
<1> QED BY <1>1

\* A read of the approvals that is asked for keeps its types.
LEMMA RefreshTypes ==
    ASSUME TypeOK, Refresh
    PROVE  reads' \in [Slots -> [st : {"free", "asked", "back"}, got : SUBSET Tasks]]
<1>1. Asked \in [st : {"free", "asked", "back"}, got : SUBSET Tasks]
  BY DEF Asked
<1> QED BY <1>1 DEF Refresh, TypeOK

\* No step leaves the types.
LEMMA TypeStep == TypeOK /\ [Next]_vars => TypeOK'
<1> SUFFICES ASSUME TypeOK, [Next]_vars PROVE TypeOK'
  OBVIOUS
<1> USE DEF backend, socket, screen, history
<1>1. CASE UNCHANGED vars
  BY <1>1 DEF vars, TypeOK
<1>2. ASSUME NEW t \in Tasks, Send(t) PROVE TypeOK'
  BY <1>2 DEF Send, TypeOK, InHand
<1>3. ASSUME NEW t \in Tasks, Posts(t) PROVE TypeOK'
  <2>1. CASE Accepted(t)
    BY <2>1 DEF Accepted, TypeOK
  <2>2. CASE Replied(t)
    BY <2>2 DEF Replied, TypeOK
  <2>3. CASE SendFails(t)
    BY <2>3 DEF SendFails, TypeOK
  <2> QED BY <1>3, <2>1, <2>2, <2>3 DEF Posts
<1>4. ASSUME NEW t \in Tasks, NetFires(t) \/ NetReads(t) \/ NetFails(t) PROVE TypeOK'
  <2>1. CASE NetFires(t)
    BY <2>1 DEF NetFires, TypeOK
  <2>2. CASE NetReads(t)
    BY <2>2 DEF NetReads, TypeOK
  <2>3. CASE NetFails(t)
    BY <2>3 DEF NetFails, TypeOK
  <2> QED BY <1>4, <2>1, <2>2, <2>3
<1>5. ASSUME NEW t \in Tasks, NetReturns(t) PROVE TypeOK'
  <2>1. said' \in [Tasks -> Seq({"remark", "answer", "notice"})]
    BY <1>5 DEF NetReturns, TypeOK
  <2> QED BY <1>5, <2>1 DEF NetReturns, TypeOK
<1>6. ASSUME NEW t \in Tasks, Decide(t) PROVE TypeOK'
  BY <1>6, RefreshTypes DEF Decide, Run, TypeOK
<1>7. ASSUME NEW i \in Slots, Read(i) PROVE TypeOK'
  <2>1. Free \in [st : {"free", "asked", "back"}, got : SUBSET Tasks]
        /\ Pending \subseteq Tasks /\ [st |-> "back", got |-> Pending] \in [st : {"free", "asked", "back"}, got : SUBSET Tasks]
    BY DEF Free, Pending
  <2>2. reads[i] \in [st : {"free", "asked", "back"}, got : SUBSET Tasks]
    BY DEF TypeOK
  <2>3. reads' \in [Slots -> [st : {"free", "asked", "back"}, got : SUBSET Tasks]]
    BY <1>7, <2>1 DEF Read, Served, Shown, Lost, TypeOK
  <2> QED BY <1>7, <2>1, <2>2, <2>3 DEF Read, Served, Shown, Lost, TypeOK
<1>8. CASE Open
  BY <1>8, RefreshTypes DEF Open, TypeOK
<1>9. CASE Close
  <2>1. drops' \in 0..MaxDrops /\ wire' = <<>> /\ link' = "down"
    BY <1>9, ClientAssumption DEF Close, TypeOK
  <2>2. {wire[i].task : i \in DOMAIN wire} \subseteq Tasks
    <3>1. \A i \in DOMAIN wire : wire[i] \in Events
      <4>1. wire \in Seq(Events)
        BY DEF TypeOK, Events
      <4> QED BY <4>1
    <3> QED BY <3>1 DEF Events
  <2> QED BY <1>9, <2>1, <2>2 DEF Close, TypeOK
<1>10. CASE Receive
  <2>1. wire' \in Seq(Events) /\ Head(wire) \in Events
    BY <1>10, Popped DEF Receive
  <2>2. reads' \in [Slots -> [st : {"free", "asked", "back"}, got : SUBSET Tasks]]
    BY <1>10, RefreshTypes DEF Receive, Says, Ends, TypeOK
  <2>3. said' \in [Tasks -> Seq({"remark", "answer", "notice"})] /\ busy' \in BOOLEAN /\ active' \in Tasks \cup {NoTask}
    <3>1. CASE Head(wire).task = active /\ Says
      <4>1. active \in Tasks /\ Head(wire).what \in {"remark", "answer"}
        BY <2>1, <3>1 DEF Events, Says
      <4>2. said[active] \in Seq({"remark", "answer", "notice"})
        BY <4>1 DEF TypeOK
      <4>3. Append(said[active], Head(wire).what) \in Seq({"remark", "answer", "notice"})
        BY <4>1, <4>2
      <4> QED BY <3>1, <4>1, <4>3 DEF Says, TypeOK
    <3>2. CASE Head(wire).task = active /\ Ends
      BY <3>2 DEF Ends, TypeOK
    <3>3. CASE UNCHANGED screen
      BY <3>3 DEF TypeOK
    <3> QED BY <1>10, <3>1, <3>2, <3>3 DEF Receive
  <2>4. early' \subseteq Tasks
    BY <1>10, <2>1 DEF Receive, TypeOK, Events
  <2> QED BY <1>10, <2>1, <2>2, <2>3, <2>4 DEF Receive, TypeOK, Events
<1> QED BY <1>1, <1>2, <1>3, <1>4, <1>5, <1>6, <1>7, <1>8, <1>9, <1>10, RunsMove DEF Next, Net

-----------------------------------------------------------------------------
(* The invariant.                                                          *)

\* What the invariant is about, types apart.
RestInv == PostsInv /\ WireInv /\ TurnsInv /\ AloneInv /\ ToldInv
core == <<run, outcome, wire, chat, net, active, said, cut, unread, aside, early>>

\* A step that leaves tasks, socket and screen alone keeps the invariant.
LEMMA NothingMoves ==
    ASSUME ClientInv, UNCHANGED core
    PROVE  RestInv'
BY DEF core, ClientInv, RestInv, PostsInv, WireInv, TurnsInv, AloneInv, ToldInv, OnWire, Closed, InHand

\* What is on the wire after a step of a run.
LEMMA WireAfter ==
    ASSUME TypeOK, TypeOK', NEW t \in Tasks, Moved(t)
    PROVE  \E what, to, new :
             /\ Moves(run[t], to, outcome[t], new, what) /\ run'[t] = to /\ outcome'[t] = new
             /\ \A u \in Tasks \ {t} : run'[u] = run[u] /\ outcome'[u] = outcome[u]
             /\ \/ wire' = wire /\ (what # "nothing" => t \in cut')
                \/ /\ what # "nothing" /\ Len(wire) \in Nat /\ DOMAIN wire = 1..Len(wire) /\ DOMAIN wire' = 1..(Len(wire) + 1)
                   /\ wire'[Len(wire) + 1].task = t /\ wire'[Len(wire) + 1].what = what
                   /\ \A i \in 1..Len(wire) : wire'[i] = wire[i]
             /\ cut \subseteq cut'
<1>1. PICK to, new, what :
          /\ Moves(run[t], to, outcome[t], new, what)
          /\ run' = [run EXCEPT ![t] = to] /\ outcome' = [outcome EXCEPT ![t] = new]
          /\ IF what = "nothing" THEN UNCHANGED <<wire, cut>> ELSE Told(t, what)
  BY DEF Moved
<1>2. run'[t] = to /\ outcome'[t] = new /\ \A u \in Tasks \ {t} : run'[u] = run[u] /\ outcome'[u] = outcome[u]
  BY <1>1 DEF TypeOK
<1>3. wire \in Seq(Events) /\ wire' \in Seq(Events)
  BY DEF TypeOK, Events
<1> QED BY <1>1, <1>2, <1>3, SMTT(30) DEF Told

\* A step of a run keeps the order of its events, and what there is to show.
LEMMA RunsKeep ==
    ASSUME ClientInv, TypeOK', NEW t \in Tasks, Moved(t)
    PROVE  RestInv'
<1>1. TypeOK /\ PostsInv /\ WireInv /\ TurnsInv /\ AloneInv /\ ToldInv
  BY DEF ClientInv
<1>2. UNCHANGED <<chat, net, active, said, unread, aside, early>>
  BY DEF Moved
<1>3. PICK what, to, new :
             /\ Moves(run[t], to, outcome[t], new, what) /\ run'[t] = to /\ outcome'[t] = new
             /\ \A u \in Tasks \ {t} : run'[u] = run[u] /\ outcome'[u] = outcome[u]
             /\ \/ wire' = wire /\ (what # "nothing" => t \in cut')
                \/ /\ what # "nothing" /\ Len(wire) \in Nat /\ DOMAIN wire = 1..Len(wire) /\ DOMAIN wire' = 1..(Len(wire) + 1)
                   /\ wire'[Len(wire) + 1].task = t /\ wire'[Len(wire) + 1].what = what
                   /\ \A i \in 1..Len(wire) : wire'[i] = wire[i]
             /\ cut \subseteq cut'
  BY <1>1, WireAfter
<1>4. run[t] # "none" /\ run[t] # "ended" /\ to # "none" /\ (new # "none" => outcome[t] # "none" \/ to = "ended")
      /\ outcome[t] = "none"
  BY <1>1, <1>3 DEF Moves, PostsInv
<1>5. PostsInv'
  BY <1>1, <1>2, <1>3, <1>4 DEF PostsInv
<1>6. \A u \in Tasks : \A w : OnWire(u, w) => OnWire(u, w)'
  BY <1>3 DEF OnWire
<1>7. \A u \in Tasks : \A w : OnWire(u, w)' => OnWire(u, w) \/ (u = t /\ w = what)
  BY <1>3 DEF OnWire
<1>8. run[t] \in {"running", "asking"} => ~OnWire(t, "answer") /\ ~OnWire(t, "ended")
  BY <1>1 DEF WireInv
<1>9. \A i, j \in DOMAIN wire' :
          i < j /\ wire'[i].task = wire'[j].task /\ wire'[i].what \in {"answer", "ended"} => wire'[j].what = "ended"
  <2>1. CASE wire' = wire
    BY <1>1, <2>1 DEF WireInv
  <2>2. CASE wire' # wire
    <3>1. \A j \in 1..Len(wire) : wire'[j] = wire[j]
      BY <1>3, <2>2
    <3>2. ASSUME NEW i \in 1..Len(wire), wire[i].task = t, wire[i].what \in {"answer", "ended"}
          PROVE  what = "ended"
      <4>1. run[t] \notin {"running", "asking"}
        BY <1>3, <1>8, <2>2, <3>2 DEF OnWire
      <4> QED BY <1>3, <2>2, <4>1 DEF Moves
    <3> QED BY <1>1, <1>3, <2>2, <3>1, <3>2 DEF WireInv
  <2> QED BY <2>1, <2>2
<1>10. ASSUME NEW u \in Tasks
       PROVE  /\ OnWire(u, "answer")' => run'[u] \in {"answered", "ended"}
              /\ OnWire(u, "ended")' => run'[u] \in {"failing", "ended"}
              /\ u \in early' => run'[u] \in {"answered", "ended"}
  <2>1. CASE u # t
    BY <1>1, <1>2, <1>3, <1>7, <2>1 DEF WireInv
  <2>2. CASE u = t
    BY <1>1, <1>2, <1>3, <1>7, <1>8, <2>2 DEF WireInv, Moves
  <2> QED BY <2>1, <2>2
<1>11. ASSUME NEW u \in early'
       PROVE  \A i \in DOMAIN wire' : wire'[i].task = u => wire'[i].what = "ended"
  <2>1. u \in Tasks /\ u \in early /\ run[u] \in {"answered", "ended"}
        /\ \A i \in DOMAIN wire : wire[i].task = u => wire[i].what = "ended"
    BY <1>1, <1>2 DEF WireInv, TypeOK
  <2>2. u = t => what \in {"ended", "nothing"}
    BY <1>3, <2>1 DEF Moves
  <2> QED BY <1>3, <2>1, <2>2
<1>12. ASSUME NEW u \in Tasks, outcome'[u] = "answered"
       PROVE  \A i, j \in DOMAIN wire' : wire'[i].task = u /\ wire'[i].what = "ended" /\ wire'[j].task = u => j <= i
  <2>1. CASE u # t
    BY <1>1, <1>3, <1>12, <2>1, SMTT(30) DEF WireInv
  <2>2. CASE u = t
    <3>1. run[t] = "answered" /\ what = "ended"
      BY <1>3, <1>4, <1>12, <2>2 DEF Moves
    <3>2. ~OnWire(t, "ended")
      BY <1>1, <3>1 DEF WireInv
    <3> QED BY <1>3, <2>2, <3>2 DEF OnWire
  <2> QED BY <2>1, <2>2
<1>13. WireInv'
  BY <1>9, <1>10, <1>11, <1>12 DEF WireInv
<1>14. TurnsInv'
  <2>1. \A u \in Tasks : Closed(u)' <=> Closed(u)
    BY <1>2 DEF Closed
  <2>2. ASSUME NEW u \in Tasks, active = u, Closed(u)
        PROVE  run'[u] \in {"answered", "ended"} /\ ~OnWire(u, "answer")'
    <3>1. run[u] \in {"answered", "ended"} /\ ~OnWire(u, "answer")
      BY <1>1, <2>2 DEF TurnsInv
    <3>2. u = t => to \in {"answered", "ended"} /\ what # "answer"
      BY <1>3, <3>1 DEF Moves
    <3> QED BY <1>3, <1>7, <3>1, <3>2
  <2> QED BY <1>1, <1>2, <2>1, <2>2 DEF TurnsInv
<1>15. AloneInv'
  BY <1>1, <1>2 DEF AloneInv, InHand
<1>16. ASSUME NEW u \in Tasks \ aside, chat[u] = "known", active # u
       PROVE  said[u] # <<>> \/ (run'[u] \in {"failing", "ended"} /\ ~OnWire(u, "answer")')
  <2>1. said[u] # <<>> \/ (run[u] \in {"failing", "ended"} /\ ~OnWire(u, "answer"))
    BY <1>1, <1>16 DEF ToldInv
  <2>2. u = t /\ run[t] = "failing" => to = "ended" /\ what # "answer"
    BY <1>3 DEF Moves
  <2> QED BY <1>3, <1>4, <1>7, <2>1, <2>2
<1>17. ASSUME NEW u \in Tasks \ aside, u \notin cut' \cup unread \cup early, chat[u] \in {"replied", "known"},
              run'[u] = "answered" \/ (run'[u] = "ended" /\ outcome'[u] = "answered")
       PROVE  \/ OnWire(u, "answer")'
              \/ said[u] # <<>>
              \/ /\ run'[u] = "ended" /\ \A i \in DOMAIN wire' : wire'[i].task # u
                 /\ chat[u] = "replied" \/ (active = u /\ net[u] \in {"armed", "asked", "answer"})
  <2>1. CASE u # t
    BY <1>1, <1>3, <1>6, <1>17, <2>1 DEF ToldInv
  <2>2. CASE u = t
    <3>1. CASE run[t] = "answered"
      BY <1>1, <1>3, <1>6, <1>17, <2>2, <3>1 DEF ToldInv
    <3>2. CASE run[t] # "answered"
      <4>1. what = "answer"
        BY <1>3, <1>4, <1>17, <2>2, <3>2 DEF Moves
      <4> QED BY <1>3, <1>17, <2>2, <4>1 DEF OnWire
    <3> QED BY <3>1, <3>2
  <2> QED BY <2>1, <2>2
<1>18. ToldInv'
  BY <1>2, <1>16, <1>17 DEF ToldInv
<1> QED BY <1>5, <1>13, <1>14, <1>15, <1>18 DEF RestInv

\* A request is sent, beside those in hand or alone.
LEMMA SendKeeps ==
    ASSUME ClientInv, TypeOK', NEW t \in Tasks, Send(t)
    PROVE  RestInv'
<1>1. TypeOK /\ PostsInv /\ WireInv /\ TurnsInv /\ AloneInv /\ ToldInv
  BY DEF ClientInv
<1>2. UNCHANGED <<run, outcome, wire, net, active, said, cut, unread, early>>
  BY DEF Send, backend, socket
<1>3. chat[t] = "unsent" /\ chat'[t] = "posted" /\ \A u \in Tasks \ {t} : chat'[u] = chat[u]
  BY <1>1 DEF Send, TypeOK
<1>4. aside \subseteq aside' /\ (InHand # {} => InHand \cup {t} \subseteq aside')
  BY DEF Send
<1>5. InHand' \subseteq InHand \cup {t}
  BY <1>2, <1>3 DEF InHand
<1>6. PostsInv'
  BY <1>1, <1>2, <1>3 DEF PostsInv
<1>7. WireInv' /\ TurnsInv'
  BY <1>1, <1>2 DEF WireInv, TurnsInv, OnWire, Closed
<1>8. t \in InHand'
  BY <1>3 DEF InHand
<1>9. AloneInv'
  BY <1>4, <1>5, <1>8 DEF AloneInv
<1>10. ToldInv'
  BY <1>1, <1>2, <1>3, <1>4 DEF ToldInv, OnWire
<1> QED BY <1>6, <1>7, <1>9, <1>10 DEF RestInv

\* The post is accepted, and its run starts.
LEMMA AcceptedKeeps ==
    ASSUME ClientInv, TypeOK', NEW t \in Tasks, Accepted(t)
    PROVE  RestInv'
<1>1. TypeOK /\ PostsInv /\ WireInv /\ TurnsInv /\ AloneInv /\ ToldInv
  BY DEF ClientInv
<1>2. UNCHANGED <<outcome, wire, net, active, said, cut, unread, aside, early>>
  BY DEF Accepted, socket, screen, history
<1>3. /\ chat[t] = "posted" /\ chat'[t] = "replied" /\ \A u \in Tasks \ {t} : chat'[u] = chat[u] /\ run'[u] = run[u]
      /\ run'[t] = "running"
  BY <1>1 DEF Accepted, TypeOK
<1>4. run[t] = "none" /\ said[t] = <<>> /\ active # t /\ net[t] = "off" /\ outcome[t] = "none"
  BY <1>1, <1>3 DEF PostsInv
<1>5. ~OnWire(t, "answer") /\ ~OnWire(t, "ended") /\ t \notin early
  BY <1>1, <1>4 DEF WireInv
<1>6. \A u \in Tasks : \A w : OnWire(u, w)' <=> OnWire(u, w)
  BY <1>2 DEF OnWire
<1>7. PostsInv'
  BY <1>1, <1>2, <1>3, <1>4 DEF PostsInv
<1>8. WireInv'
  BY <1>1, <1>2, <1>3, <1>4, <1>5, <1>6 DEF WireInv
<1>9. TurnsInv'
  BY <1>1, <1>2, <1>3, <1>4, <1>6 DEF TurnsInv, Closed
<1>10. InHand' = InHand
  BY <1>2, <1>3 DEF InHand
<1>11. AloneInv'
  BY <1>1, <1>2, <1>10 DEF AloneInv
<1>12. ToldInv'
  BY <1>1, <1>2, <1>3, <1>6 DEF ToldInv
<1> QED BY <1>7, <1>8, <1>9, <1>11, <1>12 DEF RestInv

\* A POST that fails leaves a request that is never answered.
LEMMA SendFailsKeeps ==
    ASSUME ClientInv, TypeOK', NEW t \in Tasks, SendFails(t)
    PROVE  RestInv'
<1>1. TypeOK /\ PostsInv /\ WireInv /\ TurnsInv /\ AloneInv /\ ToldInv
  BY DEF ClientInv
<1>2. UNCHANGED <<run, outcome, wire, net, active, said, cut, unread, aside, early>>
  BY DEF SendFails, backend, socket, history
<1>3. chat[t] \in {"posted", "replied"} /\ chat'[t] = "failed" /\ \A u \in Tasks \ {t} : chat'[u] = chat[u]
  BY <1>1 DEF SendFails, TypeOK
<1>4. PostsInv'
  BY <1>1, <1>2, <1>3 DEF PostsInv
<1>5. WireInv' /\ TurnsInv'
  BY <1>1, <1>2 DEF WireInv, TurnsInv, OnWire, Closed
<1>6. InHand' \subseteq InHand
  BY <1>2, <1>3 DEF InHand
<1>7. AloneInv'
  BY <1>1, <1>2, <1>6 DEF AloneInv
<1>8. ToldInv'
  BY <1>1, <1>2, <1>3 DEF ToldInv, OnWire
<1> QED BY <1>4, <1>5, <1>7, <1>8 DEF RestInv

\* The response: from now on it is the active task, and no other was that overlapped
\* none.
LEMMA RepliedKeeps ==
    ASSUME ClientInv, TypeOK', NEW t \in Tasks, Replied(t)
    PROVE  RestInv'
<1>1. TypeOK /\ PostsInv /\ WireInv /\ TurnsInv /\ AloneInv /\ ToldInv
  BY DEF ClientInv
<1>2. UNCHANGED <<run, outcome, wire, said, cut, unread, aside, early>>
  BY DEF Replied, backend, socket, history
<1>3. /\ chat[t] = "replied" /\ chat'[t] = "known" /\ net'[t] = "armed" /\ active' = t
      /\ \A u \in Tasks \ {t} : chat'[u] = chat[u] /\ net'[u] = net[u]
  BY <1>1 DEF Replied, TypeOK
<1>4. said[t] = <<>> /\ active # t
  BY <1>1, <1>3 DEF PostsInv
<1>5. \A u \in Tasks : \A w : OnWire(u, w)' <=> OnWire(u, w)
  BY <1>2 DEF OnWire
<1>6. PostsInv'
  BY <1>1, <1>2, <1>3 DEF PostsInv
<1>7. WireInv'
  BY <1>1, <1>2 DEF WireInv, OnWire
<1>8. ~Closed(t)'
  BY <1>2, <1>4 DEF Closed
<1>9. TurnsInv'
  BY <1>1, <1>2, <1>3, <1>8 DEF TurnsInv
<1>10. InHand' \subseteq InHand /\ t \in InHand
  BY <1>2, <1>3 DEF InHand
<1>11. AloneInv'
  BY <1>1, <1>2, <1>10 DEF AloneInv
<1>12. \A u \in Tasks \ aside : u # t => u # active /\ u \notin InHand
  <2>1. \A u \in Tasks : active = u => u \in InHand
    BY DEF InHand
  <2> QED BY <1>1, <1>10, <2>1 DEF AloneInv
<1>13. ToldInv'
  <2>1. ASSUME NEW u \in Tasks \ aside, u # t
        PROVE  /\ chat'[u] = chat[u] /\ net'[u] = net[u] /\ active # u /\ active' # u
               /\ net[u] \in {"off", "armed"}
    BY <1>2, <1>3, <1>12, <2>1 DEF InHand
  <2> QED BY <1>1, <1>2, <1>3, <1>5, <2>1 DEF ToldInv
<1> QED BY <1>6, <1>7, <1>9, <1>11, <1>13 DEF RestInv

\* The timer fires, and the record is read.
LEMMA NetAsks ==
    ASSUME ClientInv, TypeOK', NEW t \in Tasks, NetFires(t) \/ NetReads(t)
    PROVE  RestInv'
<1>1. TypeOK /\ PostsInv /\ WireInv /\ TurnsInv /\ AloneInv /\ ToldInv
  BY DEF ClientInv
<1>2. UNCHANGED <<run, outcome, wire, chat, active, said, cut, unread, aside, early>>
  BY DEF NetFires, NetReads, backend, socket, screen, history
<1>3. /\ \A u \in Tasks \ {t} : net'[u] = net[u]
      /\ \/ net[t] = "armed" /\ net'[t] = IF active = t THEN "asked" ELSE "off"
         \/ net[t] = "asked" /\ net'[t] = IF run[t] # "ended" THEN "off"
                                          ELSE IF outcome[t] \in {"answered", "silent"} THEN "answer" ELSE "notice"
  BY <1>1 DEF NetFires, NetReads, TypeOK
<1>4. \A u \in Tasks : \A w : OnWire(u, w)' <=> OnWire(u, w)
  BY <1>2 DEF OnWire
<1>5. PostsInv'
  BY <1>1, <1>2, <1>3 DEF PostsInv
<1>6. WireInv' /\ TurnsInv'
  BY <1>1, <1>2 DEF WireInv, TurnsInv, OnWire, Closed
<1>7. InHand' \subseteq InHand
  BY <1>2, <1>3 DEF InHand
<1>8. AloneInv'
  BY <1>1, <1>2, <1>7 DEF AloneInv
<1>9. ToldInv'
  BY <1>1, <1>2, <1>3, <1>4 DEF ToldInv
<1> QED BY <1>5, <1>6, <1>8, <1>9 DEF RestInv

\* What the safety net has read becomes the turn of its task, unless it has one.
LEMMA NetReturnsKeeps ==
    ASSUME ClientInv, TypeOK', NEW t \in Tasks, NetReturns(t)
    PROVE  RestInv'
<1>1. TypeOK /\ PostsInv /\ WireInv /\ TurnsInv /\ AloneInv /\ ToldInv
  BY DEF ClientInv
<1>2. UNCHANGED <<run, outcome, wire, chat, cut, unread, aside, early>>
  BY DEF NetReturns, backend, socket, history
<1>3. /\ net[t] \in {"answer", "notice"} /\ net'[t] = "off" /\ active' = NoTask
      /\ \A u \in Tasks \ {t} : net'[u] = net[u] /\ said'[u] = said[u]
      /\ said'[t] = IF said[t] = <<>> THEN Append(said[t], net[t]) ELSE said[t]
  BY <1>1 DEF NetReturns, TypeOK
<1>4. said[t] \in Seq({"remark", "answer", "notice"}) /\ NoTask \notin Tasks
  BY <1>1, ClientAssumption DEF TypeOK, NoTask
<1>5. said'[t] # <<>> /\ (said[t] = <<>> => DOMAIN said'[t] = {1})
  BY <1>3, <1>4
<1>6. \A u \in Tasks : \A w : OnWire(u, w)' <=> OnWire(u, w)
  BY <1>2 DEF OnWire
<1>7. PostsInv'
  BY <1>1, <1>2, <1>3, <1>4 DEF PostsInv
<1>8. WireInv'
  BY <1>1, <1>2 DEF WireInv, OnWire
<1>9. TurnsInv'
  <2>1. ASSUME NEW u \in Tasks, NEW i \in DOMAIN said'[u], NEW j \in DOMAIN said'[u],
               said'[u][i] # "remark", said'[u][j] # "remark"
        PROVE  i = j
    <3>1. CASE u = t /\ said[t] = <<>>
      BY <1>5, <2>1, <3>1
    <3>2. CASE said'[u] = said[u]
      BY <1>1, <2>1, <3>2 DEF TurnsInv
    <3> QED BY <1>3, <3>1, <3>2
  <2>2. \A u \in Tasks : active' # u
    BY <1>3, <1>4
  <2> QED BY <2>1, <2>2 DEF TurnsInv
<1>10. InHand' \subseteq InHand /\ t \in InHand
  BY <1>2, <1>3, <1>4 DEF InHand
<1>11. AloneInv'
  BY <1>1, <1>2, <1>10 DEF AloneInv
<1>12. ToldInv'
  <2>1. ASSUME NEW u \in Tasks \ aside, u # t
        PROVE  /\ net'[u] = net[u] /\ active # u /\ active' # u /\ said'[u] = said[u]
    <3>1. u \notin InHand
      BY <1>1, <1>10, <2>1 DEF AloneInv
    <3> QED BY <1>3, <1>4, <2>1, <3>1 DEF InHand
  <2> QED BY <1>1, <1>2, <1>5, <1>6, <2>1 DEF ToldInv
<1> QED BY <1>7, <1>8, <1>9, <1>11, <1>12 DEF RestInv

\* A read of the safety net that fails is noted as an answer that was not read.
LEMMA NetFailsKeeps ==
    ASSUME ClientInv, TypeOK', NEW t \in Tasks, NetFails(t)
    PROVE  RestInv'
<1>1. TypeOK /\ PostsInv /\ WireInv /\ TurnsInv /\ AloneInv /\ ToldInv
  BY DEF ClientInv
<1>2. UNCHANGED <<run, outcome, wire, chat, active, said, cut, aside, early>> /\ unread' = unread \cup {t}
  BY DEF NetFails, backend, socket, screen
<1>3. net'[t] = "off" /\ net[t] # "off" /\ \A u \in Tasks \ {t} : net'[u] = net[u]
  BY <1>1 DEF NetFails, TypeOK
<1>4. PostsInv'
  BY <1>1, <1>2, <1>3 DEF PostsInv
<1>5. WireInv' /\ TurnsInv'
  BY <1>1, <1>2 DEF WireInv, TurnsInv, OnWire, Closed
<1>6. InHand' \subseteq InHand
  BY <1>2, <1>3 DEF InHand
<1>7. AloneInv'
  BY <1>1, <1>2, <1>6 DEF AloneInv
<1>8. ToldInv'
  BY <1>1, <1>2, <1>3 DEF ToldInv, OnWire
<1> QED BY <1>4, <1>5, <1>7, <1>8 DEF RestInv

\* The socket closes: what was on the wire is cut off.
LEMMA CloseKeeps ==
    ASSUME ClientInv, TypeOK', Close
    PROVE  RestInv'
<1>1. TypeOK /\ PostsInv /\ WireInv /\ TurnsInv /\ AloneInv /\ ToldInv
  BY DEF ClientInv
<1>2. UNCHANGED <<run, outcome, chat, net, active, said, unread, aside, early>>
      /\ wire' = <<>> /\ cut' = cut \cup {wire[i].task : i \in DOMAIN wire}
  BY DEF Close, backend, screen
<1>3. \A u \in Tasks : \A w : ~OnWire(u, w)' /\ (OnWire(u, w) => u \in cut')
  BY <1>2 DEF OnWire
<1>4. PostsInv' /\ AloneInv'
  BY <1>1, <1>2 DEF PostsInv, AloneInv, InHand
<1>5. WireInv'
  BY <1>1, <1>2, <1>3 DEF WireInv
<1>6. TurnsInv'
  BY <1>1, <1>2, <1>3 DEF TurnsInv, Closed
<1>7. ToldInv'
  BY <1>1, <1>2, <1>3 DEF ToldInv
<1> QED BY <1>4, <1>5, <1>6, <1>7 DEF RestInv

\* An event is received: a turn or the end of the active task, or nothing to it.
LEMMA ReceiveKeeps ==
    ASSUME ClientInv, TypeOK', Receive
    PROVE  RestInv'
<1>h. PICK h : h = wire[1]
  OBVIOUS
<1>t. PICK t : t = h.task
  OBVIOUS
<1> DEFINE n == Len(wire)
<1>1. TypeOK /\ PostsInv /\ WireInv /\ TurnsInv /\ AloneInv /\ ToldInv
  BY DEF ClientInv
<1>2. UNCHANGED <<run, outcome, chat, net, cut, unread, aside>>
  BY DEF Receive, backend
<1>3. /\ h \in Events /\ Head(wire) = h /\ n \in Nat /\ DOMAIN wire = 1..n /\ 1 \in 1..n
      /\ DOMAIN wire' = 1..(n - 1) /\ \A i \in 1..(n - 1) : wire'[i] = wire[i + 1]
      /\ h = wire[1] /\ t = h.task
  <2>1. wire # <<>> /\ wire' = Tail(wire) /\ wire \in Seq(Events)
    BY <1>1 DEF Receive, TypeOK, Events
  <2> QED BY <1>h, <1>t, <1>1, <2>1, Popped
<1>4. t \in Tasks /\ h.what \in {"remark", "answer", "asked", "ended"} /\ NoTask \notin Tasks
  BY <1>3, ClientAssumption DEF Events, NoTask
<1>5. /\ \/ h.what = "asked" /\ UNCHANGED screen
         \/ t = active /\ h.what = "ended" /\ active' = NoTask /\ UNCHANGED said
         \/ /\ t = active /\ h.what \in {"remark", "answer"} /\ UNCHANGED active
            /\ said' = [said EXCEPT ![t] = Append(said[t], h.what)]
         \/ h.what # "asked" /\ t # active /\ UNCHANGED screen
      /\ early' = IF chat[t] # "replied" THEN early
                  ELSE IF h.what = "answer" THEN early \cup {t} ELSE early \ {t}
  BY <1>3 DEF Receive, Says, Ends
<1> HIDE DEF n
<1>6. active' \in {active, NoTask}
  BY <1>5 DEF screen
<1>7. \A u \in Tasks \ {t} : said'[u] = said[u]
  BY <1>1, <1>4, <1>5 DEF screen, TypeOK
<1>8. \/ said'[t] = said[t]
      \/ t = active /\ active' = active /\ h.what \in {"remark", "answer"} /\ said'[t] = Append(said[t], h.what)
  BY <1>1, <1>4, <1>5 DEF screen, TypeOK
<1>9. \A u \in Tasks : \A w : OnWire(u, w)' => OnWire(u, w)
  BY <1>3 DEF OnWire
<1>10. \A u \in Tasks : \A w : OnWire(u, w) => OnWire(u, w)' \/ (t = u /\ h.what = w)
  <2> SUFFICES ASSUME NEW u \in Tasks, NEW w, NEW i \in 1..n, wire[i].task = u, wire[i].what = w, i # 1
               PROVE  OnWire(u, w)'
    BY <1>3 DEF OnWire
  <2>1. i - 1 \in 1..(n - 1) /\ wire'[i - 1] = wire[i]
    BY <1>3
  <2> QED BY <1>3, <2>1 DEF OnWire
<1>11. OnWire(t, h.what)
  BY <1>3 DEF OnWire
<1>12. h.what \in {"answer", "ended"} => \A i \in DOMAIN wire' : wire'[i].task = t => wire'[i].what = "ended"
  <2> SUFFICES ASSUME h.what \in {"answer", "ended"}, NEW i \in 1..(n - 1), wire'[i].task = t
               PROVE  wire'[i].what = "ended"
    BY <1>3
  <2>1. i + 1 \in 1..n /\ 1 < i + 1 /\ wire'[i] = wire[i + 1]
    BY <1>3
  <2> QED BY <1>1, <1>3, <2>1 DEF WireInv
<1>13. PostsInv'
  <2>1. \A u \in Tasks : chat[u] # "known" => said'[u] = said[u] /\ active' # u
    BY <1>1, <1>4, <1>6, <1>7, <1>8 DEF PostsInv
  <2> QED BY <1>1, <1>2, <2>1 DEF PostsInv
<1>14. WireInv'
  <2>1. \A i, j \in DOMAIN wire' :
          i < j /\ wire'[i].task = wire'[j].task /\ wire'[i].what \in {"answer", "ended"} => wire'[j].what = "ended"
    <3> SUFFICES ASSUME NEW i \in 1..(n - 1), NEW j \in 1..(n - 1), i < j,
                        wire'[i].task = wire'[j].task, wire'[i].what \in {"answer", "ended"}
                 PROVE  wire'[j].what = "ended"
      BY <1>3
    <3>1. i + 1 \in 1..n /\ j + 1 \in 1..n /\ i + 1 < j + 1 /\ wire'[i] = wire[i + 1] /\ wire'[j] = wire[j + 1]
      BY <1>3
    <3>2. \A a, b \in 1..n : a < b /\ wire[a].task = wire[b].task /\ wire[a].what \in {"answer", "ended"}
                               => wire[b].what = "ended"
      BY <1>1, <1>3 DEF WireInv
    <3> QED BY <3>1, <3>2
  <2>2. ASSUME NEW u \in Tasks, outcome'[u] = "answered"
        PROVE  \A i, j \in DOMAIN wire' : wire'[i].task = u /\ wire'[i].what = "ended" /\ wire'[j].task = u => j <= i
    <3> SUFFICES ASSUME NEW i \in 1..(n - 1), NEW j \in 1..(n - 1),
                        wire'[i].task = u, wire'[i].what = "ended", wire'[j].task = u
                 PROVE  j <= i
      BY <1>3
    <3>1. i + 1 \in 1..n /\ j + 1 \in 1..n /\ wire'[i] = wire[i + 1] /\ wire'[j] = wire[j + 1]
      BY <1>3
    <3>2. \A a, b \in 1..n : wire[a].task = u /\ wire[a].what = "ended" /\ wire[b].task = u => b <= a
      BY <1>1, <1>2, <1>3, <2>2 DEF WireInv
    <3>3. j + 1 <= i + 1
      BY <3>1, <3>2
    <3> QED BY <3>3
  <2>3. ASSUME NEW u \in Tasks, u \in early'
        PROVE  run[u] \in {"answered", "ended"} /\ \A i \in DOMAIN wire' : wire'[i].task = u => wire'[i].what = "ended"
    <3>1. CASE u \in early
      <4>1. run[u] \in {"answered", "ended"} /\ \A i \in 1..n : wire[i].task = u => wire[i].what = "ended"
        BY <1>1, <1>3, <3>1 DEF WireInv
      <4>2. \A i \in 1..(n - 1) : i + 1 \in 1..n /\ wire'[i] = wire[i + 1]
        BY <1>3
      <4> QED BY <1>3, <4>1, <4>2
    <3>2. CASE u \notin early
      <4>1. u = t /\ h.what = "answer"
        BY <1>5, <2>3, <3>2
      <4> QED BY <1>1, <1>4, <1>11, <1>12, <4>1 DEF WireInv
    <3> QED BY <3>1, <3>2
  <2>4. ASSUME NEW u \in Tasks
        PROVE  /\ OnWire(u, "answer")' => run'[u] \in {"answered", "ended"}
               /\ OnWire(u, "ended")' => run'[u] \in {"failing", "ended"}
    BY <1>1, <1>2, <1>9 DEF WireInv
  <2> QED BY <1>2, <2>1, <2>2, <2>3, <2>4 DEF WireInv
<1>15. TurnsInv'
  <2>1. ASSUME NEW u \in Tasks, said'[u] = said[u]
        PROVE  /\ \A i, j \in DOMAIN said'[u] : said'[u][i] # "remark" /\ said'[u][j] # "remark" => i = j
               /\ active' = u /\ Closed(u)' => run'[u] \in {"answered", "ended"} /\ ~OnWire(u, "answer")'
    <3>1. \A i, j \in DOMAIN said'[u] : said'[u][i] # "remark" /\ said'[u][j] # "remark" => i = j
      BY <1>1, <2>1 DEF TurnsInv
    <3>2. active' = u => active = u
      BY <1>4, <1>6
    <3>3. Closed(u)' => Closed(u)
      BY <2>1 DEF Closed
    <3> QED BY <1>1, <1>2, <1>9, <3>1, <3>2, <3>3 DEF TurnsInv
  <2>2. CASE said'[t] # said[t]
    <3> DEFINE m == Len(said[t])
    <3>1. t = active /\ active' = active /\ h.what \in {"remark", "answer"} /\ said'[t] = Append(said[t], h.what)
      BY <1>8, <2>2
    <3>2. said[t] \in Seq({"remark", "answer", "notice"})
      BY <1>1, <1>4 DEF TypeOK
    <3>3. /\ m \in Nat /\ DOMAIN said[t] = 1..m /\ DOMAIN said'[t] = 1..(m + 1) /\ said'[t][m + 1] = h.what
          /\ \A i \in 1..m : said'[t][i] = said[t][i]
      BY <3>1, <3>2
    <3> HIDE DEF m
    <3>4. CASE h.what = "remark"
      <4>1. \A i \in 1..(m + 1) : said'[t][i] # "remark" => i \in 1..m /\ said[t][i] # "remark"
        BY <3>3, <3>4
      <4>2. Closed(t)' => Closed(t)
        BY <3>3, <4>1 DEF Closed
      <4> QED BY <1>1, <1>2, <1>4, <1>7, <1>9, <2>1, <3>1, <3>3, <4>1, <4>2 DEF TurnsInv
    <3>5. CASE h.what = "answer"
      <4>1. ~Closed(t) /\ run[t] \in {"answered", "ended"}
        BY <1>1, <1>4, <1>11, <3>1, <3>5 DEF TurnsInv, WireInv
      <4>2. \A i \in 1..(m + 1) : said'[t][i] # "remark" => i = m + 1
        BY <3>3, <4>1 DEF Closed
      <4>3. ~OnWire(t, "answer")'
        BY <1>12, <3>5 DEF OnWire
      <4> QED BY <1>2, <1>4, <1>7, <2>1, <3>3, <4>1, <4>2, <4>3 DEF TurnsInv
    <3> QED BY <3>1, <3>4, <3>5
  <2> QED BY <1>7, <2>1, <2>2 DEF TurnsInv
<1>16. InHand' \subseteq InHand
  BY <1>2, <1>4, <1>6 DEF InHand
<1>17. AloneInv'
  BY <1>1, <1>2, <1>16 DEF AloneInv
<1>18. \A u \in Tasks : said[u] # <<>> => said'[u] # <<>>
  <2>1. said[t] # <<>> => Append(said[t], h.what) # <<>>
    <3>1. said[t] \in Seq({"remark", "answer", "notice"})
      BY <1>1, <1>4 DEF TypeOK
    <3> QED BY <3>1
  <2> QED BY <1>7, <1>8, <2>1
<1>19. ASSUME NEW u \in Tasks \ aside, chat[u] = "known", active' # u
       PROVE  said'[u] # <<>> \/ (run[u] \in {"failing", "ended"} /\ ~OnWire(u, "answer")')
  <2>1. CASE active # u
    BY <1>1, <1>9, <1>18, <1>19, <2>1 DEF ToldInv
  <2>2. CASE active = u
    <3>1. t = u /\ h.what = "ended"
      BY <1>4, <1>5, <1>19, <2>2 DEF screen
    <3>2. run[u] \in {"failing", "ended"}
      BY <1>1, <1>11, <3>1 DEF WireInv
    <3>3. ~OnWire(u, "answer")'
      BY <1>12, <3>1 DEF OnWire
    <3> QED BY <3>2, <3>3
  <2> QED BY <2>1, <2>2
<1>20. ASSUME NEW u \in Tasks \ aside, u \notin cut \cup unread \cup early', chat[u] \in {"replied", "known"},
              run[u] = "answered" \/ (run[u] = "ended" /\ outcome[u] = "answered")
       PROVE  \/ OnWire(u, "answer")'
              \/ said'[u] # <<>>
              \/ /\ run[u] = "ended" /\ \A i \in DOMAIN wire' : wire'[i].task # u
                 /\ chat[u] = "replied" \/ (active' = u /\ net[u] \in {"armed", "asked", "answer"})
  <2>1. u \notin early =>
              \/ OnWire(u, "answer")
              \/ said[u] # <<>>
              \/ /\ run[u] = "ended" /\ \A i \in 1..n : wire[i].task # u
                 /\ chat[u] = "replied" \/ (active = u /\ net[u] \in {"armed", "asked", "answer"})
    BY <1>1, <1>3, <1>20 DEF ToldInv
  <2>2. \A i \in 1..(n - 1) : i + 1 \in 1..n /\ wire'[i] = wire[i + 1]
    BY <1>3
  <2>3. CASE t # u
    <3>1. u \notin early
      BY <1>5, <1>20, <2>3
    <3>2. active = u => active' = u
      BY <1>5, <2>3 DEF screen
    <3> QED BY <1>3, <1>10, <1>18, <2>1, <2>2, <2>3, <3>1, <3>2
  <2>4. CASE t = u /\ chat[u] = "replied"
    <3>1. h.what # "answer"
      BY <1>5, <1>20, <2>4
    <3>2. CASE u \notin early
      <4>1. wire[1].task = u /\ 1 \in 1..n
        BY <1>3, <2>4
      <4> QED BY <1>10, <1>18, <2>1, <2>4, <3>1, <3>2, <4>1
    <3>3. CASE u \in early
      <4>1. h.what = "ended"
        <5>1. \A i \in DOMAIN wire : wire[i].task = u => wire[i].what = "ended"
          BY <1>1, <3>3 DEF WireInv
        <5> QED BY <1>3, <2>4, <5>1
      <4>2. run[u] = "ended" /\ outcome[u] = "answered"
        BY <1>1, <1>11, <1>20, <2>4, <4>1 DEF WireInv
      <4>3. \A i \in 1..n : wire[i].task = u => i <= 1
        <5>1. \A a, b \in 1..n : wire[a].task = u /\ wire[a].what = "ended" /\ wire[b].task = u => b <= a
          BY <1>1, <1>3, <4>2 DEF WireInv
        <5> QED BY <1>3, <2>4, <4>1, <5>1
      <4>4. \A i \in 1..(n - 1) : wire'[i].task # u
        <5> SUFFICES ASSUME NEW i \in 1..(n - 1), wire'[i].task = u PROVE FALSE
          OBVIOUS
        <5>1. i + 1 <= 1
          BY <2>2, <4>3
        <5> QED BY <1>3, <5>1
      <4> QED BY <1>3, <2>4, <4>2, <4>4
    <3> QED BY <3>2, <3>3
  <2>5. CASE t = u /\ chat[u] = "known"
    <3>1. u \notin early
      BY <1>5, <1>20, <2>5
    <3>2. wire[1].task = u /\ 1 \in 1..n
      BY <1>3, <2>5
    <3>3. CASE h.what = "answer"
      <4>1. CASE active = u
        <5>1. said'[u] = Append(said[u], h.what) /\ said[u] \in Seq({"remark", "answer", "notice"})
          BY <1>1, <1>4, <1>5, <2>5, <3>3, <4>1 DEF TypeOK
        <5> QED BY <5>1
      <4>2. CASE active # u
        BY <1>1, <1>11, <1>18, <1>20, <2>5, <3>3, <4>2 DEF ToldInv
      <4> QED BY <4>1, <4>2
    <3>4. CASE h.what # "answer"
      BY <1>10, <1>18, <2>1, <3>1, <3>2, <3>4
    <3> QED BY <3>3, <3>4
  <2> QED BY <1>20, <2>3, <2>4, <2>5
<1>21. ToldInv'
  BY <1>2, <1>19, <1>20 DEF ToldInv
<1> QED BY <1>13, <1>14, <1>15, <1>17, <1>21 DEF RestInv

\* Every step of backend, socket and client keeps the invariant.
LEMMA ClientStep == ClientInv /\ [Next]_vars => ClientInv'
<1> SUFFICES ASSUME ClientInv, [Next]_vars PROVE ClientInv'
  OBVIOUS
<1>1. TypeOK'
  BY TypeStep DEF ClientInv
<1>2. TypeOK
  BY DEF ClientInv
<1>3. RestInv' => ClientInv'
  BY <1>1 DEF ClientInv, RestInv
<1>4. CASE UNCHANGED vars
  BY <1>3, <1>4, NothingMoves DEF vars, core, backend, socket, screen, history
<1>5. ASSUME NEW t \in Tasks, Runs(t) PROVE ClientInv'
  BY <1>1, <1>2, <1>3, <1>5, RunsMove, RunsKeep
<1>6. ASSUME NEW t \in Tasks, Send(t) PROVE ClientInv'
  BY <1>1, <1>3, <1>6, SendKeeps
<1>7. ASSUME NEW t \in Tasks, Posts(t) PROVE ClientInv'
  BY <1>1, <1>3, <1>7, AcceptedKeeps, RepliedKeeps, SendFailsKeeps DEF Posts
<1>8. ASSUME NEW t \in Tasks, Net(t) PROVE ClientInv'
  BY <1>1, <1>3, <1>8, NetAsks, NetReturnsKeeps, NetFailsKeeps DEF Net
<1>9. ASSUME NEW t \in Tasks, Decide(t) PROVE ClientInv'
  <2>1. CASE Run(t, {"asking"}, "running")
    <3>1. outcome = [outcome EXCEPT ![t] = outcome[t]]
      BY <1>2 DEF TypeOK
    <3>2. Moved(t)
      BY <1>9, <2>1, <3>1 DEF Decide, Run, Moved, Moves, socket, screen, history
    <3> QED BY <1>1, <1>3, <3>2, RunsKeep
  <2>2. CASE UNCHANGED run
    BY <1>3, <1>9, <2>2, NothingMoves DEF Decide, core, socket, screen, history
  <2> QED BY <1>9, <2>1, <2>2 DEF Decide
<1>10. ASSUME NEW i \in Slots, Read(i) PROVE ClientInv'
  BY <1>3, <1>10, NothingMoves DEF Read, Served, Shown, Lost, core, backend, socket, screen, history
<1>11. CASE Open
  BY <1>3, <1>11, NothingMoves DEF Open, core, backend, screen, history
<1>12. CASE Close
  BY <1>1, <1>3, <1>12, CloseKeeps
<1>13. CASE Receive
  BY <1>1, <1>3, <1>13, ReceiveKeeps
<1> QED BY <1>4, <1>5, <1>6, <1>7, <1>8, <1>9, <1>10, <1>11, <1>12, <1>13 DEF Next

\* Nothing has been asked, so nothing is owed.
LEMMA ClientStart == Init => ClientInv
<1> SUFFICES ASSUME Init PROVE ClientInv
  OBVIOUS
<1>1. NoTask \notin Tasks /\ wire = <<>> /\ active = NoTask
  BY ClientAssumption DEF Init, NoTask
<1>2. TypeOK
  <2>1. reads \in [Slots -> [st : {"free", "asked", "back"}, got : SUBSET Tasks]]
    BY DEF Init, Asked, Free
  <2>2. said \in [Tasks -> Seq({"remark", "answer", "notice"})]
        /\ wire \in Seq([task : Tasks, what : {"remark", "answer", "asked", "ended"}])
    BY DEF Init
  <2>3. chat \in [Tasks -> {"unsent", "never", "posted", "replied", "known", "failed"}] /\ drops \in 0..MaxDrops
    BY ClientAssumption DEF Init
  <2> QED BY <2>1, <2>2, <2>3 DEF Init, TypeOK
<1>3. PostsInv
  BY <1>1 DEF Init, PostsInv
<1>4. WireInv /\ TurnsInv
  BY <1>1 DEF Init, WireInv, TurnsInv, OnWire, Closed
<1>5. InHand = {}
  BY <1>1 DEF Init, InHand
<1>6. AloneInv /\ ToldInv
  BY <1>1, <1>5 DEF Init, AloneInv, ToldInv
<1> QED BY <1>2, <1>3, <1>4, <1>6 DEF ClientInv

\* In every behaviour of the client, what it has shown and has still to show fit.
THEOREM ClientInvHolds == Spec => []ClientInv
BY ClientStart, ClientStep, PTL DEF Spec

\* A task has one closing turn, and an answer of which nothing was lost is shown.
THEOREM AnswersAreShownOnce == Spec => []AnswerIsShownOnce
<1>1. ClientInv => AnswerIsShownOnce
  <2> SUFFICES ASSUME ClientInv PROVE AnswerIsShownOnce
    OBVIOUS
  <2>1. TypeOK /\ PostsInv /\ WireInv /\ TurnsInv /\ ToldInv
    BY DEF ClientInv
  <2>2. ASSUME NEW t \in Tasks PROVE Cardinality({i \in DOMAIN said[t] : said[t][i] # "remark"}) <= 1
    <3> DEFINE S == {i \in DOMAIN said[t] : said[t][i] # "remark"}
    <3>1. \A i, j \in S : i = j
      BY <2>1 DEF TurnsInv
    <3>2. S = {} \/ \E i : S = {i}
      BY <3>1
    <3>3. Cardinality({}) = 0 /\ \A i : Cardinality({i}) = 1
      BY FS_EmptySet, FS_Singleton
    <3> HIDE DEF S
    <3>4. Cardinality(S) <= 1
      <4>1. CASE S = {}
        BY <3>3, <4>1
      <4>2. ASSUME NEW i, S = {i} PROVE Cardinality(S) <= 1
        <5>1. Cardinality({i}) = 1
          BY FS_Singleton
        <5>2. Cardinality(S) = 1
          BY <4>2, <5>1, Zenon
        <5> QED BY <5>2
      <4> QED BY <3>2, <4>1, <4>2
    <3> QED BY <3>4 DEF S
  <2>3. ASSUME NEW t \in Tasks, Quiet(t), outcome[t] = "answered", t \notin cut \cup unread \cup aside \cup early
        PROVE  said[t] # <<>>
    BY <2>1, <2>3 DEF Quiet, ToldInv, OnWire
  <2> QED BY <2>1, <2>2, <2>3 DEF AnswerIsShownOnce
<1> QED BY <1>1, ClientInvHolds, PTL
=============================================================================

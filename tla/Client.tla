------------------------------- MODULE Client -------------------------------
(***************************************************************************)
(* The web client (useNexus): requests posted to the backend, the socket   *)
(* that tells how they go, the safety net that reads a task two seconds    *)
(* after its request, and the approvals on the screen, which are read      *)
(* again after every event that may change them.                           *)
(*                                                                         *)
(* Posts, reads and the socket are under way at the same time and come     *)
(* back in any order; the socket alone is in order, and drops what is      *)
(* under way when it closes.  The backend is reduced to the events of a    *)
(* task that the client acts on and to the record that a read returns.     *)
(***************************************************************************)
EXTENDS Naturals, Sequences, FiniteSets

CONSTANTS
    Tasks,      (* requests, numbered in the order in which they are sent   *)
    MaxReads,   (* bound: reads of the approvals under way                  *)
    MaxDrops    (* bound: times the socket closes                           *)

ASSUME ClientAssumption ==
    /\ Tasks \subseteq Nat \ {0}
    /\ MaxReads \in Nat \ {0} /\ MaxDrops \in Nat

VARIABLES
    run,        \* the backend's side of a task
    outcome,    \* how it ended
    spoke,      \* bound: tasks that make no remark on the way (any more)
    asked,      \* bound: tasks that ask for no approval (any more)
    link,       \* the socket: new, up or down
    drops,      \* bound: how often it closed
    wire,       \* events on it
    chat,       \* POST /api/chat: unsent (or never), posted, replied, known, failed
    net,        \* the safety net: off, armed, asked, or what it is to show
    reads,      \* GET /api/permissions/pending, and what each brings back
    busy,       \* the working indicator
    active,     \* activeTask.current, 0 for null
    said,       \* the turns of NEXUS in the transcript, per task
    prompts,    \* the approvals on the screen, by their task
    cut,        \* history: tasks of which the socket lost an event
    unread,     \* history: tasks of which the net's read was lost
    aside,      \* history: tasks sent, or under way, beside another
    early,      \* history: tasks whose answer, and no more, came before their
                \* POST returned
    blind       \* history: approvals asked for before the socket was first
                \* open, or while a read of them was lost, or taken off the
                \* screen by a read that was overtaken

backend == <<run, outcome, spoke, asked>>
socket  == <<link, drops, wire>>
screen  == <<busy, active, said>>
history == <<cut, unread, aside, early, blind>>
vars == <<backend, socket, chat, net, reads, screen, prompts, history>>

NoTask == 0
Slots  == 1..MaxReads
Free   == [st |-> "free", got |-> {}]
Asked  == [st |-> "asked", got |-> {}]

Pending == {t \in Tasks : run[t] = "asking"}

\* On load the approvals are read once, socket or not.  Any of the requests may
\* be made, make a remark on its way and need an approval.
Init ==
    /\ run = [t \in Tasks |-> "none"] /\ outcome = [t \in Tasks |-> "none"]
    /\ spoke \in SUBSET Tasks /\ asked \in SUBSET Tasks
    /\ link = "new" /\ drops = 0 /\ wire = <<>>
    /\ chat \in [Tasks -> {"unsent", "never"}] /\ net = [t \in Tasks |-> "off"]
    /\ reads = [i \in Slots |-> IF i = 1 /\ asked # Tasks THEN Asked ELSE Free]
    /\ busy = FALSE /\ active = NoTask /\ said = [t \in Tasks |-> <<>>]
    /\ prompts = {} /\ cut = {} /\ unread = {} /\ aside = {} /\ early = {} /\ blind = {}

-----------------------------------------------------------------------------
(* The backend: what a run tells, and what its record says.                *)

Event(t, what) == [task |-> t, what |-> what]

Publish(t, what) ==
    IF link = "up" THEN wire' = Append(wire, Event(t, what)) /\ UNCHANGED cut
                   ELSE cut' = cut \cup {t} /\ UNCHANGED wire

Run(t, from, to) == run[t] \in from /\ run' = [run EXCEPT ![t] = to]
Elsewhere == UNCHANGED <<link, drops, chat, net, reads, screen, prompts, unread, aside, early>>

\* Text that comes with tool calls is an agent_message like the answer.
Speak(t) ==
    /\ run[t] = "running" /\ t \notin spoke
    /\ spoke' = spoke \cup {t} /\ Publish(t, "remark")
    /\ UNCHANGED <<run, outcome, asked, blind>> /\ Elsewhere

Ask(t) ==
    /\ Run(t, {"running"}, "asking") /\ t \notin asked
    /\ asked' = asked \cup {t} /\ Publish(t, "asked")
    /\ blind' = IF link = "new" THEN blind \cup {t} ELSE blind
    /\ UNCHANGED <<outcome, spoke>> /\ Elsewhere

\* Approved, denied or expired.
Settle(t) ==
    /\ Run(t, {"asking"}, "running")
    /\ UNCHANGED <<outcome, spoke, asked, wire, cut, blind>> /\ Elsewhere

\* The last turn of the model.
Answer(t) ==
    /\ Run(t, {"running"}, "answered") /\ Publish(t, "answer")
    /\ UNCHANGED <<outcome, spoke, asked, blind>> /\ Elsewhere

End(t, how) == outcome' = [outcome EXCEPT ![t] = how] /\ Publish(t, "ended")

\* A mission's wrap-up is in its record only, and what stands for an empty one.
Complete(t) ==
    /\ Run(t, {"answered", "running"}, "ended")
    /\ End(t, IF run[t] = "answered" THEN "answered" ELSE "silent")
    /\ UNCHANGED <<spoke, asked, blind>> /\ Elsewhere

Cancelled(t) ==
    /\ Run(t, {"running", "asking", "answered", "failing"}, "ended")
    /\ End(t, "stopped")
    /\ UNCHANGED <<spoke, asked, blind>> /\ Elsewhere

\* The graph says task_error before the record is finished.
Fail(t) ==
    /\ Run(t, {"running"}, "failing") /\ Publish(t, "ended")
    /\ UNCHANGED <<outcome, spoke, asked, blind>> /\ Elsewhere

Failed(t) ==
    /\ Run(t, {"failing"}, "ended") /\ outcome' = [outcome EXCEPT ![t] = "stopped"]
    /\ UNCHANGED <<spoke, asked, wire, cut, blind>> /\ Elsewhere

-----------------------------------------------------------------------------
(* Sending.                                                                *)

\* Requests the client has not settled: posted, active, or being read.
InHand == {t \in Tasks : chat[t] \in {"posted", "replied"} \/ active = t \/ net[t] \notin {"off", "armed"}}

\* Typed when it is not busy, or a suggestion taken up at any time.
Send(t) ==
    /\ chat[t] = "unsent" /\ \A u \in Tasks : u < t => chat[u] # "unsent"
    /\ chat' = [chat EXCEPT ![t] = "posted"]
    /\ busy' = TRUE
    /\ aside' = IF InHand = {} THEN aside ELSE aside \cup InHand \cup {t}
    /\ UNCHANGED <<backend, socket, net, reads, active, said, prompts, cut, unread, early, blind>>

Accepted(t) ==
    /\ chat[t] = "posted" /\ chat' = [chat EXCEPT ![t] = "replied"]
    /\ run' = [run EXCEPT ![t] = "running"]
    /\ UNCHANGED <<outcome, spoke, asked, socket, net, reads, screen, prompts, history>>

\* The post, or its response, is lost.
SendFails(t) ==
    /\ chat[t] \in {"posted", "replied"} /\ chat' = [chat EXCEPT ![t] = "failed"]
    /\ busy' = FALSE
    /\ UNCHANGED <<backend, socket, net, reads, active, said, prompts, history>>

Replied(t) ==
    /\ chat[t] = "replied" /\ chat' = [chat EXCEPT ![t] = "known"]
    /\ active' = t /\ net' = [net EXCEPT ![t] = "armed"]
    /\ UNCHANGED <<backend, socket, reads, busy, said, prompts, history>>

-----------------------------------------------------------------------------
(* The safety net.  Its two seconds outlast the moment in which the record  *)
(* of a failing run is finished; nothing else is assumed of them.           *)

NetDozes(t) ==                        \* variant: it never reads
    /\ net[t] = "armed" /\ net' = [net EXCEPT ![t] = "off"]
    /\ UNCHANGED <<backend, socket, chat, reads, screen, prompts, history>>
NetFires(t) ==
    /\ net[t] = "armed" /\ run[t] # "failing"
    /\ net' = [net EXCEPT ![t] = IF active = t THEN "asked" ELSE "off"]
    /\ UNCHANGED <<backend, socket, chat, reads, screen, prompts, history>>

\* The record is read; of a task that has not ended there is nothing to do.
NetReads(t) ==
    /\ net[t] = "asked"
    /\ net' = [net EXCEPT ![t] =
          IF run[t] # "ended" THEN "off" ELSE IF outcome[t] \in {"answered", "silent"} THEN "answer" ELSE "notice"]
    /\ UNCHANGED <<backend, socket, chat, reads, screen, prompts, history>>

\* Its response is a turn of its own unless the task has one already.
NetReturns(t) ==
    /\ net[t] \in {"answer", "notice"} /\ net' = [net EXCEPT ![t] = "off"]
    /\ said' = [said EXCEPT ![t] = IF @ = <<>> THEN Append(@, net[t]) ELSE @]
    /\ busy' = FALSE /\ active' = NoTask
    /\ UNCHANGED <<backend, socket, chat, reads, prompts, history>>

NetFails(t) ==
    /\ net[t] \in {"asked", "answer", "notice"} /\ net' = [net EXCEPT ![t] = "off"]
    /\ unread' = unread \cup {t}
    /\ UNCHANGED <<backend, socket, chat, reads, screen, prompts, cut, aside, early, blind>>

-----------------------------------------------------------------------------
(* The approvals.                                                          *)

\* Bound: reads when there is and will be nothing to read are left out.
NothingToRead == asked = Tasks /\ Pending = {} /\ prompts = {} /\ \A i \in Slots : reads[i].got = {}

\* refreshPending, and the part of loadAuthoritative that matters here.
Refresh ==
    \/ NothingToRead /\ UNCHANGED reads
    \/ ~NothingToRead /\ \E i \in Slots : /\ reads[i] = Free /\ \A j \in 1..(i - 1) : reads[j] # Free
                                         /\ reads' = [reads EXCEPT ![i] = Asked]

Served(i) ==
    /\ reads[i] = Asked /\ reads' = [reads EXCEPT ![i] = [st |-> "back", got |-> Pending]]
    /\ UNCHANGED <<backend, socket, chat, net, screen, prompts, history>>

Shown(i) ==
    /\ reads[i].st = "back" /\ reads' = [reads EXCEPT ![i] = Free]
    /\ prompts' = reads[i].got
    /\ blind' = blind \cup ((prompts \cap Pending) \ reads[i].got)
    /\ UNCHANGED <<backend, socket, chat, net, screen, cut, unread, aside, early>>

Lost(i) ==
    /\ reads[i] # Free /\ reads' = [reads EXCEPT ![i] = Free]
    /\ blind' = blind \cup Pending
    /\ UNCHANGED <<backend, socket, chat, net, screen, prompts, cut, unread, aside, early>>

\* The user answers: off the screen at once, then settled if it still pends. If
\* it does not, or the post fails, the approvals are read again.
Decide(t) ==
    /\ t \in prompts /\ prompts' = prompts \ {t}
    /\ \/ Run(t, {"asking"}, "running") /\ UNCHANGED reads
       \/ Refresh /\ UNCHANGED run
    /\ UNCHANGED <<outcome, spoke, asked, socket, chat, net, screen, history>>

-----------------------------------------------------------------------------
(* The socket.                                                             *)

\* It opens, for the first time or again: only then are the lists read anew.
OpenQuietly ==                        \* variant: reopening reads nothing
    /\ link # "up" /\ link' = "up"
    /\ UNCHANGED <<backend, drops, wire, chat, net, reads, screen, prompts, history>>
Open ==
    /\ link # "up" /\ link' = "up"
    /\ IF link = "down" THEN Refresh ELSE UNCHANGED reads
    /\ UNCHANGED <<backend, drops, wire, chat, net, screen, prompts, history>>

Close ==
    /\ link = "up" /\ drops < MaxDrops
    /\ link' = "down" /\ drops' = drops + 1 /\ wire' = <<>>
    /\ cut' = cut \cup {wire[i].task : i \in DOMAIN wire}
    /\ UNCHANGED <<backend, chat, net, reads, screen, prompts, unread, aside, early, blind>>

\* An event of the active task: a turn, or its end.
HearEnd ==                            \* variant: the indicator is left as it is
    /\ Head(wire).what = "ended" /\ active' = NoTask
    /\ Refresh /\ UNCHANGED <<busy, said>>
Ends ==
    /\ Head(wire).what = "ended" /\ active' = NoTask /\ busy' = FALSE
    /\ Refresh /\ UNCHANGED said
Says ==
    /\ Head(wire).what \in {"remark", "answer"}
    /\ said' = [said EXCEPT ![active] = Append(@, Head(wire).what)]
    /\ UNCHANGED <<busy, active, reads>>

Receive ==
    /\ wire # <<>> /\ wire' = Tail(wire)
    /\ \/ Head(wire).what = "asked" /\ Refresh /\ UNCHANGED screen
       \/ Head(wire).task = active /\ (Says \/ Ends)
       \/ Head(wire).what # "asked" /\ Head(wire).task # active /\ UNCHANGED <<screen, reads>>
    /\ early' = IF chat[Head(wire).task] # "replied" THEN early
                ELSE IF Head(wire).what = "answer" THEN early \cup {Head(wire).task}
                ELSE early \ {Head(wire).task}
    /\ UNCHANGED <<backend, link, drops, chat, net, prompts, cut, unread, aside, blind>>

-----------------------------------------------------------------------------
Works(t) == Answer(t) \/ Complete(t) \/ Fail(t) \/ Failed(t)
Runs(t)  == Works(t) \/ Settle(t) \/ Speak(t) \/ Ask(t) \/ Cancelled(t)

Posts(t) == Accepted(t) \/ Replied(t) \/ SendFails(t)
Net(t)   == NetFires(t) \/ NetReads(t) \/ NetReturns(t) \/ NetFails(t)
Read(i)  == Served(i) \/ Shown(i) \/ Lost(i)

Next ==
    \/ \E t \in Tasks : Runs(t) \/ Send(t) \/ Posts(t) \/ Net(t) \/ Decide(t)
    \/ \E i \in Slots : Read(i)
    \/ Open \/ Close \/ Receive

Spec == Init /\ [][Next]_vars

\* A run that does not wait goes on (AgentRun!RunsEnd), a request or a read comes
\* back or fails, timers fire, the socket is opened again and delivers.  Nobody
\* owes a decision: the approval expires or, on a backend that hangs, does not.
Fairness ==
    /\ WF_vars(Open) /\ WF_vars(Receive)
    /\ \A t \in Tasks : WF_vars(Works(t)) /\ WF_vars(Posts(t)) /\ WF_vars(Net(t))
    /\ \A i \in Slots : WF_vars(Read(i))
FairSpec == Spec /\ Fairness

-----------------------------------------------------------------------------
(* Properties.                                                             *)

\* Every variable has its type.
TypeOK ==
    /\ run \in [Tasks -> {"none", "running", "asking", "answered", "failing", "ended"}]
    /\ outcome \in [Tasks -> {"none", "answered", "silent", "stopped"}]
    /\ spoke \subseteq Tasks /\ asked \subseteq Tasks
    /\ link \in {"new", "up", "down"} /\ drops \in 0..MaxDrops
    /\ wire \in Seq([task : Tasks, what : {"remark", "answer", "asked", "ended"}])
    /\ chat \in [Tasks -> {"unsent", "never", "posted", "replied", "known", "failed"}]
    /\ net \in [Tasks -> {"off", "armed", "asked", "answer", "notice"}]
    /\ reads \in [Slots -> [st : {"free", "asked", "back"}, got : SUBSET Tasks]]
    /\ busy \in BOOLEAN /\ active \in Tasks \cup {NoTask}
    /\ said \in [Tasks -> Seq({"remark", "answer", "notice"})]
    /\ prompts \subseteq Tasks /\ cut \cup unread \cup aside \cup early \cup blind \subseteq Tasks

\* Nothing more is to come of a task.
Quiet(t) == run[t] = "ended" /\ chat[t] = "known" /\ net[t] = "off" /\ \A i \in DOMAIN wire : wire[i].task # t

\* Types hold. A task has one closing turn, told by the socket or by the safety
\* net, never by both (its guard, and the reset of activeTask). And one that gave
\* an answer, and of which nothing was lost, has a turn in the transcript, even
\* if it ended before its POST returned; unless requests overlapped, when the one
\* may put the other out of sight, or the response came between the answer and
\* the end of the task (onmessage, send).
AnswerIsShownOnce ==
    /\ TypeOK
    /\ \A t \in Tasks : Cardinality({i \in DOMAIN said[t] : said[t][i] # "remark"}) <= 1
    /\ \A t \in Tasks : Quiet(t) /\ outcome[t] = "answered" /\ t \notin cut \cup unread \cup aside \cup early
                    => said[t] # <<>>

\* The working indicator goes out if approvals are settled, unless something of
\* a task was lost (onmessage, the safety net).
Settled    == \A t \in Tasks : []<>(run[t] # "asking")
ComesToRest == Settled => (busy ~> ~busy \/ cut \cup unread # {})

\* An approval that pends comes to the screen, also when it was asked for while
\* the socket was down (onopen).
PromptIsShown == \A t \in Tasks : run[t] = "asking" ~> run[t] # "asking" \/ t \in prompts \/ t \in blind

\* "Anything that happened while disconnected was missed, so the authoritative
\* state is re-read" (onopen): with the socket open before the first request,
\* what it loses later does not leave the client working for ever; only a lost
\* read of the safety net may.
OpenFirst == [](link = "new" => ~busy)
ReconnectRecovers == Settled /\ OpenFirst => (busy ~> ~busy \/ unread # {})
=============================================================================

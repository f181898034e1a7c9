-------------------------- MODULE SuggestionPanel --------------------------
(***************************************************************************)
(* The suggestions on a client's screen (useNexus).  The list is read over *)
(* HTTP, by loadAuthoritative, when the page loads, whenever the socket is *)
(* open again, and after a dismissal that failed; in between it follows    *)
(* the events of the store, which wait in the queue of its socket.  A card *)
(* the user answers is taken off at once, before the store has heard of    *)
(* it.  Other clients answer and read as well.                             *)
(***************************************************************************)
EXTENDS Suggestions

CONSTANTS
    QueueSize,           (* SUBSCRIBER_QUEUE_SIZE                    *)
    MaxReads,            (* bound: reads of the lists under way      *)
    MaxPosts,            (* bound: answers of the user's under way   *)
    MaxDrops             (* bound: times the socket closes           *)

ASSUME PanelAssumption ==
    QueueSize \in Nat /\ MaxReads \in Nat \ {0} /\ MaxPosts \in Nat /\ MaxDrops \in Nat

VARIABLES
    link, drops,  \* the socket: new (never open), up or down; times it closed
    wire,         \* events queued for it, or on their way
    deaf,         \* its queue was full once: TaskStore dropped the subscriber, the socket stays open
    shown,        \* suggestions: ids on the screen
    reads,        \* per slot: free, asked or back; the ids served; those published since it was served
    posts,        \* the user's answers under way: sent, done, or of an id the store does not know
    excused       \* history: ids the client has no way to be right about

socketVars == <<link, drops, wire, deaf>>
panelVars == <<socketVars, shown, reads, posts, excused>>
allVars == <<suggestionVars, panelVars>>

Slots == 1..MaxReads
Free == [st |-> "free", got |-> {}, after |-> {}]
Asked == [st |-> "asked", got |-> {}, after |-> {}]

\* The page is loaded: its lists are being read, the socket is not open yet.
PanelInit ==
    /\ SuggestionInit
    /\ link = "new" /\ drops = 0 /\ wire = <<>> /\ deaf = FALSE
    /\ shown = {} /\ reads = [i \in Slots |-> IF i = 1 THEN Asked ELSE Free]
    /\ posts = {} /\ excused = {}

\* Steps of the client only.
StoreWaits == UNCHANGED <<clock, worldVars, stops, offerVars>> /\ published' = {}

-----------------------------------------------------------------------------
(* The store moves.                                                        *)

News == {e.id : e \in published'}

\* _broadcast.  The queue is shared with all other events: there may be less room
\* in it than these leave.
Broadcast ==
    IF link = "up" /\ ~deaf
    THEN \E s \in SetToSeqs(published'), k \in 0..QueueSize :
            /\ k <= Len(s) /\ Len(wire) + k <= QueueSize
            /\ wire' = wire \o SubSeq(s, 1, k) /\ deaf' = (k < Len(s))
    ELSE UNCHANGED <<wire, deaf>>

\* What is published before the socket is first open is not told, nor read again.
Publishes ==
    /\ Broadcast
    /\ excused' = IF link = "new" THEN excused \cup News ELSE excused
    /\ UNCHANGED <<link, drops>>

Overtaken(r) == IF r.st = "back" THEN [r EXCEPT !.after = @ \cup News] ELSE r

StoreMoves ==
    /\ SuggestionNext /\ Publishes
    /\ reads' = [i \in Slots |-> Overtaken(reads[i])]
    /\ UNCHANGED <<shown, posts>>

-----------------------------------------------------------------------------
(* The list is read.                                                       *)

\* loadAuthoritative is called.
Load == \E i \in Slots : /\ reads[i] = Free /\ \A j \in 1..(i - 1) : reads[j] # Free
                       /\ reads' = [reads EXCEPT ![i] = Asked]

Served(i) ==
    /\ reads[i].st = "asked" /\ ReadList /\ Publishes
    /\ reads' = [j \in Slots |-> IF j = i THEN [st |-> "back", got |-> Ids(items', Pending(items')), after |-> {}]
                                          ELSE Overtaken(reads[j])]
    /\ UNCHANGED <<shown, posts>>

\* All the reads have answered: the list is replaced, whatever it has come to show.
Shown(i) ==
    /\ reads[i].st = "back"
    /\ shown' = reads[i].got
    /\ reads' = [reads EXCEPT ![i] = Free]
    /\ excused' = reads[i].after \ {wire[j].id : j \in DOMAIN wire}
    /\ StoreWaits /\ UNCHANGED <<socketVars, posts>>

\* One of those that must answer did not: all is left as it is.
Pends(id) == id \in Ids(items, Pending(items))
Wrong == {id \in Ids(items, DOMAIN items) : ~(id \in shown <=> Pends(id))}
Lost(i) ==
    /\ reads[i].st # "free"
    /\ reads' = [reads EXCEPT ![i] = Free]
    /\ excused' = excused \cup Wrong
    /\ StoreWaits /\ UNCHANGED <<socketVars, shown, posts>>

-----------------------------------------------------------------------------
(* The socket.                                                             *)

\* Open again, everything is read anew; the page load has seen to the first time.
OpensQuietly ==                        \* variant: reopening reads nothing
    /\ link # "up" /\ link' = "up" /\ UNCHANGED reads
    /\ StoreWaits /\ UNCHANGED <<drops, wire, deaf, shown, posts, excused>>
Opens ==
    /\ link # "up" /\ link' = "up"
    /\ IF link = "down" THEN Load ELSE UNCHANGED reads
    /\ StoreWaits /\ UNCHANGED <<drops, wire, deaf, shown, posts, excused>>

Closes ==
    /\ link = "up" /\ drops < MaxDrops
    /\ link' = "down" /\ drops' = drops + 1 /\ wire' = <<>> /\ deaf' = FALSE
    /\ StoreWaits /\ UNCHANGED <<shown, reads, posts, excused>>

\* suggestion_created, suggestion_dismissed, suggestion_expired.
Hears ==
    /\ link = "up" /\ wire # <<>>
    /\ wire' = Tail(wire)
    /\ shown' = IF Head(wire).what = "created" THEN shown \cup {Head(wire).id} ELSE shown \ {Head(wire).id}
    /\ StoreWaits /\ UNCHANGED <<link, drops, deaf, reads, posts, excused>>

-----------------------------------------------------------------------------
(* The user answers.                                                       *)

\* The card goes, then the answer is sent.  Bound: one answer per card under way.
Clicks(id, status) ==
    /\ id \in shown /\ Cardinality(posts) < MaxPosts /\ \A p \in posts : p.id # id
    /\ shown' = shown \ {id}
    /\ posts' = posts \cup {[id |-> id, status |-> status, st |-> "sent"]}
    /\ StoreWaits /\ UNCHANGED <<socketVars, reads, excused>>

Reaches(p) ==
    /\ p.st = "sent" /\ Answer(p.id, p.status) /\ Publishes
    /\ posts' = (posts \ {p}) \cup
           {[p EXCEPT !.st = IF p.id \in Ids(items', DOMAIN items') THEN "done" ELSE "unknown"]}
    /\ reads' = [i \in Slots |-> Overtaken(reads[i])]
    /\ UNCHANGED shown

Returns(p) ==
    /\ p.st = "done" /\ posts' = posts \ {p}
    /\ StoreWaits /\ UNCHANGED <<socketVars, shown, reads, excused>>

\* The request or its response is lost, or there is no such suggestion.  After a
\* dismissal all is read anew; after an acceptance nothing is done.
Fails(p) ==
    /\ posts' = posts \ {p}
    /\ \/ p.status = "DISMISSED" /\ Load /\ UNCHANGED excused
       \/ /\ p.status = "ACCEPTED" /\ UNCHANGED reads
          /\ excused' = IF p.st = "sent" THEN excused \cup {p.id} ELSE excused
    /\ StoreWaits /\ UNCHANGED <<socketVars, shown>>

Client ==
    \/ Opens \/ Closes \/ Hears
    \/ \E i \in Slots : Served(i) \/ Shown(i) \/ Lost(i)
    \/ \E id \in shown : \E status \in {"ACCEPTED", "DISMISSED"} : Clicks(id, status)
    \/ \E p \in posts : Reaches(p) \/ Returns(p) \/ Fails(p)

PanelNext == StoreMoves \/ Client
PanelSpec == PanelInit /\ [][PanelNext]_allVars

-----------------------------------------------------------------------------
(* Properties.                                                             *)

\* The socket is open and has a queue, and nothing is under way.
AtRest == link = "up" /\ ~deaf /\ wire = <<>> /\ posts = {} /\ \A i \in Slots : reads[i] = Free

\* When all has arrived the screen shows what the store offers, of all the store
\* still has, whatever the order in which events, reads, answers and their
\* failures came, and whatever was missed while the socket was closed.  Excused is
\* what was published before the socket was first open, or while a read that began
\* earlier was on its way back; what was wrong when a read failed; and the card of
\* an acceptance that never arrived (loadAuthoritative, onmessage,
\* dismissSuggestionById, acceptSuggestionById).
ClientShowsPending ==
    AtRest => \A id \in Ids(items, DOMAIN items) \ excused : id \in shown <=> Pends(id)
=============================================================================

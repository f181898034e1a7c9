---------------------------- MODULE Suggestions -----------------------------
(***************************************************************************)
(* What NEXUS offers: the SuggestionEngine, which turns observations into  *)
(* offers, and the SuggestionStore with the limits that keep it from       *)
(* nagging.  What the client shows of it all is SuggestionPanel.           *)
(*                                                                         *)
(* A server of the user's is started as one process after another, each    *)
(* with an id of its own (ProcessManager.start).  Of a process the engine  *)
(* hears from the detector, when it has ended, and from the verifier, when *)
(* start_process or stop_process did not clearly succeed.                  *)
(***************************************************************************)
EXTENDS Naturals, Sequences, FiniteSets, SequencesExt

CONSTANTS
    Processes, Servers, ServerOf,   (* process ids; servers; the one a process runs       *)
    OtherOffers,                    (* keys of offers about workspaces, memories, tasks   *)
    FlappingThreshold,              (* FLAPPING_THRESHOLD                                 *)
    OfferCooldown,                  (* DISMISSED_COOLDOWN_SECONDS                         *)
    OfferWindow, MaxOffers,         (* the minute and MAX_PER_MINUTE                      *)
    TTL,                            (* DEFAULT_TTL_SECONDS                                *)
    MaxPending, MaxSuggestions,     (* the constants of that name                         *)
    MaxClock                        (* bound: the clock                                   *)

ASSUME OffersAssumption ==
    /\ ServerOf \in [Processes -> Servers]
    /\ {OfferCooldown, OfferWindow, MaxOffers, TTL, MaxPending} \subseteq Nat
    /\ MaxSuggestions \in Nat \ {0} /\ MaxClock \in Nat \ {0} /\ FlappingThreshold \in Nat \ {0}

VARIABLES
    clock,      \* the clock, from 1
    lives,      \* per process: new, running or ended
    heard,      \* per process: who reported on it (each once: the observation store)
    stops,      \* SuggestionEngine._stops
    items,      \* _items, oldest first: id, key, until, status
    dismissed,  \* _dismissed_at, 0 for never
    offered,    \* _recent
    published,  \* what the last step published, of each id once at most
    diary       \* history: what was offered and dismissed, and when

worldVars == <<lives, heard>>
offerVars == <<items, dismissed, offered, diary>>
suggestionVars == <<clock, worldVars, stops, offerVars, published>>

Conditions == ({"stopped", "flapping"} \X Processes) \cup ({"down"} \X Servers) \cup OtherOffers

SuggestionInit ==
    /\ clock = 1 /\ lives = [p \in Processes |-> "new"] /\ heard = [p \in Processes |-> {}]
    /\ stops = [p \in Processes |-> 0]
    /\ items = <<>> /\ dismissed = [k \in Conditions |-> 0]
    /\ offered = <<>> /\ published = {} /\ diary = <<>>

-----------------------------------------------------------------------------
(* The store.                                                              *)

Pending(its) == {i \in DOMAIN its : its[i].status = "PENDING"}
Ids(its, I) == {its[i].id : i \in I}

Due(its) == {i \in Pending(its) : clock >= its[i].until}
Expire(its) == [i \in DOMAIN its |-> IF i \in Due(its) THEN [its[i] EXCEPT !.status = "EXPIRED"] ELSE its[i]]

\* _publish: what is not pending any more is to be taken off a list.
Event(what, id) == [what |-> what, id |-> id]
Expired == {Event("gone", id) : id \in Ids(items, Due(items))}

\* Times only grow: what is recent is at the end.
RecentOffers ==
    LET recently == {i \in DOMAIN offered : clock - offered[i] <= OfferWindow}
    IN  SubSeq(offered, Len(offered) - Cardinality(recently) + 1, Len(offered))
WavedAway(k) == dismissed[k] # 0 /\ clock - dismissed[k] < OfferCooldown

Collapsed(its, k) == \E i \in Pending(its) : its[i].key = k

Refuses(its, k) ==
    \/ Len(RecentOffers) >= MaxOffers \/ WavedAway(k) \/ Collapsed(its, k)
    \/ Cardinality(Pending(its)) >= MaxPending

NewestItems(its) == IF Len(its) <= MaxSuggestions THEN its
               ELSE SubSeq(its, Len(its) - MaxSuggestions + 1, Len(its))

NewId == 1 + Cardinality({i \in DOMAIN diary : diary[i].what = "offer"})

Offer(k) ==
    LET its == Expire(items)
    IN  \/ /\ Refuses(its, k)
           /\ items' = its /\ published' = Expired /\ offered' = RecentOffers
           /\ UNCHANGED <<dismissed, diary>>
        \/ /\ ~Refuses(its, k)
           /\ items' = NewestItems(Append(its,
                          [id |-> NewId, key |-> k, until |-> clock + TTL, status |-> "PENDING"]))
           /\ published' = Expired \cup {Event("created", NewId)} /\ offered' = Append(RecentOffers, clock)
           /\ diary' = Append(diary, [what |-> "offer", key |-> k, at |-> clock])
           /\ UNCHANGED dismissed

-----------------------------------------------------------------------------
(* The engine.                                                             *)

\* An actionable PROCESS observation, whoever made it.
Consider(p, who) ==
    /\ who \notin heard[p]
    /\ heard' = [heard EXCEPT ![p] = @ \cup {who}]
    /\ stops' = [stops EXCEPT ![p] = @ + 1]
    /\ Offer(<<IF stops[p] + 1 >= FlappingThreshold THEN "flapping" ELSE "stopped", p>>)
    /\ UNCHANGED <<clock, lives>>

\* The detector saw it stopped or failed.
DetectorReports(p) == lives[p] = "ended" /\ Consider(p, "detector")

\* start_process: not running any more, or running but with no sign that it
\* answers.  stop_process: refused, since the process has ended already.
VerifierReports(p, tool) ==
    /\ lives[p] # "new" /\ (tool = "stop_process" => lives[p] = "ended")
    /\ Consider(p, tool)

ServiceReported(s) ==
    /\ \E p \in Processes : ServerOf[p] = s /\ lives[p] = "ended"
    /\ \A p \in Processes : ServerOf[p] = s => lives[p] # "running"
    /\ Offer(<<"down", s>>)
    /\ UNCHANGED <<clock, worldVars, stops>>

\* Many changed files, a contradicted memory, a failed task, a stated fact.
OtherReported(k) == Offer(k) /\ UNCHANGED <<clock, worldVars, stops>>

-----------------------------------------------------------------------------
(* The user, through the API.                                              *)

ResolveFromCreation(id, status) ==               \* variant: the cooldown starts with the offer
    /\ \E i \in Pending(items) :
          /\ items[i].id = id
          /\ items' = [items EXCEPT ![i].status = status]
          /\ dismissed' = IF status = "DISMISSED" THEN [dismissed EXCEPT ![items[i].key] = items[i].until - TTL]
                                                  ELSE dismissed
          /\ diary' = IF status # "DISMISSED" THEN diary
                      ELSE Append(diary, [what |-> "dismiss", key |-> items[i].key, at |-> clock])
    /\ published' = {Event("gone", id)}
Resolve(id, status) ==
    /\ \E i \in Pending(items) :
          /\ items[i].id = id
          /\ items' = [items EXCEPT ![i].status = status]
          /\ dismissed' = IF status = "DISMISSED" THEN [dismissed EXCEPT ![items[i].key] = clock] ELSE dismissed
          /\ diary' = IF status # "DISMISSED" THEN diary
                      ELSE Append(diary, [what |-> "dismiss", key |-> items[i].key, at |-> clock])
    /\ published' = {Event("gone", id)}

\* Resolved before, or evicted: looked up instead, which expires what is due.
TooLate(id) ==
    /\ id \notin Ids(items, Pending(items))
    /\ items' = Expire(items) /\ published' = Expired
    /\ UNCHANGED <<dismissed, diary>>

\* A dismissal or an acceptance reaches the store.
Answer(id, status) ==
    /\ Resolve(id, status) \/ TooLate(id)
    /\ UNCHANGED <<clock, worldVars, stops, offered>>

\* The list is read: what is due expires first.
ReadList ==
    /\ items' = Expire(items) /\ published' = Expired
    /\ UNCHANGED <<clock, worldVars, stops, dismissed, offered, diary>>

ClockTicks == clock < MaxClock /\ clock' = clock + 1 /\ published' = {} /\ UNCHANGED <<worldVars, stops, offerVars>>

Starts(p) ==
    /\ lives[p] = "new" /\ \A q \in Processes : ServerOf[q] = ServerOf[p] => lives[q] # "running"
    /\ lives' = [lives EXCEPT ![p] = "running"] /\ published' = {}
    /\ UNCHANGED <<clock, heard, stops, offerVars>>

Ends(p) ==
    /\ lives[p] = "running" /\ lives' = [lives EXCEPT ![p] = "ended"] /\ published' = {}
    /\ UNCHANGED <<clock, heard, stops, offerVars>>

SuggestionNext ==
    \/ ClockTicks \/ ReadList
    \/ \E p \in Processes : Starts(p) \/ Ends(p) \/ DetectorReports(p)
                        \/ \E tool \in {"start_process", "stop_process"} : VerifierReports(p, tool)
    \/ \E s \in Servers : ServiceReported(s)
    \/ \E k \in OtherOffers : OtherReported(k)
    \/ \E id \in 1..(NewId - 1) : \E status \in {"ACCEPTED", "DISMISSED"} : Answer(id, status)

SuggestionSpec == SuggestionInit /\ [][SuggestionNext]_suggestionVars

-----------------------------------------------------------------------------
(* Properties.                                                             *)

Suggestion == [id : Nat, key : Conditions, until : Nat, status : {"PENDING", "ACCEPTED", "DISMISSED", "EXPIRED"}]

\* Every variable has its type; the ring and the pending ones stay in bounds.
SuggestionsOK ==
    /\ clock \in 1..MaxClock /\ lives \in [Processes -> {"new", "running", "ended"}]
    /\ heard \in [Processes -> SUBSET {"detector", "start_process", "stop_process"}] /\ stops \in [Processes -> Nat]
    /\ items \in Seq(Suggestion) /\ Len(items) <= MaxSuggestions /\ Cardinality(Pending(items)) <= MaxPending
    /\ dismissed \in [Conditions -> 0..MaxClock] /\ offered \in Seq(1..MaxClock)
    /\ \A e \in published : e.what \in {"created", "gone"} /\ e.id \in 1..Len(diary)
    /\ diary \in Seq([what : {"offer", "dismiss"}, key : Conditions, at : 1..MaxClock])

\* Types hold, and "one condition is one suggestion": of two offers of one key at most one is
\* pending, whatever expired, was answered or was evicted in between (offer).
OnePendingPerKey ==
    SuggestionsOK /\ \A i, j \in Pending(items) : items[i].key = items[j].key => i = j

\* After the user dismissed a condition it is not offered again for the
\* cooldown, even when the ring has long forgotten the suggestion (dismiss, offer).
DismissedStaysQuiet ==
    \A i, j \in DOMAIN diary :
        i < j /\ diary[i].what = "dismiss" /\ diary[j].what = "offer" /\ diary[j].key = diary[i].key =>
            diary[j].at - diary[i].at >= OfferCooldown

\* Both of these: the user is offered a thing once, and left alone about it
\* afterwards (offer, dismiss).
OffersAreSparing == OnePendingPerKey /\ DismissedStaysQuiet
=============================================================================

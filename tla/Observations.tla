---------------------------- MODULE Observations ----------------------------
(***************************************************************************)
(* What NEXUS notices on its own: the Detector, which every few seconds    *)
(* reads processes, services and workspaces through SAFE tools and         *)
(* compares them with what it read before, and the ObservationStore, which *)
(* lists and announces the changes within a cooldown per condition and a   *)
(* limit per minute.                                                       *)
(*                                                                         *)
(* The reads are awaited, so the user, the rest of the backend and the     *)
(* clock move between them; what one read leads to is recorded with        *)
(* nothing in between (news).  The world moves as it likes: it is in the   *)
(* model as what a read may return, given what the read before returned.   *)
(***************************************************************************)
EXTENDS Naturals, Sequences, FiniteSets, SequencesExt

CONSTANTS
    Services,          (* monitored services                                        *)
    Procs,             (* process ids the process manager gives out                 *)
    Paths, DirOf,      (* workspaces; the one each process was started in           *)
    Branches,          (* of a workspace                                            *)
    Others,            (* dedupe keys of what tasks, missions and memory report     *)
    Cooldown,          (* DEFAULT_COOLDOWN_SECONDS                                  *)
    Window,            (* the minute of the rate limit                              *)
    MaxPerWindow,      (* MAX_EVENTS_PER_MINUTE                                     *)
    MaxObservations,   (* MAX_OBSERVATIONS                                          *)
    MaxPaths,          (* workspaces read per sweep                                 *)
    MaxStatusFiles,    (* MAX_STATUS_FILES of git_status                            *)
    MaxFiles,          (* bound: changed files of a workspace                       *)
    MaxTime            (* bound: the clock                                          *)

ASSUME ObservationAssumption ==
    /\ Cooldown \in Nat /\ Window \in Nat /\ MaxPerWindow \in Nat
    /\ MaxObservations \in Nat \ {0} /\ MaxTime \in Nat \ {0}
    /\ DirOf \in [Procs -> Paths] /\ IsFiniteSet(Procs)

VARIABLES
    now,        \* the store's clock, from 1
    pc, todo,   \* where the sweep stands, and what it has still to read there
    seeded,     \* Detector._seeded
    known,      \* Detector._processes, absent if not in it
    seen,       \* ServiceState.status
    git,        \* Detector._git: the workspace as it was when last read
    news,       \* dedupe keys of the last read, not recorded yet
    ring,       \* _observations: key, time, not dismissed
    lastSeen,   \* _last_seen, 0 for never
    recent,     \* _recent
    told,       \* history: edges announced, or dropped by the rate limit
    before      \* history: processes that had failed when the first sweep asked

sweepVars == <<pc, todo, seeded, before>>
viewVars  == <<known, seen, git>>
storeVars == <<ring, lastSeen, recent, told>>
vars == <<now, sweepVars, viewVars, news, storeVars>>

ProcessKeys == {"process"} \X Procs \X {"RUNNING", "STOPPED", "FAILED"}
ServiceKeys == {"service"} \X Services \X {"UP", "DOWN"}
GitKeys     == {"git"} \X Paths \X (Branches \cup {"clean", "dirty", "count"})
Keys == ProcessKeys \cup ServiceKeys \cup GitKeys \cup Others

\* What the history keeps: outages, recoveries and failures.
Edges == ServiceKeys \cup ({"process"} \X Procs \X {"FAILED"})

\* The dedupe keys of tasks, missions and memory have prefixes of their own.
ASSUME OthersAssumption == Others \cap Edges = {}

Statuses == {"absent", "RUNNING", "STOPPING", "STOPPED", "FAILED"}
Repos == [branch : Branches, changed : 0..MaxFiles]
NotRead == [branch |-> "", changed |-> 0]

Init ==
    /\ now = 1
    /\ pc = "idle" /\ todo = {} /\ seeded = FALSE /\ before = {}
    /\ known = [p \in Procs |-> "absent"] /\ seen = [s \in Services |-> "UNKNOWN"]
    /\ git = [w \in Paths |-> NotRead] /\ news = <<>>
    /\ ring = <<>> /\ lastSeen = [k \in Keys |-> 0] /\ recent = <<>> /\ told = {}

Tick ==
    /\ now < MaxTime /\ now' = now + 1
    /\ UNCHANGED <<sweepVars, viewVars, news, storeVars>>

-----------------------------------------------------------------------------
(* What changed (rules.py).                                                *)

FailedWhileRunning(old, new) ==          \* variant: both endings need a running process before
    \/ new \in {"STOPPED", "FAILED"} /\ old = "RUNNING"
    \/ new = "RUNNING" /\ old = "absent"
ProcessIsNews(old, new) ==
    \/ new = "FAILED" /\ old # "FAILED"
    \/ new = "STOPPED" /\ old = "RUNNING"
    \/ new = "RUNNING" /\ old = "absent"

AnyServiceEdge(s, old, new) ==           \* variant: answering for the first time is news too
    IF new # old THEN <<<<"service", s, new>>>> ELSE <<>>
ServiceNews(s, old, new) ==
    IF new # old /\ ~(old = "UNKNOWN" /\ new = "UP") THEN <<<<"service", s, new>>>> ELSE <<>>

\* git_status lists at most MaxStatusFiles files.  It returns no head, so that
\* the comparison of heads never finds a difference: commits are not news.
Files(r) == IF r.changed < MaxStatusFiles THEN r.changed ELSE MaxStatusFiles

GitNews(w, old, new) ==
    IF old = NotRead \/ (new.branch = old.branch /\ Files(new) = Files(old)) THEN <<>>
    ELSE <<<<"git", w, IF new.branch # old.branch THEN new.branch
                       ELSE IF Files(new) = 0 THEN "clean"
                       ELSE IF Files(old) = 0 THEN "dirty" ELSE "count">>>>

-----------------------------------------------------------------------------
(* One sweep.                                                              *)

StartSweep ==
    /\ pc = "idle"
    /\ pc' = "processes"
    /\ UNCHANGED <<now, todo, seeded, before, viewVars, news, storeVars>>

\* One after the other, those of which there is news.
Listing(listed) ==
    LET changed == SetToSeq({p \in Procs : ProcessIsNews(known[p], listed[p])})
    IN  [i \in DOMAIN changed |-> <<"process", changed[i], listed[changed[i]]>>]

\* The manager never forgets a process and runs none again; how it ended is
\* written by threads that race (ProcessManager), so may be rewritten.
Later(old) ==
    CASE old = "absent"  -> Statuses
      [] old = "RUNNING" -> Statuses \ {"absent"}
      [] OTHER           -> Statuses \ {"absent", "RUNNING"}

\* list_processes answers, or fails and leaves everything as it was.
ReadProcesses ==
    /\ pc = "processes"
    /\ \/ news' = <<>> /\ UNCHANGED <<known, before>>
       \/ /\ known' \in [Procs -> Statuses] /\ \A p \in Procs : known'[p] \in Later(known[p])
          /\ news' = IF seeded THEN Listing(known') ELSE <<>>
          /\ before' = IF seeded THEN before ELSE {p \in Procs : known'[p] = "FAILED"}
    /\ pc' = "services" /\ todo' = Services
    /\ UNCHANGED <<now, seeded, seen, git, storeVars>>

CheckService(s) ==
    /\ pc = "services" /\ s \in todo
    /\ \/ news' = <<>> /\ UNCHANGED seen
       \/ \E status \in {"UP", "DOWN"} :
             news' = ServiceNews(s, seen[s], status) /\ seen' = [seen EXCEPT ![s] = status]
    /\ todo' = todo \ {s}
    /\ UNCHANGED <<now, pc, seeded, before, known, git, storeVars>>

\* The workspaces of the known processes and those read before, some of them.
Watched == {DirOf[p] : p \in {q \in Procs : known[q] # "absent"}} \cup {w \in Paths : git[w] # NotRead}
ChoosePaths ==
    /\ pc = "services" /\ todo = {}
    /\ \E S \in SUBSET Watched :
          /\ Cardinality(S) = IF Cardinality(Watched) < MaxPaths THEN Cardinality(Watched) ELSE MaxPaths
          /\ todo' = S
    /\ pc' = "git"
    /\ UNCHANGED <<now, seeded, before, viewVars, news, storeVars>>

ReadWorkspace(w) ==
    /\ pc = "git" /\ w \in todo
    /\ \/ news' = <<>> /\ UNCHANGED git
       \/ \E repo \in Repos :
             /\ news' = IF seeded THEN GitNews(w, git[w], repo) ELSE <<>>
             /\ git' = [git EXCEPT ![w] = repo]
    /\ todo' = todo \ {w}
    /\ UNCHANGED <<now, pc, seeded, before, known, seen, storeVars>>

EndSweep ==
    /\ pc = "git" /\ todo = {}
    /\ pc' = "idle" /\ seeded' = TRUE
    /\ UNCHANGED <<now, todo, before, viewVars, news, storeVars>>

-----------------------------------------------------------------------------
(* The store.                                                              *)

\* Times only grow: what is old is at the front, and goes.
Fresh ==
    LET young == {i \in DOMAIN recent : now - recent[i] <= Window}
    IN  SubSeq(recent, Len(recent) - Cardinality(young) + 1, Len(recent))
Full == Len(Fresh) >= MaxPerWindow

Listed(k) == \E i \in DOMAIN ring : ring[i].key = k /\ ring[i].open
Quiet(k) == lastSeen[k] # 0 /\ now - lastSeen[k] < Cooldown /\ Listed(k)

Newest(lines) == SubSeq(lines, 1 + Len(lines) - (IF Len(lines) < MaxObservations THEN Len(lines) ELSE MaxObservations), Len(lines))

Drop(k) ==
    /\ Full
    /\ recent' = Fresh /\ told' = told \cup ({k} \cap Edges)
    /\ UNCHANGED <<ring, lastSeen>>

Suppress(k) ==
    /\ ~Full /\ Quiet(k)
    /\ recent' = Fresh
    /\ UNCHANGED <<ring, lastSeen, told>>

EnterFromFirst(k) ==                          \* variant: the cooldown runs from the first time
    /\ ~Full /\ ~Quiet(k)
    /\ lastSeen' = [lastSeen EXCEPT ![k] = IF @ = 0 THEN now ELSE @]
    /\ recent' = Append(Fresh, now)
    /\ ring' = Newest(Append(ring, [key |-> k, at |-> now, open |-> TRUE]))
    /\ told' = told \cup ({k} \cap Edges)
Enter(k) ==
    /\ ~Full /\ ~Quiet(k)
    /\ lastSeen' = [lastSeen EXCEPT ![k] = now]
    /\ recent' = Append(Fresh, now)
    /\ ring' = Newest(Append(ring, [key |-> k, at |-> now, open |-> TRUE]))
    /\ told' = told \cup ({k} \cap Edges)

Record(k) == Drop(k) \/ Suppress(k) \/ Enter(k)

RecordNews ==
    /\ news # <<>>
    /\ Record(Head(news))
    /\ news' = Tail(news)
    /\ UNCHANGED <<now, sweepVars, viewVars>>

\* A task or mission ended, waits for the user, or contradicts a memory.
Observe(k) == Record(k) /\ UNCHANGED <<now, sweepVars, viewVars, news>>

Dismiss(i) ==
    /\ i \in DOMAIN ring /\ ring[i].open
    /\ ring' = [ring EXCEPT ![i].open = FALSE]
    /\ UNCHANGED <<now, sweepVars, viewVars, news, lastSeen, recent, told>>

-----------------------------------------------------------------------------
Sweep ==
    \/ StartSweep \/ ReadProcesses \/ ChoosePaths \/ EndSweep
    \/ \E s \in Services : CheckService(s)
    \/ \E w \in Paths : ReadWorkspace(w)

Elsewhere == (\E k \in Others : Observe(k)) \/ \E i \in DOMAIN ring : Dismiss(i)

Next == RecordNews \/ (news = <<>> /\ (Tick \/ Sweep \/ Elsewhere))
Spec == Init /\ [][Next]_vars

-----------------------------------------------------------------------------
(* Properties.                                                             *)

Lines == [key : Keys, at : 1..MaxTime, open : BOOLEAN]

\* Every variable has its type; the ring and the minute stay within bounds.
TypeOK ==
    /\ now \in 1..MaxTime /\ git \in [Paths -> Repos \cup {NotRead}]
    /\ pc \in {"idle", "processes", "services", "git"} /\ todo \subseteq Services \cup Paths
    /\ seeded \in BOOLEAN /\ known \in [Procs -> Statuses] /\ before \subseteq Procs
    /\ seen \in [Services -> {"UNKNOWN", "UP", "DOWN"}] /\ news \in Seq(Keys)
    /\ ring \in Seq(Lines) /\ Len(ring) <= MaxObservations
    /\ lastSeen \in [Keys -> 0..MaxTime] /\ recent \in Seq(1..MaxTime)
    /\ told \subseteq Edges

\* Types hold, and two lines of one condition that are both still there to be read are a
\* cooldown apart: it is not announced again over its own line (store.record).
QuietWhileListed ==
    TypeOK /\ \A i, j \in DOMAIN ring :
        i < j /\ ring[i].key = ring[j].key /\ ring[i].open /\ ring[j].open =>
            ring[j].at - ring[i].at >= Cooldown

\* A service is said to have recovered only after it was said to be down, or
\* would have been but for the rate limit (service_transition).
RecoveryFollowsOutage ==
    \A s \in Services : <<"service", s, "UP">> \in told => <<"service", s, "DOWN">> \in told

\* Between two steps of a sweep, every failed process the detector knows of was
\* announced as such, unless it had failed when the first sweep looked or the
\* rate limit took the announcement (process_transition, _sweep_processes).
NoFailureIsMissed ==
    news = <<>> /\ seeded => \A p \in Procs : known[p] = "FAILED" =>
        p \in before \/ <<"process", p, "FAILED">> \in told
=============================================================================

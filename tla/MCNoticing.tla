----------------------------- MODULE MCNoticing -----------------------------
(***************************************************************************)
(* Instance, for TLC, of what NEXUS does unasked: the detector and the     *)
(* observations it leads to, the suggestions made of observations, and a   *)
(* client that shows them.  Each part on its own: the second takes every   *)
(* observation there may be, the third every suggestion.                   *)
(***************************************************************************)
EXTENDS Observations, SuggestionPanel

VARIABLE part \* the one that moves

NoticingVars == <<vars, allVars, part>>

NoticingInit ==
    /\ part \in {"observations", "suggestions", "panel"}
    /\ Init /\ PanelInit

\* Bound, for the client: one offer at once and one at last, neither about a process.
FewOffers ==
    /\ UNCHANGED lives
    /\ clock' > 1 => NewId' > 1
    /\ NewId' # NewId => clock \in {1, MaxClock}

NoticingNext ==
    \/ part = "observations" /\ Next /\ UNCHANGED <<allVars, part>>
    \/ part = "suggestions" /\ SuggestionNext /\ UNCHANGED <<vars, panelVars, part>>
    \/ part = "panel" /\ PanelNext /\ FewOffers /\ UNCHANGED <<vars, part>>

NoticingSpec == NoticingInit /\ [][NoticingNext]_NoticingVars

\* A service, a process and the workspace it was started in, against the limits
\* of the observation store.
MCServices == {"web"}
MCProcs == {"p1"}
MCPaths == {"w1"}
MCDirOf == [p \in MCProcs |-> "w1"]
MCBranches == {"main"}
MCOthers == {<<"task", "t1", "error">>}

\* A process, its server and a task, against the limits on suggestions.
OneProc == {"p1"}
OneServer == {"web"}
Runs == [p \in Processes |-> "web"]
OneOther == {<<"task", "t1">>}
=============================================================================

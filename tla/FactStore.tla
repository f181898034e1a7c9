------------------------------ MODULE FactStore ------------------------------
(***************************************************************************)
(* What the memory of NEXUS promises, without rows, locks or processes: a  *)
(* map from keys to facts. A save that is answered "ok" has taken effect   *)
(* once since it was asked, and one that is refused has not; a delete      *)
(* forgets all it was asked to, except that a fact saved while it was      *)
(* running may or may not survive it; nothing else changes a fact.         *)
(***************************************************************************)

CONSTANTS
    Threads,  \* the callers
    Keys,     \* what a fact is about: a memory's type and key
    Storable, \* values that may be remembered
    Requests, \* what can be asked: records with a kind
    None

VARIABLES
    facts,  \* facts[k]: what is remembered about k, or None
    asked,  \* asked[t]: the request t is waiting on, or None
    took,   \* took[t]: it has had its effect
    fresh,  \* fresh[t]: keys saved since t asked
    told    \* told[t]: t's last answer

vars == <<facts, asked, took, fresh, told>>

Init ==
    /\ facts = [k \in Keys |-> None]
    /\ asked = [t \in Threads |-> None]
    /\ took = [t \in Threads |-> FALSE]
    /\ fresh = [t \in Threads |-> {}]
    /\ told = [t \in Threads |-> None]

Ask(t) ==
    /\ asked[t] = None
    /\ \E q \in Requests : asked' = [asked EXCEPT ![t] = q]
    /\ took' = [took EXCEPT ![t] = FALSE]
    /\ fresh' = [fresh EXCEPT ![t] = {}]
    /\ UNCHANGED <<facts, told>>

Save(t) ==
    /\ asked[t] # None
    /\ asked[t].kind = "save"
    /\ ~took[t]
    /\ asked[t].value \in Storable
    /\ facts' = [facts EXCEPT ![asked[t].key] = asked[t].value]
    /\ took' = [took EXCEPT ![t] = TRUE]
    /\ fresh' = [u \in Threads |-> fresh[u] \cup {asked[t].key}]
    /\ UNCHANGED <<asked, told>>

\* A delete by a name that several types share takes one of the facts.
Forget(t) ==
    /\ asked[t] # None
    /\ asked[t].kind = "delete"
    /\ ~took[t]
    /\ \E gone \in SUBSET asked[t].scope :
        /\ asked[t].one => \A j, k \in gone : j = k
        /\ ~asked[t].one => asked[t].scope \ fresh[t] \subseteq gone
        /\ facts' = [k \in Keys |-> IF k \in gone THEN None ELSE facts[k]]
    /\ took' = [took EXCEPT ![t] = TRUE]
    /\ UNCHANGED <<asked, fresh, told>>

Answer(t) ==
    /\ asked[t] # None
    /\ \E a \in {"ok", "refused", "unavailable"} :
        /\ asked[t].kind \in {"save", "delete"} => (took[t] <=> a = "ok")
        /\ told' = [told EXCEPT ![t] = a]
    /\ asked' = [asked EXCEPT ![t] = None]
    /\ UNCHANGED <<facts, took, fresh>>

Next == \E t \in Threads : Ask(t) \/ Save(t) \/ Forget(t) \/ Answer(t)

Spec == Init /\ [][Next]_vars
=============================================================================

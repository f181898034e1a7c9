----------------------------- MODULE MemoryStore -----------------------------
(***************************************************************************)
(* The memory of the Mac server: rows of a SQLite table, written by the    *)
(* worker threads of one or more server processes (the pool's, and those   *)
(* of runs that opened their own). Each process guards its writes by a     *)
(* lock of its own; what spans two processes is only the database's        *)
(* transactions and its index (nexus_mac_mcp/core/memory_store.py and      *)
(* tools/memory.py).                                                       *)
(*                                                                         *)
(* A step is one transaction. Values are compared for equality and for     *)
(* being storable, which stands for the checks on shape, size and secrets. *)
(***************************************************************************)
EXTENDS Naturals, FiniteSets

CONSTANTS
    Workers,   \* worker threads
    ProcessOf, \* ProcessOf[t]: the server process t runs in
    Ids,       \* memory ids; bound: rows ever inserted
    Keys,      \* records [type, name]
    Values,    \* what one asks to remember
    Storable,  \* what passes create()'s checks
    Scopes,    \* what a delete may be asked: the keys and the ids it covers,
               \* and whether it takes one row or all of them
    MaxAsks,   \* bound: requests in all
    Null

Processes == {ProcessOf[t] : t \in Workers}

ASSUME ProcessAssumption == ProcessOf \in [Workers -> Processes]
ASSUME StorableAssumption == Storable \subseteq Values /\ Null \notin Storable
ASSUME ScopesAssumption ==
    /\ Scopes \subseteq [scope : SUBSET Keys, ids : SUBSET Ids, one : BOOLEAN]
    /\ \A f \in Scopes : f.one \/ f.ids = Ids   \* only a delete by id asks for ids
ASSUME IdsAssumption == IsFiniteSet(Ids)
ASSUME CallsAssumption == MaxAsks \in Nat

Saves == [kind : {"save"}, key : Keys, value : Values]
Deletes == {[kind |-> "delete", scope |-> f.scope, ids |-> f.ids, one |-> f.one] : f \in Scopes}
Marks == [kind : {"confirmed", "stale"}, id : Ids]
Requests == Saves \cup Deletes \cup Marks

ASSUME NoneAssumption == Null \notin Requests \cup Ids \cup Workers

VARIABLES
    row,    \* row[i]: the row with id i, or Null
    lock,   \* lock[p]: the thread inside process p's lock, or Null
    call,   \* call[t]: the request t is serving, or Null
    step,     \* step[t]: where it is
    seen,   \* seen[t]: the ids its last read found
    told,   \* told[t]: its last answer
    asks,   \* how many requests there have been
    took,   \* history: the request has had its effect
    fresh   \* history, fresh[t]: keys saved since t's request came

memoryVars == <<row, lock, call, step, seen, told, asks, took, fresh>>

Rows == [key : Keys, value : Storable, status : {"ACTIVE", "STALE", "DELETED"},
         by : Processes] \* by, a history: the process that last wrote the row
ASSUME NullAssumption == Null \notin Rows

Live(i) == row[i] # Null /\ row[i].status # "DELETED"
LiveIn(keys) == {i \in Ids : Live(i) /\ row[i].key \in keys}

(***************************************************************************)
(* The steps of a call.                                                    *)
(***************************************************************************)

Ask(t, q) ==
    /\ call[t] = Null
    /\ asks < MaxAsks
    /\ call' = [call EXCEPT ![t] = q]
    /\ step' = [step EXCEPT ![t] = "start"]
    /\ seen' = [seen EXCEPT ![t] = {}]
    /\ asks' = asks + 1
    /\ took' = [took EXCEPT ![t] = FALSE]
    /\ fresh' = [fresh EXCEPT ![t] = {}]
    /\ UNCHANGED <<row, lock, told>>

\* The call returns; `with self._lock` is left on every path.
Answered(t, answer) ==
    /\ call' = [call EXCEPT ![t] = Null]
    /\ step' = [step EXCEPT ![t] = "idle"]
    /\ told' = [told EXCEPT ![t] = answer]
    /\ lock' = [p \in Processes |-> IF lock[p] = t THEN Null ELSE lock[p]]
    /\ UNCHANGED <<seen, asks, fresh>>

\* The database cannot be opened, read or written: one fixed message, and the
\* transaction is not committed.
Unavailable(t) ==
    /\ step[t] \in {"start", "selected", "matched"}
    /\ Answered(t, "unavailable")
    /\ UNCHANGED <<row, took>>

\* create() refuses what must not be remembered before it touches the database.
RefuseSave(t) ==
    /\ step[t] = "start"
    /\ call[t].kind = "save"
    /\ call[t].value \notin Storable
    /\ Answered(t, "refused")
    /\ UNCHANGED <<row, took>>

\* variant: the lock is only taken for the write
SelectUnlocked(t) ==
    /\ step[t] = "start"
    /\ call[t].kind = "save"
    /\ call[t].value \in Storable
    /\ seen' = [seen EXCEPT ![t] = LiveIn({call[t].key})]
    /\ step' = [step EXCEPT ![t] = "selected"]
    /\ UNCHANGED <<row, lock, call, told, asks, took, fresh>>

\* Inside the lock, is there a row for the key? The read starts no transaction.
SelectExisting(t) ==
    /\ step[t] = "start"
    /\ call[t].kind = "save"
    /\ call[t].value \in Storable
    /\ lock[ProcessOf[t]] = Null
    /\ lock' = [lock EXCEPT ![ProcessOf[t]] = t]
    /\ seen' = [seen EXCEPT ![t] = LiveIn({call[t].key})]
    /\ step' = [step EXCEPT ![t] = "selected"]
    /\ UNCHANGED <<row, call, told, asks, took, fresh>>

\* The row found is rewritten, whatever has become of it, or a new one is
\* inserted. The unique index refuses a second live row for the key: the
\* error is reported as the database being unavailable.
WriteFact(t) ==
    /\ step[t] = "selected"
    /\ \E i \in Ids :
        /\ IF seen[t] = {} THEN row[i] = Null ELSE i \in seen[t]
        /\ LiveIn({call[t].key}) \subseteq {i}
        /\ row' = [row EXCEPT ![i] = [key |-> call[t].key, value |-> call[t].value,
                                      status |-> "ACTIVE", by |-> ProcessOf[t]]]
    /\ took' = [took EXCEPT ![t] = TRUE]
    /\ fresh' = [u \in Workers |-> fresh[u] \cup {call[t].key}]
    /\ step' = [step EXCEPT ![t] = "written"]
    /\ lock' = [p \in Processes |-> IF lock[p] = t THEN Null ELSE lock[p]]
    /\ UNCHANGED <<call, seen, told, asks>>

\* variant: a bulk delete borrows the limit of list()
MatchLimited(t) ==
    /\ step[t] = "start"
    /\ call[t].kind = "delete"
    /\ LET found == LiveIn(call[t].scope) \cap call[t].ids
       IN  /\ \E m \in SUBSET found :
                /\ IF found # {} THEN Cardinality(m) = 1 ELSE m = found
                /\ seen' = [seen EXCEPT ![t] = m]
           /\ step' = [step EXCEPT ![t] = IF found = {} THEN "written" ELSE "matched"]
           /\ took' = [took EXCEPT ![t] = found = {}]
    /\ UNCHANGED <<row, lock, call, told, asks, fresh>>

\* delete() reads what matches, outside the lock and without a limit; nothing
\* matching is an answer. By key alone it takes the one row fetchone returns.
Match(t) ==
    /\ step[t] = "start"
    /\ call[t].kind = "delete"
    /\ LET found == LiveIn(call[t].scope) \cap call[t].ids
       IN  /\ \E m \in SUBSET found :
                /\ IF call[t].one /\ found # {} THEN Cardinality(m) = 1 ELSE m = found
                /\ seen' = [seen EXCEPT ![t] = m]
           /\ step' = [step EXCEPT ![t] = IF found = {} THEN "written" ELSE "matched"]
           /\ took' = [took EXCEPT ![t] = found = {}]
    /\ UNCHANGED <<row, lock, call, told, asks, fresh>>

\* The rows that matched are marked, by id and whatever they now hold.
DeleteMatched(t) ==
    /\ step[t] = "matched"
    /\ lock[ProcessOf[t]] = Null
    /\ row' = [i \in Ids |-> IF i \in seen[t]
                             THEN [row[i] EXCEPT !.status = "DELETED", !.by = ProcessOf[t]]
                             ELSE row[i]]
    /\ took' = [took EXCEPT ![t] = TRUE]
    /\ step' = [step EXCEPT ![t] = "written"]
    /\ UNCHANGED <<lock, call, seen, told, asks, fresh>>

\* verify() stamps an ACTIVE row, mark_stale() makes it STALE; what is not
\* ACTIVE is left as it is.
MarkMemory(t) ==
    /\ step[t] = "start"
    /\ call[t].kind \in {"confirmed", "stale"}
    /\ lock[ProcessOf[t]] = Null
    /\ LET i == call[t].id
       IN  row' = IF call[t].kind = "stale" /\ row[i] # Null /\ row[i].status = "ACTIVE"
                  THEN [row EXCEPT ![i] = [@ EXCEPT !.status = "STALE", !.by = ProcessOf[t]]]
                  ELSE row
    /\ step' = [step EXCEPT ![t] = "written"]
    /\ UNCHANGED <<lock, call, seen, told, asks, took, fresh>>

\* The answer: success, or for a mark of a row that is not there, a refusal.
Reply(t) ==
    /\ step[t] = "written"
    /\ Answered(t, IF call[t].kind \in {"confirmed", "stale"} /\ ~Live(call[t].id)
                 THEN "refused" ELSE "ok")
    /\ UNCHANGED <<row, took>>

(***************************************************************************)
(* The specification.                                                      *)
(***************************************************************************)

MemoryInit ==
    /\ row = [i \in Ids |-> Null]
    /\ lock = [p \in Processes |-> Null]
    /\ call = [t \in Workers |-> Null]
    /\ step = [t \in Workers |-> "idle"]
    /\ seen = [t \in Workers |-> {}]
    /\ told = [t \in Workers |-> Null]
    /\ asks = 0
    /\ took = [t \in Workers |-> FALSE]
    /\ fresh = [t \in Workers |-> {}]

MemoryStep(t) ==
    \/ \E q \in Requests : Ask(t, q)
    \/ Unavailable(t) \/ RefuseSave(t) \/ SelectExisting(t) \/ WriteFact(t)
    \/ Match(t) \/ DeleteMatched(t) \/ MarkMemory(t) \/ Reply(t)

MemoryNext == \E t \in Workers : MemoryStep(t)

MemorySpec == MemoryInit /\ [][MemoryNext]_memoryVars

(***************************************************************************)
(* Properties.                                                             *)
(***************************************************************************)

MemoryTypes ==
    /\ row \in [Ids -> Rows \cup {Null}]
    /\ lock \in [Processes -> Workers \cup {Null}]
    /\ call \in [Workers -> Requests \cup {Null}]
    /\ step \in [Workers -> {"idle", "start", "selected", "matched", "written"}]
    /\ seen \in [Workers -> SUBSET Ids]
    /\ told \in [Workers -> {Null, "ok", "refused", "unavailable"}]
    /\ asks \in 0..MaxAsks
    /\ took \in [Workers -> BOOLEAN]
    /\ fresh \in [Workers -> SUBSET Keys]

\* The facts the rows stand for.
Facts == [k \in Keys |-> IF LiveIn({k}) = {} THEN Null
                         ELSE row[CHOOSE i \in LiveIn({k}) : TRUE].value]

Promise == INSTANCE FactStore WITH Threads <- Workers, None <- Null, facts <- Facts, asked <- call

\* Rows, locks and transactions keep the promise of FactStore, also when
\* several processes write: every answered save has happened, every delete has
\* taken all it was asked to take but what was saved meanwhile, and nothing
\* else, a mark above all, changes what is remembered.
ImplementsFactStore == Promise!Spec

\* A forgotten memory comes back only through a server of another process,
\* whose save had already found the row: within one process the lock makes the
\* read and the write of a save one.
ForgottenStaysForgotten ==
    [][\A i \in Ids : \A t \in Workers :
         (row[i] # Null /\ row[i].status = "DELETED" /\ row'[i].status # "DELETED"
            /\ step[t] # step'[t])
         => row[i].by # ProcessOf[t]]_memoryVars
=============================================================================

--------------------------- MODULE DecisionProofs ----------------------------
(***************************************************************************)
(* Theorems about the parts that judge: the memory of the Mac server, the  *)
(* verification of an action, the evaluation harness and the check of a    *)
(* plan.                                                                   *)
(***************************************************************************)
EXTENDS MemoryStore, Verification, Evaluation, PlanGraph, FiniteSetTheorems, TLAPS

(***************************************************************************)
(* MemoryStore, for any workers, processes, keys and values: it implements *)
(* FactStore, and a forgotten row comes back only through another process. *)
(* Induction needs to know that a key has one live row, and what a save or *)
(* a delete still knows of the rows it read.                               *)
(***************************************************************************)

\* The live rows of a key in a table.
Holding(table, k) ==
    {i \in Ids : table[i] # Null /\ table[i].status # "DELETED" /\ table[i].key = k}

\* The unique index: a key has one live row at most.
OneRowPerKey(table) == \A k \in Keys : \A i, j \in Holding(table, k) : i = j

\* Where a request stands, and whether it has had its effect.
Serving ==
    \A t \in Workers :
        /\ step[t] = "idle" <=> call[t] = Null
        /\ step[t] \in {"start", "selected", "matched"} => took[t] = FALSE
        /\ step[t] = "written" /\ call[t].kind \in {"save", "delete"} => took[t] = TRUE
        /\ step[t] = "selected" => call[t].kind = "save" /\ call[t].value \in Storable
        /\ step[t] = "matched" => call[t].kind = "delete"

\* The row a save has found is still its key's, and was deleted, if at all, by
\* another process: its own is inside the lock.
SaveKnows ==
    \A t \in Workers : step[t] = "selected" =>
        /\ lock[ProcessOf[t]] = t
        /\ \A i \in seen[t] :
            /\ row[i] # Null /\ row[i].key = call[t].key
            /\ row[i].status = "DELETED" => row[i].by # ProcessOf[t]

\* The rows a delete has matched are still in its scope, and every live row of
\* its scope is one of them unless it was saved meanwhile.
DeleteKnows ==
    \A t \in Workers : step[t] = "matched" =>
        /\ call[t].one => \E i \in Ids : seen[t] = {i}
        /\ \A i \in seen[t] : row[i] # Null /\ row[i].key \in call[t].scope
        /\ ~call[t].one => \A k \in call[t].scope \ fresh[t] : Holding(row, k) \subseteq seen[t]

MemoryInv == MemoryTypes /\ OneRowPerKey(row) /\ Serving /\ SaveKnows /\ DeleteKnows

-----------------------------------------------------------------------------
(* Rows.                                                                   *)

\* What Live and LiveIn say is said of the table of rows.
LEMMA LiveIs ==
    ASSUME MemoryTypes
    PROVE  \A K \in SUBSET Keys : \A i \in Ids : i \in LiveIn(K) <=> \E k \in K : i \in Holding(row, k)
BY DEF LiveIn, Live, Holding

\* A request is a save, a delete or a mark, with what its kind asks for.
LEMMA RequestIs ==
    ASSUME NEW q \in Requests
    PROVE  /\ q # Null
           /\ q.kind \in {"save", "delete", "confirmed", "stale"}
           /\ q.kind = "save" => q.key \in Keys
           /\ q.kind = "delete" => /\ q.scope \in SUBSET Keys /\ q.ids \in SUBSET Ids /\ q.one \in BOOLEAN
                                   /\ q.one \/ q.ids = Ids
           /\ q.kind \in {"confirmed", "stale"} => q.id \in Ids
<1>1. CASE q \in Saves
  BY <1>1, NoneAssumption DEF Saves, Requests
<1>2. CASE q \in Deletes
  BY <1>2, NoneAssumption, ScopesAssumption DEF Deletes, Requests
<1>3. CASE q \in Marks
  BY <1>3, NoneAssumption DEF Marks, Requests
<1> QED BY <1>1, <1>2, <1>3 DEF Requests

\* The table is empty at the start.
LEMMA MemoryInitHolds == MemoryInit => MemoryInv
<1> SUFFICES ASSUME MemoryInit PROVE MemoryInv
  OBVIOUS
<1>1. MemoryTypes
  BY CallsAssumption DEF MemoryInit, MemoryTypes
<1>2. OneRowPerKey(row)
  BY DEF MemoryInit, OneRowPerKey, Holding
<1>3. Serving /\ SaveKnows /\ DeleteKnows
  BY DEF MemoryInit, Serving, SaveKnows, DeleteKnows
<1> QED BY <1>1, <1>2, <1>3 DEF MemoryInv

-----------------------------------------------------------------------------
(* The steps that leave the rows alone.                                    *)

\* A request comes in: nothing is known yet.
LEMMA AskKeeps ==
    ASSUME MemoryInv, NEW t \in Workers, NEW q \in Requests, Ask(t, q)
    PROVE  MemoryInv'
<1>1. MemoryTypes'
  <2>1. asks' \in 0..MaxAsks
    BY CallsAssumption DEF MemoryInv, MemoryTypes, Ask
  <2> QED BY <2>1 DEF MemoryInv, MemoryTypes, Ask
<1>2. OneRowPerKey(row)'
  BY DEF MemoryInv, Ask, OneRowPerKey, Holding
<1>3. Serving'
  BY RequestIs DEF MemoryInv, MemoryTypes, Serving, Ask
<1>4. SaveKnows' /\ DeleteKnows'
  BY DEF MemoryInv, MemoryTypes, SaveKnows, DeleteKnows, Holding, Ask
<1> QED BY <1>1, <1>2, <1>3, <1>4 DEF MemoryInv

\* A call that is answered knows nothing any more.
LEMMA AnsweredKeeps ==
    ASSUME MemoryInv, NEW t \in Workers, NEW answer \in {"ok", "refused", "unavailable"},
           Answered(t, answer), UNCHANGED <<row, took>>
    PROVE  MemoryInv'
<1>1. MemoryTypes'
  BY DEF MemoryInv, MemoryTypes, Answered
<1>2. OneRowPerKey(row)'
  BY DEF MemoryInv, OneRowPerKey, Holding
<1>3. Serving'
  BY DEF MemoryInv, MemoryTypes, Serving, Answered
<1>4. SaveKnows' /\ DeleteKnows'
  <2>1. \A u \in Workers : step'[u] = "selected" => u # t /\ step[u] = "selected"
    BY DEF MemoryInv, MemoryTypes, Answered
  <2>2. \A u \in Workers : lock[ProcessOf[u]] = u /\ u # t => lock'[ProcessOf[u]] = u
    BY ProcessAssumption DEF Answered
  <2>3. \A u \in Workers : u # t => UNCHANGED <<call[u], step[u], seen[u], fresh[u]>>
    BY DEF MemoryInv, MemoryTypes, Answered
  <2>4. SaveKnows'
    BY <2>1, <2>2, <2>3 DEF MemoryInv, SaveKnows
  <2>5. \A u \in Workers : step'[u] = "matched" => u # t
    BY DEF MemoryInv, MemoryTypes, Answered
  <2>6. DeleteKnows'
    BY <2>3, <2>5 DEF MemoryInv, DeleteKnows, Holding
  <2> QED BY <2>4, <2>6
<1> QED BY <1>1, <1>2, <1>3, <1>4 DEF MemoryInv

\* A save finds the live row of its key, inside the lock of its process.
LEMMA SelectKeeps ==
    ASSUME MemoryInv, NEW t \in Workers, SelectExisting(t)
    PROVE  MemoryInv'
<1>1. call[t] \in Requests /\ call[t].kind = "save" /\ call[t].key \in Keys
  BY RequestIs DEF MemoryInv, MemoryTypes, Serving, SelectExisting
<1>2. MemoryTypes'
  BY ProcessAssumption DEF MemoryInv, MemoryTypes, SelectExisting, LiveIn
<1>3. OneRowPerKey(row)'
  BY DEF MemoryInv, OneRowPerKey, Holding, SelectExisting
<1>4. Serving'
  BY DEF MemoryInv, MemoryTypes, Serving, SelectExisting
<1>5. SaveKnows'
  <2>1. \A i \in LiveIn({call[t].key}) : row[i] # Null /\ row[i].key = call[t].key /\ row[i].status # "DELETED"
    BY DEF LiveIn, Live
  <2>2. lock'[ProcessOf[t]] = t
    BY ProcessAssumption DEF MemoryInv, MemoryTypes, SelectExisting
  <2>3. \A u \in Workers : step[u] = "selected" => lock'[ProcessOf[u]] = u
    BY ProcessAssumption, NoneAssumption DEF MemoryInv, MemoryTypes, SaveKnows, SelectExisting
  <2>4. ASSUME NEW u \in Workers, step'[u] = "selected"
        PROVE  /\ lock'[ProcessOf[u]] = u
               /\ \A i \in seen'[u] : /\ row[i] # Null /\ row[i].key = call[u].key
                                      /\ row[i].status = "DELETED" => row[i].by # ProcessOf[u]
    <3>1. CASE u = t
      <4>1. seen'[t] = LiveIn({call[t].key})
        BY DEF MemoryInv, MemoryTypes, SelectExisting
      <4> QED BY <2>1, <2>2, <3>1, <4>1
    <3>2. CASE u # t
      <4>1. step[u] = "selected" /\ seen'[u] = seen[u]
        BY <2>4, <3>2 DEF MemoryInv, MemoryTypes, SelectExisting
      <4> QED BY <2>3, <4>1 DEF MemoryInv, SaveKnows
    <3> QED BY <3>1, <3>2
  <2>5. row' = row /\ call' = call
    BY DEF SelectExisting
  <2> QED BY <2>4, <2>5 DEF SaveKnows
<1>6. DeleteKnows'
  BY DEF MemoryInv, MemoryTypes, DeleteKnows, Holding, SelectExisting
<1> QED BY <1>2, <1>3, <1>4, <1>5, <1>6 DEF MemoryInv

\* A delete matches every live row it may take, or one of them.
LEMMA MatchKeeps ==
    ASSUME MemoryInv, NEW t \in Workers, Match(t)
    PROVE  MemoryInv'
<1> DEFINE matching == LiveIn(call[t].scope) \cap call[t].ids
<1>1. call[t] \in Requests /\ call[t].kind = "delete" /\ step[t] = "start"
  BY DEF MemoryInv, MemoryTypes, Serving, Match
<1>2. PICK m \in SUBSET matching :
          /\ IF call[t].one /\ matching # {} THEN Cardinality(m) = 1 ELSE m = matching
          /\ seen' = [seen EXCEPT ![t] = m]
  BY DEF Match
<1>3. /\ step' = [step EXCEPT ![t] = IF matching = {} THEN "written" ELSE "matched"]
      /\ took' = [took EXCEPT ![t] = matching = {}]
      /\ UNCHANGED <<row, lock, call, told, asks, fresh>>
  BY DEF Match
<1>4. matching \in SUBSET Ids /\ \A i \in matching : row[i] # Null /\ row[i].key \in call[t].scope
  BY DEF LiveIn, Live
<1>5. step'[t] = "matched" /\ call[t].one => \E i \in Ids : m = {i}
  <2>1. IsFiniteSet(m)
    BY <1>4, IdsAssumption, FS_Subset
  <2>2. Cardinality(m) = 1 => \E i : m = {i}
    BY <2>1, FS_Singleton
  <2>3. step'[t] = "matched" => matching # {}
    BY <1>3 DEF MemoryInv, MemoryTypes
  <2> QED BY <1>2, <1>4, <2>2, <2>3
<1>6. ~call[t].one => \A k \in call[t].scope : Holding(row, k) \subseteq m
  <2>1. (call[t].ids = Ids /\ call[t].scope \in SUBSET Keys) \/ call[t].one
    BY <1>1, RequestIs
  <2>2. ~call[t].one => m = matching
    BY <1>2
  <2> QED BY <2>1, <2>2 DEF LiveIn, Live, Holding
<1> HIDE DEF matching
<1>7. MemoryTypes'
  BY <1>2, <1>3, <1>4 DEF MemoryInv, MemoryTypes
<1>8. OneRowPerKey(row)'
  BY <1>3 DEF MemoryInv, OneRowPerKey, Holding
<1>9. Serving'
  BY <1>1, <1>3 DEF MemoryInv, MemoryTypes, Serving
<1>10. SaveKnows'
  BY <1>2, <1>3 DEF MemoryInv, MemoryTypes, SaveKnows
<1>11. DeleteKnows'
  BY <1>2, <1>3, <1>4, <1>5, <1>6 DEF MemoryInv, MemoryTypes, DeleteKnows, Holding
<1> QED BY <1>7, <1>8, <1>9, <1>10, <1>11 DEF MemoryInv

-----------------------------------------------------------------------------
(* The steps that change rows.                                             *)

\* A save writes the row it found or a new one, and it is the one of its key:
\* the row's key is what it was, and the key's other rows are not live.
LEMMA Writes ==
    ASSUME MemoryInv, NEW t \in Workers, WriteFact(t)
    PROVE  /\ step[t] = "selected" /\ call[t] \in Requests
           /\ call[t].key \in Keys /\ call[t].value \in Storable
           /\ \E i \in Ids :
                /\ row[i] # Null => row[i].key = call[t].key
                /\ row[i] # Null => (row[i].status = "DELETED" => row[i].by # ProcessOf[t])
                /\ \A j \in Holding(row, call[t].key) : j = i
                /\ row' \in [Ids -> Rows \cup {Null}]
                /\ row'[i] \in Rows /\ row'[i] # Null
                /\ row'[i].key = call[t].key /\ row'[i].value = call[t].value /\ row'[i].status = "ACTIVE"
                /\ \A j \in Ids \ {i} : row'[j] = row[j]
<1>1. step[t] = "selected" /\ call[t] \in Requests /\ call[t].kind = "save" /\ call[t].value \in Storable
  BY DEF MemoryInv, MemoryTypes, Serving, WriteFact
<1>2. call[t].key \in Keys
  BY <1>1, RequestIs
<1> DEFINE new == [key |-> call[t].key, value |-> call[t].value, status |-> "ACTIVE", by |-> ProcessOf[t]]
<1>3. PICK i \in Ids : /\ IF seen[t] = {} THEN row[i] = Null ELSE i \in seen[t]
                       /\ LiveIn({call[t].key}) \subseteq {i}
                       /\ row' = [row EXCEPT ![i] = new]
  BY DEF WriteFact
<1>4. new \in Rows /\ new # Null
  BY <1>1, <1>2, ProcessAssumption, NullAssumption DEF Rows
<1>5. new.key = call[t].key /\ new.value = call[t].value /\ new.status = "ACTIVE"
  OBVIOUS
<1> HIDE DEF new
<1>6. row \in [Ids -> Rows \cup {Null}]
  BY DEF MemoryInv, MemoryTypes
<1>7. /\ row[i] # Null => row[i].key = call[t].key
      /\ row[i] # Null => (row[i].status = "DELETED" => row[i].by # ProcessOf[t])
  BY <1>1, <1>3 DEF MemoryInv, SaveKnows
<1>8. \A j \in Holding(row, call[t].key) : j = i
  BY <1>3 DEF Holding, LiveIn, Live
<1>9. row' \in [Ids -> Rows \cup {Null}] /\ row'[i] = new /\ \A j \in Ids \ {i} : row'[j] = row[j]
  BY <1>3, <1>4, <1>6
<1> QED BY <1>1, <1>2, <1>4, <1>5, <1>7, <1>8, <1>9

\* What is known by others stays true of the row that is written.
LEMMA WriteKeeps ==
    ASSUME MemoryInv, NEW t \in Workers, WriteFact(t)
    PROVE  MemoryInv'
<1>1. /\ step[t] = "selected" /\ call[t] \in Requests
      /\ call[t].key \in Keys /\ call[t].value \in Storable
  BY Writes
<1>2. PICK i \in Ids :
          /\ row[i] # Null => row[i].key = call[t].key
          /\ \A j \in Holding(row, call[t].key) : j = i
          /\ row' \in [Ids -> Rows \cup {Null}]
          /\ row'[i] \in Rows /\ row'[i] # Null
          /\ row'[i].key = call[t].key /\ row'[i].status = "ACTIVE"
          /\ \A j \in Ids \ {i} : row'[j] = row[j]
  BY Writes
<1>3. /\ took' = [took EXCEPT ![t] = TRUE]
      /\ fresh' = [u \in Workers |-> fresh[u] \cup {call[t].key}]
      /\ step' = [step EXCEPT ![t] = "written"]
      /\ lock' = [p \in Processes |-> IF lock[p] = t THEN Null ELSE lock[p]]
      /\ UNCHANGED <<call, seen, told, asks>>
  BY DEF WriteFact
<1>4. MemoryTypes'
  BY <1>1, <1>2, <1>3 DEF MemoryInv, MemoryTypes
<1>5. \A k \in Keys : \A j \in Holding(row', k) : j = i \/ (j \in Holding(row, k) /\ k # call[t].key)
  BY <1>2 DEF Holding
<1>6. \A k \in Keys : k # call[t].key => i \notin Holding(row', k)
  BY <1>2 DEF Holding
<1>7. OneRowPerKey(row)'
  BY <1>5, <1>6 DEF MemoryInv, OneRowPerKey
<1>8. Serving'
  <2>1. ASSUME NEW u \in Workers, u # t
        PROVE  step'[u] = step[u] /\ took'[u] = took[u] /\ call'[u] = call[u]
    BY <1>3, <2>1 DEF MemoryInv, MemoryTypes
  <2>2. step'[t] = "written" /\ took'[t] = TRUE /\ call'[t] = call[t] /\ call[t] # Null
    BY <1>1, <1>3, RequestIs DEF MemoryInv, MemoryTypes
  <2>3. ASSUME NEW u \in Workers
        PROVE  /\ step'[u] = "idle" <=> call'[u] = Null
               /\ step'[u] \in {"start", "selected", "matched"} => took'[u] = FALSE
               /\ step'[u] = "written" /\ call'[u].kind \in {"save", "delete"} => took'[u] = TRUE
               /\ step'[u] = "selected" => call'[u].kind = "save" /\ call'[u].value \in Storable
               /\ step'[u] = "matched" => call'[u].kind = "delete"
    <3>1. CASE u = t
      BY <2>2, <3>1
    <3>2. CASE u # t
      BY <2>1, <3>2 DEF MemoryInv, Serving
    <3> QED BY <3>1, <3>2
  <2> QED BY <2>3 DEF Serving
<1>9. SaveKnows'
  <2>1. ASSUME NEW u \in Workers, step'[u] = "selected"
        PROVE  /\ lock'[ProcessOf[u]] = u
               /\ \A j \in seen[u] : /\ row'[j] # Null /\ row'[j].key = call[u].key
                                     /\ row'[j].status = "DELETED" => row'[j].by # ProcessOf[u]
    <3>1. u # t /\ step[u] = "selected"
      BY <1>3, <2>1 DEF MemoryInv, MemoryTypes
    <3>2. lock'[ProcessOf[u]] = u
      BY <1>3, <3>1, ProcessAssumption DEF MemoryInv, SaveKnows
    <3>3. \A j \in seen[u] : j \in Ids /\ row[j] # Null /\ row[j].key = call[u].key
                             /\ (row[j].status = "DELETED" => row[j].by # ProcessOf[u])
      BY <3>1 DEF MemoryInv, MemoryTypes, SaveKnows
    <3> QED BY <1>2, <3>2, <3>3
  <2> QED BY <1>3, <2>1 DEF SaveKnows
<1>10. DeleteKnows'
  <2>1. ASSUME NEW u \in Workers, step'[u] = "matched"
        PROVE  /\ call[u].one => \E j \in Ids : seen[u] = {j}
               /\ \A j \in seen[u] : row'[j] # Null /\ row'[j].key \in call[u].scope
               /\ ~call[u].one => \A k \in call[u].scope \ fresh'[u] : Holding(row', k) \subseteq seen[u]
    <3>1. step[u] = "matched" /\ call[u] \in Requests /\ call[u].kind = "delete"
      BY <1>3, <2>1 DEF MemoryInv, MemoryTypes, Serving
    <3>2. call[u].scope \in SUBSET Keys
      BY <3>1, RequestIs
    <3>3. /\ call[u].one => \E j \in Ids : seen[u] = {j}
          /\ \A j \in seen[u] : j \in Ids /\ row[j] # Null /\ row[j].key \in call[u].scope
          /\ ~call[u].one => \A k \in call[u].scope \ fresh[u] : Holding(row, k) \subseteq seen[u]
      BY <3>1 DEF MemoryInv, MemoryTypes, DeleteKnows
    <3>4. \A j \in seen[u] : row'[j] # Null /\ row'[j].key \in call[u].scope
      BY <1>2, <3>3
    <3>5. \A k \in call[u].scope \ fresh'[u] :
              k \in call[u].scope \ fresh[u] /\ Holding(row', k) \subseteq Holding(row, k)
      BY <1>3, <1>5, <1>6, <3>2 DEF MemoryInv, MemoryTypes
    <3> QED BY <3>3, <3>4, <3>5
  <2> QED BY <1>3, <2>1 DEF DeleteKnows
<1> QED BY <1>4, <1>7, <1>8, <1>9, <1>10 DEF MemoryInv

\* A delete takes live rows away and no key from any row.
LEMMA DeletesWhat ==
    ASSUME MemoryInv, NEW t \in Workers, DeleteMatched(t)
    PROVE  /\ row' \in [Ids -> Rows \cup {Null}]
           /\ \A i \in Ids : row'[i] = Null <=> row[i] = Null
           /\ \A i \in Ids : row[i] # Null => row'[i].key = row[i].key /\ row'[i].value = row[i].value
           /\ \A i \in seen[t] : row'[i].status = "DELETED" /\ row'[i].by = ProcessOf[t]
           /\ \A i \in Ids \ seen[t] : row'[i] = row[i]
<1>1. row \in [Ids -> Rows \cup {Null}] /\ seen[t] \in SUBSET Ids
  BY DEF MemoryInv, MemoryTypes
<1>2. \A i \in seen[t] : row[i] \in Rows /\ row[i] # Null
  <2>1. step[t] = "matched"
    BY DEF DeleteMatched
  <2>2. \A i \in seen[t] : row[i] # Null
    BY <2>1 DEF MemoryInv, DeleteKnows
  <2> QED BY <1>1, <2>2
<1>3. \A i \in Ids : row'[i] = IF i \in seen[t]
                               THEN [row[i] EXCEPT !.status = "DELETED", !.by = ProcessOf[t]] ELSE row[i]
  BY DEF DeleteMatched
<1>4. ASSUME NEW i \in seen[t]
      PROVE  /\ row'[i] \in Rows /\ row'[i].key = row[i].key /\ row'[i].value = row[i].value
             /\ row'[i].status = "DELETED" /\ row'[i].by = ProcessOf[t]
  <2> DEFINE gone == [row[i] EXCEPT !.status = "DELETED", !.by = ProcessOf[t]]
  <2>1. row[i] \in Rows
    BY <1>2
  <2>2. /\ gone \in Rows /\ gone.key = row[i].key /\ gone.value = row[i].value
        /\ gone.status = "DELETED" /\ gone.by = ProcessOf[t]
    BY <2>1, ProcessAssumption DEF Rows
  <2>3. row'[i] = gone
    BY <1>1, <1>3
  <2> HIDE DEF gone
  <2> QED BY <2>2, <2>3
<1>5. \A i \in seen[t] : row'[i] # Null
  BY <1>4, NullAssumption
<1>6. row' \in [Ids -> Rows \cup {Null}]
  BY <1>1, <1>3, <1>4 DEF DeleteMatched
<1> QED BY <1>1, <1>2, <1>3, <1>4, <1>5, <1>6

\* It may only have taken them from a save of another process.
LEMMA DeleteKeeps ==
    ASSUME MemoryInv, NEW t \in Workers, DeleteMatched(t)
    PROVE  MemoryInv'
<1>1. /\ step[t] = "matched" /\ lock[ProcessOf[t]] = Null
      /\ took' = [took EXCEPT ![t] = TRUE] /\ step' = [step EXCEPT ![t] = "written"]
      /\ UNCHANGED <<lock, call, seen, told, asks, fresh>>
  BY DEF DeleteMatched
<1>2. MemoryTypes'
  BY <1>1, DeletesWhat DEF MemoryInv, MemoryTypes
<1>3. \A k \in Keys : Holding(row', k) \subseteq Holding(row, k)
  BY DeletesWhat DEF Holding
<1>4. OneRowPerKey(row)'
  BY <1>3 DEF MemoryInv, OneRowPerKey
<1>5. Serving'
  BY <1>1 DEF MemoryInv, MemoryTypes, Serving
<1>6. SaveKnows'
  <2>1. ASSUME NEW u \in Workers, step'[u] = "selected"
        PROVE  /\ lock[ProcessOf[u]] = u
               /\ \A j \in seen[u] : /\ row'[j] # Null /\ row'[j].key = call[u].key
                                     /\ row'[j].status = "DELETED" => row'[j].by # ProcessOf[u]
    <3>1. step[u] = "selected"
      BY <1>1, <2>1 DEF MemoryInv, MemoryTypes
    <3>2. /\ lock[ProcessOf[u]] = u
          /\ \A j \in seen[u] : j \in Ids /\ row[j] # Null /\ row[j].key = call[u].key
                                /\ (row[j].status = "DELETED" => row[j].by # ProcessOf[u])
      BY <3>1 DEF MemoryInv, MemoryTypes, SaveKnows
    <3>3. ProcessOf[u] # ProcessOf[t]
      BY <1>1, <3>2, NoneAssumption
    <3> QED BY <3>2, <3>3, DeletesWhat
  <2> QED BY <1>1, <2>1 DEF SaveKnows
<1>7. DeleteKnows'
  <2>1. ASSUME NEW u \in Workers, step'[u] = "matched"
        PROVE  /\ call[u].one => \E j \in Ids : seen[u] = {j}
               /\ \A j \in seen[u] : row'[j] # Null /\ row'[j].key \in call[u].scope
               /\ ~call[u].one => \A k \in call[u].scope \ fresh[u] : Holding(row', k) \subseteq seen[u]
    <3>1. step[u] = "matched" /\ call[u] \in Requests /\ call[u].kind = "delete"
      BY <1>1, <2>1 DEF MemoryInv, MemoryTypes, Serving
    <3>2. call[u].scope \in SUBSET Keys
      BY <3>1, RequestIs
    <3>3. /\ call[u].one => \E j \in Ids : seen[u] = {j}
          /\ \A j \in seen[u] : j \in Ids /\ row[j] # Null /\ row[j].key \in call[u].scope
          /\ ~call[u].one => \A k \in call[u].scope \ fresh[u] : Holding(row, k) \subseteq seen[u]
      BY <3>1 DEF MemoryInv, MemoryTypes, DeleteKnows
    <3> QED BY <1>3, <3>2, <3>3, DeletesWhat
  <2> QED BY <1>1, <2>1 DEF DeleteKnows
<1> QED BY <1>2, <1>4, <1>5, <1>6, <1>7 DEF MemoryInv

\* A mark changes neither key nor value of a row, nor whether it is live.
LEMMA MarksWhat ==
    ASSUME MemoryInv, NEW t \in Workers, MarkMemory(t)
    PROVE  /\ row' \in [Ids -> Rows \cup {Null}]
           /\ \A i \in Ids : row'[i] = Null <=> row[i] = Null
           /\ \A i \in Ids : row[i] # Null =>
                /\ row'[i].key = row[i].key /\ row'[i].value = row[i].value
                /\ row'[i].status = "DELETED" <=> row[i].status = "DELETED"
                /\ row[i].status = "DELETED" => row'[i] = row[i]
<1> DEFINE i == call[t].id
           stale == [row[i] EXCEPT !.status = "STALE", !.by = ProcessOf[t]]
<1>1. row \in [Ids -> Rows \cup {Null}]
  BY DEF MemoryInv, MemoryTypes
<1>2. \/ row' = row
      \/ row[i] # Null /\ row[i].status = "ACTIVE" /\ row' = [row EXCEPT ![i] = stale]
  BY DEF MarkMemory
<1>3. CASE row' = row
  BY <1>1, <1>3
<1>4. CASE row[i] # Null /\ row[i].status = "ACTIVE" /\ row' = [row EXCEPT ![i] = stale]
  <2>1. i \in Ids
    BY RequestIs DEF MemoryInv, MemoryTypes, Serving, MarkMemory
  <2>2. /\ stale \in Rows /\ stale.key = row[i].key /\ stale.value = row[i].value /\ stale.status = "STALE"
    BY <1>1, <1>4, <2>1, ProcessAssumption DEF Rows
  <2>3. stale # Null
    BY <2>2, NullAssumption
  <2> HIDE DEF stale
  <2> QED BY <1>1, <1>4, <2>1, <2>2, <2>3
<1> QED BY <1>2, <1>3, <1>4

\* And so nothing that anybody knows.
LEMMA MarkKeeps ==
    ASSUME MemoryInv, NEW t \in Workers, MarkMemory(t)
    PROVE  MemoryInv'
<1>1. /\ step' = [step EXCEPT ![t] = "written"] /\ step[t] = "start"
      /\ call[t].kind \in {"confirmed", "stale"}
      /\ UNCHANGED <<lock, call, seen, told, asks, took, fresh>>
  BY DEF MarkMemory
<1>2. MemoryTypes'
  BY <1>1, MarksWhat DEF MemoryInv, MemoryTypes
<1>3. \A k \in Keys : Holding(row', k) = Holding(row, k)
  BY MarksWhat DEF Holding
<1>4. OneRowPerKey(row)'
  BY <1>3 DEF MemoryInv, OneRowPerKey
<1>5. Serving'
  BY <1>1 DEF MemoryInv, MemoryTypes, Serving
<1>6. SaveKnows'
  BY <1>1, MarksWhat DEF MemoryInv, MemoryTypes, SaveKnows
<1>7. DeleteKnows'
  <2>1. \A u \in Workers : step'[u] = "matched" => step[u] = "matched" /\ call[u].scope \in SUBSET Keys
    BY <1>1, RequestIs DEF MemoryInv, MemoryTypes, Serving
  <2> QED BY <1>1, <1>3, <2>1, MarksWhat DEF MemoryInv, MemoryTypes, DeleteKnows
<1> QED BY <1>2, <1>4, <1>5, <1>6, <1>7 DEF MemoryInv

-----------------------------------------------------------------------------
(* The theorems.                                                           *)

\* A step of the store, or none, keeps what everybody knows.
LEMMA MemoryStepKeeps ==
    ASSUME MemoryInv, [MemoryNext]_memoryVars
    PROVE  MemoryInv'
<1>1. ASSUME NEW t \in Workers, MemoryStep(t)
      PROVE  MemoryInv'
  <2>1. CASE \E q \in Requests : Ask(t, q)
    BY <2>1, AskKeeps
  <2>2. CASE Unavailable(t)
    BY <2>2, AnsweredKeeps DEF Unavailable
  <2>3. CASE RefuseSave(t)
    BY <2>3, AnsweredKeeps DEF RefuseSave
  <2>4. CASE Reply(t)
    BY <2>4, AnsweredKeeps DEF Reply
  <2>5. CASE SelectExisting(t)
    BY <2>5, SelectKeeps
  <2>6. CASE WriteFact(t)
    BY <2>6, WriteKeeps
  <2>7. CASE Match(t)
    BY <2>7, MatchKeeps
  <2>8. CASE DeleteMatched(t)
    BY <2>8, DeleteKeeps
  <2>9. CASE MarkMemory(t)
    BY <2>9, MarkKeeps
  <2> QED BY <1>1, <2>1, <2>2, <2>3, <2>4, <2>5, <2>6, <2>7, <2>8, <2>9 DEF MemoryStep
<1>2. CASE UNCHANGED memoryVars
  BY <1>2 DEF memoryVars, MemoryInv, MemoryTypes, OneRowPerKey, Holding, Serving, SaveKnows,
        DeleteKnows
<1> QED BY <1>1, <1>2 DEF MemoryNext

\* The inductive invariant: types, one live row for a key, and what a request
\* still knows of the rows it read.
THEOREM MemoryInvHolds == MemorySpec => []MemoryInv
<1>1. MemoryInv /\ [MemoryNext]_memoryVars => MemoryInv'
  BY MemoryStepKeeps
<1> QED BY <1>1, MemoryInitHolds, PTL DEF MemorySpec

\* Only a save brings a deleted row back, and it does so for a row another
\* process deleted: within one process select and write are one.
THEOREM ForgottenHolds == MemorySpec => ForgottenStaysForgotten
<1> DEFINE Returns(i, t) == row[i] # Null /\ row[i].status = "DELETED" /\ row'[i].status # "DELETED"
                              /\ step[t] # step'[t]
<1>1. ASSUME MemoryInv, NEW u \in Workers, MemoryStep(u), NEW i \in Ids, NEW t \in Workers, Returns(i, t)
      PROVE  row[i].by # ProcessOf[t]
  <2>1. t = u
    <3>1. \E s \in {"idle", "start", "selected", "matched", "written"} : step' = [step EXCEPT ![u] = s]
      BY <1>1 DEF MemoryStep, Ask, Unavailable, RefuseSave, SelectExisting, WriteFact, Match,
                  DeleteMatched, MarkMemory, Reply, Answered
    <3> QED BY <1>1, <3>1 DEF MemoryInv, MemoryTypes
  <2>2. row' # row
    BY <1>1
  <2>3. CASE WriteFact(u)
    BY <1>1, <2>1, <2>3, Writes
  <2>4. CASE DeleteMatched(u)
    BY <1>1, <2>4, DeletesWhat
  <2>5. CASE MarkMemory(u)
    BY <1>1, <2>5, MarksWhat
  <2> QED BY <1>1, <2>2, <2>3, <2>4, <2>5
            DEF MemoryStep, Ask, Unavailable, RefuseSave, SelectExisting, Match, Reply
<1>2. ASSUME MemoryInv, [MemoryNext]_memoryVars
      PROVE  [\A i \in Ids : \A t \in Workers : Returns(i, t) => row[i].by # ProcessOf[t]]_memoryVars
  BY <1>1, <1>2 DEF MemoryNext
<1> QED BY <1>2, MemoryInvHolds, PTL DEF MemorySpec, ForgottenStaysForgotten

-----------------------------------------------------------------------------
(* The promise of FactStore is kept.                                       *)

\* What is remembered of a key is what its live row holds.
LEMMA FactsAre ==
    ASSUME OneRowPerKey(row)
    PROVE  /\ Facts = [k \in Keys |-> Facts[k]]
           /\ \A k \in Keys : Holding(row, k) = {} => Facts[k] = Null
           /\ \A k \in Keys : \A i \in Holding(row, k) : Facts[k] = row[i].value
<1>1. \A k \in Keys : LiveIn({k}) = Holding(row, k)
  BY DEF LiveIn, Live, Holding
<1>2. \A k \in Keys : Facts[k] = IF LiveIn({k}) = {} THEN Null
                                 ELSE row[CHOOSE i \in LiveIn({k}) : TRUE].value
  BY DEF Facts
<1>3. ASSUME NEW k \in Keys, NEW i \in Holding(row, k)
      PROVE  (CHOOSE j \in LiveIn({k}) : TRUE) = i
  <2>1. i \in LiveIn({k}) /\ \A j \in LiveIn({k}) : j = i
    BY <1>1, <1>3 DEF OneRowPerKey
  <2> QED BY <2>1
<1>4. Facts = [k \in Keys |-> Facts[k]]
  BY DEF Facts
<1>5. ASSUME NEW k \in Keys, NEW i \in Holding(row, k)
      PROVE  Facts[k] = row[i].value
  BY <1>1, <1>2, <1>3, <1>5
<1> QED BY <1>1, <1>2, <1>4, <1>5

\* And so in the state after a step.
LEMMA FactsWillBe ==
    ASSUME OneRowPerKey(row')
    PROVE  /\ Facts' = [k \in Keys |-> Facts'[k]]
           /\ \A k \in Keys : Holding(row', k) = {} => Facts'[k] = Null
           /\ \A k \in Keys : \A i \in Holding(row', k) : Facts'[k] = row'[i].value
<1>1. \A k \in Keys : LiveIn({k})' = Holding(row', k)
  BY DEF LiveIn, Live, Holding
<1>2. \A k \in Keys : Facts'[k] = IF LiveIn({k})' = {} THEN Null
                                  ELSE row'[CHOOSE i \in LiveIn({k})' : TRUE].value
  BY DEF Facts
<1>3. ASSUME NEW k \in Keys, NEW i \in Holding(row', k)
      PROVE  (CHOOSE j \in LiveIn({k})' : TRUE) = i
  <2>1. i \in LiveIn({k})' /\ \A j \in LiveIn({k})' : j = i
    BY <1>1, <1>3 DEF OneRowPerKey
  <2> QED BY <2>1
<1>4. Facts' = [k \in Keys |-> Facts'[k]]
  BY DEF Facts
<1>5. ASSUME NEW k \in Keys, NEW i \in Holding(row', k)
      PROVE  Facts'[k] = row'[i].value
  BY <1>1, <1>2, <1>3, <1>5
<1> QED BY <1>1, <1>2, <1>4, <1>5

\* Who has been asked has a request.
LEMMA Asked ==
    ASSUME MemoryInv, NEW t \in Workers, step[t] # "idle"
    PROVE  call[t] \in Requests /\ call[t] # Null
BY DEF MemoryInv, MemoryTypes, Serving

\* An answer is an answer of the promise: "ok" for what has had its effect.
LEMMA AnswersAnswer ==
    ASSUME MemoryInv, NEW t \in Workers, step[t] # "idle",
           NEW answer \in {"ok", "refused", "unavailable"},
           call[t].kind \in {"save", "delete"} => (took[t] <=> answer = "ok"),
           Answered(t, answer), UNCHANGED <<row, took>>
    PROVE  Promise!Answer(t)
<1>1. Facts' = Facts
  BY DEF Facts, LiveIn, Live
<1>2. call[t] # Null
  BY Asked
<1> QED BY <1>1, <1>2 DEF Promise!Answer, Answered

\* The write of a save is the effect of the save.
LEMMA WritesSave ==
    ASSUME MemoryInv, MemoryInv', NEW t \in Workers, WriteFact(t)
    PROVE  Promise!Save(t)
<1>1. /\ step[t] = "selected" /\ call[t] \in Requests
      /\ call[t].key \in Keys /\ call[t].value \in Storable
  BY Writes
<1>2. PICK i \in Ids :
          /\ row[i] # Null => row[i].key = call[t].key
          /\ row'[i] # Null
          /\ row'[i].key = call[t].key /\ row'[i].value = call[t].value /\ row'[i].status = "ACTIVE"
          /\ \A j \in Ids \ {i} : row'[j] = row[j]
  BY Writes
<1>3. OneRowPerKey(row) /\ OneRowPerKey(row')
  BY DEF MemoryInv, OneRowPerKey, Holding
<1>4. Facts'[call[t].key] = call[t].value
  BY <1>1, <1>2, <1>3, FactsWillBe DEF Holding
<1>5. ASSUME NEW k \in Keys, k # call[t].key
      PROVE  Facts'[k] = Facts[k]
  <2>1. Holding(row', k) = Holding(row, k) /\ \A j \in Holding(row, k) : row'[j] = row[j]
    BY <1>2, <1>5 DEF Holding
  <2>2. CASE Holding(row, k) = {}
    BY <1>3, <2>1, <2>2, FactsAre, FactsWillBe
  <2>3. CASE Holding(row, k) # {}
    <3>1. PICK j \in Holding(row, k) : TRUE
      BY <2>3
    <3> QED BY <1>3, <2>1, <3>1, FactsAre, FactsWillBe
  <2> QED BY <2>2, <2>3
<1>6. Facts' = [Facts EXCEPT ![call[t].key] = call[t].value]
  <2>1. Facts = [k \in Keys |-> Facts[k]] /\ Facts' = [k \in Keys |-> Facts'[k]]
    BY <1>3, FactsAre, FactsWillBe
  <2> QED BY <1>1, <1>4, <1>5, <2>1
<1>7. call[t] # Null /\ call[t].kind = "save" /\ took[t] = FALSE
  BY <1>1, NoneAssumption DEF MemoryInv, Serving
<1>8. /\ took' = [took EXCEPT ![t] = TRUE]
      /\ fresh' = [u \in Workers |-> fresh[u] \cup {call[t].key}]
      /\ UNCHANGED <<call, told>>
  BY DEF WriteFact
<1> QED BY <1>1, <1>6, <1>7, <1>8 DEF Promise!Save

\* A delete that matches nothing has nothing to forget.
LEMMA MatchesForget ==
    ASSUME MemoryInv, MemoryInv', NEW t \in Workers, Match(t)
    PROVE  Promise!Forget(t) \/ UNCHANGED Promise!vars
<1> DEFINE matching == LiveIn(call[t].scope) \cap call[t].ids
           gone == IF call[t].one THEN {} ELSE call[t].scope
<1>1. /\ step[t] = "start" /\ call[t] \in Requests /\ call[t] # Null /\ call[t].kind = "delete"
      /\ took[t] = FALSE
  BY DEF MemoryInv, MemoryTypes, Serving, Match
<1>2. /\ took' = [took EXCEPT ![t] = matching = {}]
      /\ UNCHANGED <<row, call, told, fresh>>
  BY DEF Match
<1>3. Facts' = Facts
  BY <1>2 DEF Facts, LiveIn, Live
<1>4. CASE matching # {}
  <2>1. took' = took
    BY <1>1, <1>2, <1>4 DEF MemoryInv, MemoryTypes
  <2> QED BY <1>2, <1>3, <2>1 DEF Promise!vars
<1>5. CASE matching = {}
  <2>1. gone \in SUBSET call[t].scope /\ call[t].scope \in SUBSET Keys
    BY <1>1, RequestIs
  <2>2. call[t].one => gone = {}
    OBVIOUS
  <2>3. ~call[t].one => call[t].scope \ fresh[t] \subseteq gone
    OBVIOUS
  <2>4. \A k \in gone : Facts[k] = Null
    <3>1. \A k \in gone : Holding(row, k) = {}
      BY <1>1, <1>5, <2>1, RequestIs DEF Holding, LiveIn, Live
    <3> QED BY <2>1, <3>1, FactsAre DEF MemoryInv
  <2>5. Facts = [k \in Keys |-> Facts[k]]
    BY FactsAre DEF MemoryInv
  <2> HIDE DEF gone
  <2>6. Facts' = [k \in Keys |-> IF k \in gone THEN Null ELSE Facts[k]]
    BY <1>3, <2>4, <2>5
  <2>7. took' = [took EXCEPT ![t] = TRUE]
    BY <1>2, <1>5
  <2>8. \E g \in SUBSET call[t].scope :
            /\ call[t].one => \A j, k \in g : j = k
            /\ ~call[t].one => call[t].scope \ fresh[t] \subseteq g
            /\ Facts' = [k \in Keys |-> IF k \in g THEN Null ELSE Facts[k]]
    BY <2>1, <2>2, <2>3, <2>6
  <2>9. ~took[t] /\ UNCHANGED <<call, fresh, told>>
    BY <1>1, <1>2
  <2> QED BY <1>1, <2>7, <2>8, <2>9 DEF Promise!Forget
<1> QED BY <1>4, <1>5

\* A delete forgets the keys that are left without a live row.
LEMMA DeletesForget ==
    ASSUME MemoryInv, MemoryInv', NEW t \in Workers, DeleteMatched(t)
    PROVE  Promise!Forget(t)
<1> DEFINE taken == {row[i].key : i \in seen[t]}
           gone == {k \in IF call[t].one THEN taken ELSE call[t].scope : Holding(row', k) = {}}
<1>1. /\ step[t] = "matched" /\ took' = [took EXCEPT ![t] = TRUE]
      /\ UNCHANGED <<call, told, fresh>>
  BY DEF DeleteMatched
<1>2. /\ call[t] \in Requests /\ call[t] # Null /\ call[t].kind = "delete" /\ took[t] = FALSE
  BY <1>1 DEF MemoryInv, MemoryTypes, Serving
<1>3. call[t].scope \in SUBSET Keys
  BY <1>2, RequestIs
<1>4. /\ seen[t] \in SUBSET Ids
      /\ call[t].one => \E i \in Ids : seen[t] = {i}
      /\ \A i \in seen[t] : row[i] # Null /\ row[i].key \in call[t].scope
      /\ ~call[t].one => \A k \in call[t].scope \ fresh[t] : Holding(row, k) \subseteq seen[t]
  BY <1>1 DEF MemoryInv, MemoryTypes, DeleteKnows
<1>5. taken \in SUBSET call[t].scope
  BY <1>4
<1>6. \A k \in Keys : Holding(row', k) = Holding(row, k) \ seen[t]
  BY <1>4, DeletesWhat DEF Holding
<1>7. call[t].one => \A j, k \in gone : j = k
  BY <1>4
<1>8. ~call[t].one => call[t].scope \ fresh[t] \subseteq gone
  BY <1>3, <1>4, <1>6
<1>9. gone \in SUBSET call[t].scope
  BY <1>5
<1>10. OneRowPerKey(row) /\ OneRowPerKey(row')
  BY DEF MemoryInv, OneRowPerKey, Holding
<1>11. \A k \in gone : Facts'[k] = Null
  BY <1>3, <1>9, <1>10, FactsWillBe
<1>12. ASSUME NEW k \in Keys \ gone
       PROVE  Facts'[k] = Facts[k]
  <2>1. CASE Holding(row', k) = {}
    <3>1. Holding(row, k) = {}
      BY <1>4, <1>5, <1>6, <1>12, <2>1 DEF Holding
    <3> QED BY <1>10, <2>1, <3>1, FactsAre, FactsWillBe
  <2>2. CASE Holding(row', k) # {}
    <3>1. PICK i \in Holding(row', k) : TRUE
      BY <2>2
    <3>2. i \in Holding(row, k) /\ i \in Ids \ seen[t]
      BY <1>6, <3>1 DEF Holding
    <3>3. row'[i].value = row[i].value
      BY <3>2, DeletesWhat
    <3> QED BY <1>10, <3>1, <3>2, <3>3, FactsAre, FactsWillBe
  <2> QED BY <2>1, <2>2
<1> HIDE DEF gone
<1>13. Facts' = [k \in Keys |-> IF k \in gone THEN Null ELSE Facts[k]]
  <2>1. Facts' = [k \in Keys |-> Facts'[k]]
    BY <1>10, FactsWillBe
  <2> QED BY <1>11, <1>12, <2>1
<1>14. \E g \in SUBSET call[t].scope :
          /\ call[t].one => \A j, k \in g : j = k
          /\ ~call[t].one => call[t].scope \ fresh[t] \subseteq g
          /\ Facts' = [k \in Keys |-> IF k \in g THEN Null ELSE Facts[k]]
  BY <1>7, <1>8, <1>9, <1>13
<1>15. ~took[t] /\ UNCHANGED <<call, fresh, told>>
  BY <1>1, <1>2
<1> QED BY <1>1, <1>2, <1>14, <1>15 DEF Promise!Forget

\* A mark changes no fact.
LEMMA MarksNothing ==
    ASSUME MemoryInv, MemoryInv', NEW t \in Workers, MarkMemory(t)
    PROVE  UNCHANGED Promise!vars
<1>1. OneRowPerKey(row) /\ OneRowPerKey(row')
  BY DEF MemoryInv, OneRowPerKey, Holding
<1>2. \A k \in Keys : /\ Holding(row', k) = Holding(row, k)
                      /\ \A i \in Holding(row, k) : row'[i].value = row[i].value
  BY MarksWhat DEF Holding
<1>3. ASSUME NEW k \in Keys
      PROVE  Facts'[k] = Facts[k]
  <2>1. CASE Holding(row, k) = {}
    BY <1>1, <1>2, <2>1, FactsAre, FactsWillBe
  <2>2. CASE Holding(row, k) # {}
    <3>1. PICK i \in Holding(row, k) : TRUE
      BY <2>2
    <3> QED BY <1>1, <1>2, <3>1, FactsAre, FactsWillBe
  <2> QED BY <2>1, <2>2
<1>4. Facts' = Facts
  <2>1. Facts = [k \in Keys |-> Facts[k]] /\ Facts' = [k \in Keys |-> Facts'[k]]
    BY <1>1, FactsAre, FactsWillBe
  <2> QED BY <1>3, <2>1
<1> QED BY <1>4 DEF MarkMemory, Promise!vars

\* The store implements FactStore, for any number of processes and threads:
\* a save or a delete has its effect in one step of the database.
THEOREM StoreImplements == MemorySpec => ImplementsFactStore
<1>1. ASSUME MemoryInit
      PROVE  Promise!Init
  <2>1. Facts = [k \in Keys |-> Null]
    BY <1>1 DEF MemoryInit, Facts, LiveIn, Live
  <2> QED BY <1>1, <2>1 DEF MemoryInit, Promise!Init
<1>2. ASSUME MemoryInv, MemoryInv', NEW t \in Workers, MemoryStep(t)
      PROVE  Promise!Next \/ UNCHANGED Promise!vars
  <2>1. CASE \E q \in Requests : Ask(t, q)
    <3>1. Facts' = Facts
      BY <2>1 DEF Ask, Facts, LiveIn, Live
    <3>2. Promise!Ask(t)
      BY <2>1, <3>1 DEF Ask, Promise!Ask
    <3> QED BY <3>2 DEF Promise!Next
  <2>2. CASE Unavailable(t)
    <3>1. Promise!Answer(t)
      BY <1>2, <2>2, AnswersAnswer DEF MemoryInv, Serving, Unavailable
    <3> QED BY <3>1 DEF Promise!Next
  <2>3. CASE RefuseSave(t)
    <3>1. Promise!Answer(t)
      BY <1>2, <2>3, AnswersAnswer DEF MemoryInv, Serving, RefuseSave
    <3> QED BY <3>1 DEF Promise!Next
  <2>4. CASE Reply(t)
    <3>1. Promise!Answer(t)
      BY <1>2, <2>4, AnswersAnswer DEF MemoryInv, Serving, Reply
    <3> QED BY <3>1 DEF Promise!Next
  <2>5. CASE SelectExisting(t)
    <3>1. Facts' = Facts
      BY <2>5 DEF SelectExisting, Facts, LiveIn, Live
    <3> QED BY <2>5, <3>1 DEF SelectExisting, Promise!vars
  <2>6. CASE WriteFact(t)
    BY <1>2, <2>6, WritesSave DEF Promise!Next
  <2>7. CASE Match(t)
    BY <1>2, <2>7, MatchesForget DEF Promise!Next
  <2>8. CASE DeleteMatched(t)
    BY <1>2, <2>8, DeletesForget DEF Promise!Next
  <2>9. CASE MarkMemory(t)
    BY <1>2, <2>9, MarksNothing
  <2> QED BY <1>2, <2>1, <2>2, <2>3, <2>4, <2>5, <2>6, <2>7, <2>8, <2>9 DEF MemoryStep
<1>3. ASSUME UNCHANGED memoryVars
      PROVE  UNCHANGED Promise!vars
  <2>1. row' = row /\ call' = call /\ took' = took /\ fresh' = fresh /\ told' = told
    BY <1>3 DEF memoryVars
  <2>2. Facts' = Facts
    BY <2>1 DEF Facts, LiveIn, Live
  <2> QED BY <2>1, <2>2 DEF Promise!vars
<1>4. ASSUME MemoryInv, MemoryInv', [MemoryNext]_memoryVars
      PROVE  [Promise!Next]_(Promise!vars)
  <2>1. CASE MemoryNext
    <3>1. PICK t \in Workers : MemoryStep(t)
      BY <2>1 DEF MemoryNext
    <3>2. Promise!Next \/ UNCHANGED Promise!vars
      BY <1>2, <1>4, <3>1
    <3> QED BY <3>2
  <2> QED BY <1>3, <1>4, <2>1
<1> QED BY <1>1, <1>4, MemoryInvHolds, PTL DEF MemorySpec, ImplementsFactStore, Promise!Spec

(***************************************************************************)
(* Verification, for any budget and any classification of the checks: the  *)
(* verdict is honest. Induction needs what an answer that was gathered     *)
(* says of the world of its moment, and that the check a rule rests on has *)
(* been made, or something kept it from answering.                         *)
(***************************************************************************)

Observable == {"process", "process_stopped", "local_service", "application"}

VerificationTypes ==
    /\ act \in Actions
    /\ world \in Worlds
    /\ stage \in {"returned", "checking", "settling", "judging", "judged", "told"}
    /\ gathered \in [Checks -> Answer]
    /\ verdict \in Verdicts \cup {Unread}
    /\ trouble \in BOOLEAN

\* The check without which the rule of a strategy says nothing.
RestsOn(strategy) ==
    IF strategy \in ProcessStrategies THEN "process_status"
    ELSE IF strategy = "local_service" THEN "check_local_service" ELSE "running_processes"

\* It has answered, or something is in the way.
Heard == trouble \/ gathered[RestsOn(act.strategy)] \notin {Unread, "refused"}

\* Nothing is said before all is judged, and what failed is judged at once.
NotYetSaid ==
    /\ stage \notin {"judged", "told"} => verdict = Unread /\ announced = Unread
    /\ announced = "ERROR" => verdict = "FAILED"
    /\ stage \in {"checking", "settling", "judging"} =>
         act.said # "failed" /\ act.strategy \in Observable

\* What is left of the plan.
PlanLeft ==
    /\ stage = "checking" =>
         \/ todo = <<RestsOn(act.strategy)>>
         \/ act.strategy = "process" /\ todo = <<"process_status", "check_local_service">>
         \/ act.strategy = "process" /\ todo = <<"check_local_service">> /\ Heard
    /\ stage \in {"settling", "judging"} => Heard

\* An answer was true when it was given.
AnswersWereTrue ==
    /\ TrueOf(world) \subseteq been
    /\ gathered["process_status"] \in {Unread, "refused", "alive", "dead"}
    /\ gathered["process_status"] = "alive" => "alive" \in been
    /\ gathered["process_status"] = "dead" => "not alive" \in been
    /\ gathered["check_local_service"] \in {Unread, "refused", "answers", "silent"}
    /\ gathered["check_local_service"] = "answers" => "answering" \in been
    /\ gathered["check_local_service"] = "silent" => "silent" \in been
    /\ gathered["running_processes"] = "found" => "app is up" \in been

VerificationInv ==
    VerificationTypes /\ NotYetSaid /\ PlanLeft /\ AnswersWereTrue /\ VerdictIsHonest

-----------------------------------------------------------------------------

\* A verdict stays honest when more becomes true.
LEMMA StaysHonest ==
    ASSUME VerdictIsHonest, UNCHANGED <<act, verdict, announced>>, been \subseteq been',
           trouble => trouble'
    PROVE  VerdictIsHonest'
BY DEF VerdictIsHonest, SuccessWasTrue, FailureWasTrue

\* Before there is a verdict, there is nothing to be dishonest about.
LEMMA NothingSaid ==
    ASSUME verdict = Unread, announced = Unread
    PROVE  VerdictIsHonest
BY UnreadAssumption DEF VerdictIsHonest, SuccessWasTrue, FailureWasTrue

\* And so after a step.
LEMMA NothingSaidYet ==
    ASSUME verdict' = Unread, announced' = Unread
    PROVE  VerdictIsHonest'
BY UnreadAssumption DEF VerdictIsHonest, SuccessWasTrue, FailureWasTrue

\* What the goals need and what speaks against them.
LEMMA Goals ==
    /\ Needs["process"] = {"alive", "answering"} /\ Needs["process_stopped"] = {"not alive"}
    /\ Needs["local_service"] = {"answering"} /\ Needs["application"] = {"app is up"}
    /\ Needs["exit_code"] = {}
    /\ Against["process"] = {"not alive"} /\ Against["process_stopped"] = {"alive"}
    /\ Against["local_service"] = {"silent"}
BY DEF Needs, Against

\* The action has just returned.
LEMMA InitHonest == VerificationInit => VerificationInv
<1> SUFFICES ASSUME VerificationInit PROVE VerificationInv
  OBVIOUS
<1> USE DEF VerificationInit, ToVerify, NothingDone
<1>1. VerificationTypes
  BY DEF VerificationTypes, Answer
<1>2. NotYetSaid /\ PlanLeft
  BY UnreadAssumption DEF NotYetSaid, PlanLeft
<1>3. AnswersWereTrue
  BY UnreadAssumption DEF AnswersWereTrue, Checks
<1> QED BY <1>1, <1>2, <1>3, NothingSaid DEF VerificationInv

\* A failure the tool reports itself.
LEMMA SelfReportedHonest ==
    ASSUME VerificationInv, SelfReported
    PROVE  VerificationInv'
<1>1. /\ stage' = "judged" /\ verdict' = "FAILED" /\ act.said = "failed" /\ announced = Unread
      /\ UNCHANGED <<act, level, budget, world, todo, gathered, spent, retries, announced, been, trouble>>
  BY DEF VerificationInv, NotYetSaid, SelfReported, Judged
<1>2. VerificationTypes' /\ NotYetSaid' /\ PlanLeft' /\ AnswersWereTrue'
  BY <1>1, UnreadAssumption DEF VerificationInv, VerificationTypes, Verdicts, NotYetSaid,
        PlanLeft, AnswersWereTrue,
                                TrueOf
<1>3. VerdictIsHonest'
  BY <1>1 DEF VerdictIsHonest, SuccessWasTrue, FailureWasTrue
<1> QED BY <1>2, <1>3 DEF VerificationInv

\* The plan, or the verdict that needs none.
LEMMA MakePlanHonest ==
    ASSUME VerificationInv, MakePlan
    PROVE  VerificationInv'
<1>1. /\ stage = "returned" /\ act.said # "failed" /\ todo' = Plan
      /\ trouble' = (Plan = <<>> /\ act.strategy # "exit_code")
      /\ UNCHANGED <<act, level, budget, world, gathered, spent, retries, announced, been>>
      /\ verdict = Unread /\ announced = Unread
      /\ act \in Actions
  BY DEF VerificationInv, VerificationTypes, NotYetSaid, MakePlan
<1>2. AnswersWereTrue'
  BY <1>1 DEF VerificationInv, AnswersWereTrue, TrueOf
<1>3. CASE act.strategy = "exit_code"
  <2>1. stage' = "judged" /\ verdict' = ExitCode
    BY <1>3 DEF MakePlan, Judged
  <2>2. /\ verdict' \in {"SUCCESS", "FAILED", "UNKNOWN"}
        /\ verdict' = "SUCCESS" => act.said = "done" /\ act.code = "zero"
        /\ verdict' = "FAILED" => act.said # "done" \/ act.code = "other"
        /\ verdict' = "UNKNOWN" => act.code = "none"
    BY <1>1, <2>1 DEF ExitCode, Actions
  <2>3. VerificationTypes'
    BY <1>1, <2>1, <2>2 DEF VerificationInv, VerificationTypes, Verdicts
  <2>4. NotYetSaid' /\ PlanLeft'
    BY <1>1, <2>1, UnreadAssumption DEF NotYetSaid, PlanLeft
  <2>5. VerdictIsHonest'
    BY <1>1, <1>3, <2>2, Goals, UnreadAssumption DEF VerdictIsHonest, SuccessWasTrue,
          FailureWasTrue
  <2> QED BY <1>2, <2>3, <2>4, <2>5 DEF VerificationInv
<1>4. CASE act.strategy # "exit_code" /\ Plan = <<>>
  <2>1. stage' = "judged" /\ verdict' = "UNKNOWN" /\ trouble' = TRUE
    BY <1>1, <1>4 DEF MakePlan, Judged
  <2>2. VerificationTypes' /\ NotYetSaid' /\ PlanLeft'
    BY <1>1, <2>1, UnreadAssumption DEF VerificationInv, VerificationTypes, Verdicts,
          NotYetSaid, PlanLeft
  <2>3. VerdictIsHonest'
    BY <1>1, <2>1, UnreadAssumption DEF VerdictIsHonest, SuccessWasTrue, FailureWasTrue
  <2> QED BY <1>2, <2>2, <2>3 DEF VerificationInv
<1>5. CASE act.strategy # "exit_code" /\ Plan # <<>>
  <2>1. stage' = "checking" /\ verdict' = verdict /\ trouble' = FALSE
    BY <1>1, <1>5 DEF MakePlan
  <2>2. /\ act.strategy \in Observable
        /\ \/ Plan = <<RestsOn(act.strategy)>>
           \/ act.strategy = "process" /\ Plan = <<"process_status", "check_local_service">>
    BY <1>1, <1>5 DEF Plan, Observable, RestsOn, ProcessStrategies, Actions, Strategies
  <2>3. VerificationTypes' /\ NotYetSaid' /\ PlanLeft'
    BY <1>1, <2>1, <2>2, UnreadAssumption
       DEF VerificationInv, VerificationTypes, NotYetSaid, PlanLeft
  <2> QED BY <1>1, <1>2, <2>1, <2>3, NothingSaidYet DEF VerificationInv
<1> QED BY <1>3, <1>4, <1>5

\* What a check can be told, and what that says of the world.
LEMMA AnswersAreTrue ==
    ASSUME VerificationInv, NEW c \in Checks, NEW answer \in Answer, CallSafe(c, answer)
    PROVE  /\ c = "process_status" =>
                /\ answer \in {Unread, "refused", "alive", "dead"}
                /\ answer = "alive" => "alive" \in been
                /\ answer = "dead" => "not alive" \in been
           /\ c = "check_local_service" =>
                /\ answer \in {Unread, "refused", "answers", "silent"}
                /\ answer = "answers" => "answering" \in been
                /\ answer = "silent" => "silent" \in been
           /\ c = "running_processes" => (answer = "found" => "app is up" \in been)
<1>1. answer \in Answers(c) \cup {Unread}
  BY DEF CallSafe
<1>2. world.proc \in {"alive", "dead", "forgotten"} /\ world.port \in BOOLEAN /\ world.app \in BOOLEAN
  BY DEF VerificationInv, VerificationTypes, Worlds
<1>3. TrueOf(world) \subseteq been
  BY DEF VerificationInv, AnswersWereTrue
<1>4. CASE c = "process_status"
  BY <1>1, <1>2, <1>3, <1>4, UnreadAssumption DEF Answers, TrueOf
<1>5. CASE c = "check_local_service"
  BY <1>1, <1>2, <1>3, <1>5, UnreadAssumption DEF Answers, TrueOf
<1>6. CASE c = "running_processes"
  BY <1>1, <1>2, <1>3, <1>6, UnreadAssumption DEF Answers, TrueOf
<1> QED BY <1>4, <1>5, <1>6 DEF Checks

\* A check of the plan.
LEMMA CheckHonest ==
    ASSUME VerificationInv, NEW answer \in Answer, Check(answer)
    PROVE  VerificationInv'
<1> DEFINE c == Head(todo)
<1>1. /\ stage = "checking" /\ CallSafe(c, answer)
      /\ gathered' = [gathered EXCEPT ![c] = answer]
      /\ todo' = Tail(todo)
      /\ stage' = IF todo' = <<>> THEN "settling" ELSE "checking"
      /\ trouble' = (trouble \/ answer \in {Unread, "refused"})
      /\ UNCHANGED <<act, level, budget, world, retries, verdict, announced, been>>
  BY DEF Check, Trouble
<1>2. act.said # "failed" /\ act.strategy \in Observable
  BY <1>1 DEF VerificationInv, NotYetSaid
<1>3. RestsOn(act.strategy) \in Checks
  BY DEF RestsOn, Checks
<1>4. \/ c = RestsOn(act.strategy) /\ Tail(todo) = <<>>
      \/ /\ act.strategy = "process" /\ c = "process_status"
         /\ Tail(todo) = <<"check_local_service">>
      \/ act.strategy = "process" /\ c = "check_local_service" /\ Tail(todo) = <<>> /\ Heard
  <2>1. \/ todo = <<RestsOn(act.strategy)>>
        \/ act.strategy = "process" /\ todo = <<"process_status", "check_local_service">>
        \/ act.strategy = "process" /\ todo = <<"check_local_service">> /\ Heard
    BY <1>1 DEF VerificationInv, PlanLeft
  <2>2. \A a : Head(<<a>>) = a /\ Tail(<<a>>) = <<>>
    OBVIOUS
  <2>3. Head(<<"process_status", "check_local_service">>) = "process_status"
        /\ Tail(<<"process_status", "check_local_service">>) = <<"check_local_service">>
    OBVIOUS
  <2> QED BY <2>1, <2>2, <2>3
<1>5. c \in Checks
  BY <1>3, <1>4 DEF Checks
<1>6. act.strategy = "process" => RestsOn(act.strategy) = "process_status"
  BY DEF RestsOn, ProcessStrategies
<1>7. gathered \in [Checks -> Answer] /\ gathered'[c] = answer
      /\ \A d \in Checks : d # c => gathered'[d] = gathered[d]
  BY <1>1, <1>5 DEF VerificationInv, VerificationTypes
<1> HIDE DEF c
<1>8. VerificationTypes'
  BY <1>1, <1>5 DEF VerificationInv, VerificationTypes
<1>9. NotYetSaid'
  BY <1>1, <1>2 DEF VerificationInv, NotYetSaid
<1>10. c = RestsOn(act.strategy) \/ Heard => Heard'
  BY <1>1, <1>3, <1>7 DEF Heard
<1>11. PlanLeft'
  BY <1>1, <1>4, <1>6, <1>10 DEF PlanLeft
<1>12. AnswersWereTrue'
  BY <1>1, <1>5, <1>7, AnswersAreTrue DEF VerificationInv, AnswersWereTrue, TrueOf, Checks
<1> QED BY <1>1, <1>8, <1>9, <1>11, <1>12, StaysHonest DEF VerificationInv

\* The service is asked again.
LEMMA SettleHonest ==
    ASSUME VerificationInv, NEW answer \in Answer, Settle(answer)
    PROVE  VerificationInv'
<1>1. /\ stage = "settling" /\ act.strategy = "process"
      /\ CallSafe("check_local_service", answer)
      /\ gathered' = IF answer = Unread THEN gathered
                     ELSE [gathered EXCEPT !["check_local_service"] = answer]
      /\ stage' = "judging"
      /\ trouble' = (trouble \/ answer \in {Unread, "refused"})
      /\ UNCHANGED <<act, level, budget, world, todo, verdict, announced, been>>
  BY DEF Settle, MaySettle, Trouble
<1>2. /\ gathered \in [Checks -> Answer]
      /\ gathered'["process_status"] = gathered["process_status"]
      /\ gathered'["running_processes"] = gathered["running_processes"]
      /\ gathered'["check_local_service"] \in {answer, gathered["check_local_service"]}
  BY <1>1 DEF VerificationInv, VerificationTypes, Checks
<1>3. VerificationTypes'
  BY <1>1 DEF VerificationInv, VerificationTypes, Checks
<1>4. NotYetSaid'
  BY <1>1 DEF VerificationInv, NotYetSaid
<1>5. PlanLeft'
  BY <1>1, <1>2 DEF VerificationInv, PlanLeft, Heard, RestsOn, ProcessStrategies
<1>6. AnswersWereTrue'
  BY <1>1, <1>2, AnswersAreTrue DEF VerificationInv, AnswersWereTrue, TrueOf, Checks
<1> QED BY <1>1, <1>3, <1>4, <1>5, <1>6, StaysHonest DEF VerificationInv

\* The rules are honest about the answers.
LEMMA JudgeHonest ==
    ASSUME VerificationInv, Judge
    PROVE  VerificationInv'
<1> DEFINE status == gathered["process_status"]
           service == gathered["check_local_service"]
           running == gathered["running_processes"]
<1>1. /\ stage \in {"settling", "judging"} /\ stage' = "judged" /\ verdict' = Rule
      /\ UNCHANGED <<act, level, budget, world, todo, gathered, spent, retries, announced, been, trouble>>
  BY DEF Judge, Judged
<1>2. act.said # "failed" /\ act.strategy \in Observable /\ announced = Unread /\ Heard
  BY <1>1 DEF VerificationInv, NotYetSaid, PlanLeft
<1>3. /\ status \in {Unread, "refused", "alive", "dead"}
      /\ status = "alive" => "alive" \in been
      /\ status = "dead" => "not alive" \in been
      /\ service \in {Unread, "refused", "answers", "silent"}
      /\ service = "answers" => "answering" \in been
      /\ service = "silent" => "silent" \in been
      /\ running = "found" => "app is up" \in been
  BY DEF VerificationInv, AnswersWereTrue
<1>4. verdict' \in Verdicts => VerificationTypes' /\ NotYetSaid' /\ PlanLeft' /\ AnswersWereTrue'
  <2>1. verdict' \in Verdicts => VerificationTypes'
    BY <1>1 DEF VerificationInv, VerificationTypes
  <2>2. NotYetSaid' /\ PlanLeft'
    BY <1>1, <1>2, UnreadAssumption DEF NotYetSaid, PlanLeft
  <2>3. AnswersWereTrue'
    BY <1>1 DEF VerificationInv, AnswersWereTrue, TrueOf
  <2> QED BY <2>1, <2>2, <2>3
<1>5. CASE act.strategy = "process"
  <2>1. verdict' = ProcessRunning(status, service) /\ (trouble \/ status \notin {Unread, "refused"})
    BY <1>1, <1>2, <1>5 DEF Rule, Heard, RestsOn, ProcessStrategies
  <2> HIDE DEF status, service, running
  <2>2. /\ verdict' \in Verdicts
        /\ verdict' = "SUCCESS" => Needs[act.strategy] \subseteq been
        /\ verdict' = "PARTIAL_SUCCESS" => "alive" \in been
        /\ verdict' = "FAILED" => Against[act.strategy] \cap been # {}
        /\ verdict' = "UNKNOWN" => trouble
    BY <1>3, <1>5, <2>1, Goals, UnreadAssumption, ZenonT(30) DEF ProcessRunning, Verdicts
  <2>3. VerdictIsHonest'
    BY <1>1, <1>2, <1>5, <2>2, UnreadAssumption DEF VerdictIsHonest, SuccessWasTrue,
          FailureWasTrue
  <2> QED BY <1>4, <2>2, <2>3 DEF VerificationInv
<1>6. CASE act.strategy = "process_stopped"
  <2>1. verdict' = ProcessStopped(status) /\ (trouble \/ status \notin {Unread, "refused"})
    BY <1>1, <1>2, <1>6 DEF Rule, Heard, RestsOn, ProcessStrategies
  <2> HIDE DEF status, service, running
  <2>2. /\ verdict' \in Verdicts \ {"PARTIAL_SUCCESS"}
        /\ verdict' = "SUCCESS" => Needs[act.strategy] \subseteq been
        /\ verdict' = "FAILED" => Against[act.strategy] \cap been # {}
        /\ verdict' = "UNKNOWN" => trouble
    BY <1>3, <1>6, <2>1, Goals, UnreadAssumption DEF ProcessStopped, Verdicts
  <2>3. VerdictIsHonest'
    BY <1>1, <1>2, <1>6, <2>2, UnreadAssumption DEF VerdictIsHonest, SuccessWasTrue,
          FailureWasTrue
  <2> QED BY <1>4, <2>2, <2>3 DEF VerificationInv
<1>7. CASE act.strategy = "local_service"
  <2>1. verdict' = LocalService(service) /\ (trouble \/ service \notin {Unread, "refused"})
    BY <1>1, <1>2, <1>7 DEF Rule, Heard, RestsOn, ProcessStrategies
  <2> HIDE DEF status, service, running
  <2>2. /\ verdict' \in Verdicts \ {"PARTIAL_SUCCESS"}
        /\ verdict' = "SUCCESS" => Needs[act.strategy] \subseteq been
        /\ verdict' = "FAILED" => Against[act.strategy] \cap been # {}
        /\ verdict' = "UNKNOWN" => trouble
    BY <1>3, <1>7, <2>1, Goals, UnreadAssumption DEF LocalService, Verdicts
  <2>3. VerdictIsHonest'
    BY <1>1, <1>2, <1>7, <2>2, UnreadAssumption DEF VerdictIsHonest, SuccessWasTrue,
          FailureWasTrue
  <2> QED BY <1>4, <2>2, <2>3 DEF VerificationInv
<1>8. CASE act.strategy = "application"
  <2>1. verdict' = Application(running)
    BY <1>1, <1>8 DEF Rule
  <2> HIDE DEF status, service, running
  <2>2. /\ verdict' \in {"SUCCESS", "UNKNOWN"}
        /\ verdict' = "SUCCESS" => Needs[act.strategy] \subseteq been
    BY <1>3, <1>8, <2>1, Goals, ZenonT(30) DEF Application
  <2>3. VerdictIsHonest'
    BY <1>1, <1>2, <1>8, <2>2, UnreadAssumption DEF VerdictIsHonest, SuccessWasTrue,
          FailureWasTrue
  <2> QED BY <1>4, <2>2, <2>3 DEF Verdicts, VerificationInv
<1> QED BY <1>2, <1>5, <1>6, <1>7, <1>8 DEF Observable

\* What was found out is given up.
LEMMA TimeoutHonest ==
    ASSUME VerificationInv, VerificationTimesOut
    PROVE  VerificationInv'
<1>1. /\ stage \in {"checking", "settling"} /\ stage' = "judged" /\ verdict' = "UNKNOWN" /\ trouble' = TRUE
      /\ UNCHANGED <<act, level, budget, world, todo, gathered, spent, retries, announced, been>>
  BY DEF VerificationTimesOut, Awaiting, Judged
<1>2. announced = Unread
  BY <1>1 DEF VerificationInv, NotYetSaid
<1>3. VerificationTypes' /\ NotYetSaid' /\ PlanLeft' /\ AnswersWereTrue'
  BY <1>1, <1>2, UnreadAssumption
     DEF VerificationInv, VerificationTypes, Verdicts, NotYetSaid, PlanLeft, AnswersWereTrue, TrueOf
<1>4. VerdictIsHonest'
  BY <1>1, <1>2, UnreadAssumption DEF VerdictIsHonest, SuccessWasTrue, FailureWasTrue
<1> QED BY <1>3, <1>4 DEF VerificationInv

\* Only a FAILED action is announced as an ERROR.
LEMMA RecordHonest ==
    ASSUME VerificationInv, RecordOutcome
    PROVE  VerificationInv'
<1>1. /\ stage = "judged" /\ stage' = "told" /\ announced' = Severity
      /\ UNCHANGED <<act, level, budget, world, todo, gathered, spent, retries, verdict, been, trouble>>
  BY DEF RecordOutcome
<1>2. announced' = "ERROR" => verdict = "FAILED"
  BY <1>1, UnreadAssumption DEF Severity
<1>3. VerificationTypes' /\ NotYetSaid' /\ PlanLeft' /\ AnswersWereTrue'
  BY <1>1, <1>2, ZenonT(30) DEF VerificationInv, VerificationTypes, NotYetSaid, PlanLeft, AnswersWereTrue,
        TrueOf
<1>4. VerdictIsHonest'
  BY <1>1, <1>2 DEF VerificationInv, VerdictIsHonest, SuccessWasTrue, FailureWasTrue
<1> QED BY <1>3, <1>4 DEF VerificationInv

\* The machine goes on.
LEMMA WorldMovesHonest ==
    ASSUME VerificationInv, NEW w \in Worlds, WorldMoves(w)
    PROVE  VerificationInv'
<1>1. /\ world' = w /\ been' = been \cup TrueOf(w)
      /\ UNCHANGED <<act, level, budget, stage, todo, gathered, spent, retries, verdict, announced, trouble>>
  BY DEF WorldMoves
<1>2. VerificationTypes' /\ NotYetSaid'
  BY <1>1 DEF VerificationInv, VerificationTypes, NotYetSaid
<1>3. PlanLeft'
  BY <1>1 DEF VerificationInv, PlanLeft, Heard
<1>4. AnswersWereTrue'
  BY <1>1 DEF VerificationInv, AnswersWereTrue, TrueOf
<1>5. VerdictIsHonest'
  BY <1>1, StaysHonest DEF VerificationInv
<1> QED BY <1>2, <1>3, <1>4, <1>5 DEF VerificationInv

\* Whatever happens to the machine and to the checks, what was announced of an
\* action was so, and an UNKNOWN has a reason.
THEOREM HonestyHolds == VerificationSpec => []VerdictIsHonest
<1>1. ASSUME VerificationInv, [VerificationNext]_verificationVars
      PROVE  VerificationInv'
  <2>1. CASE VerificationNext
    BY <1>1, <2>1, SelfReportedHonest, MakePlanHonest, JudgeHonest, TimeoutHonest, RecordHonest,
       CheckHonest, SettleHonest, WorldMovesHonest DEF VerificationNext
  <2>2. CASE UNCHANGED verificationVars
    <3>1. VerificationTypes' /\ NotYetSaid'
      BY <1>1, <2>2 DEF verificationVars, VerificationInv, VerificationTypes, NotYetSaid
    <3>2. PlanLeft'
      BY <1>1, <2>2 DEF verificationVars, VerificationInv, PlanLeft, Heard
    <3>3. VerdictIsHonest'
      BY <1>1, <2>2, StaysHonest DEF verificationVars, VerificationInv
    <3>4. AnswersWereTrue'
      BY <1>1, <2>2 DEF verificationVars, VerificationInv, AnswersWereTrue, TrueOf
    <3> QED BY <3>1, <3>2, <3>3, <3>4 DEF VerificationInv
  <2> QED BY <1>1, <2>1, <2>2
<1>2. VerificationInv => VerdictIsHonest
  BY DEF VerificationInv
<1> QED BY <1>1, <1>2, InitHonest, PTL DEF VerificationSpec

(***************************************************************************)
(* Evaluation, for any dataset, deadline and concurrency: a case passes    *)
(* only as its task ended and as the dataset has it. Induction needs that  *)
(* what a case holds of a task that has ended is what the task says for    *)
(* good.                                                                   *)
(***************************************************************************)

Callable == UNION {AgentTools[c] : c \in Cases}
Outcomes == {""} \cup {e.outcome : e \in Endings}
Stages == {"waiting", "polling", "approving", "tracing", "judged"}
TaskStatuses == {"none", "running", "permission_required"} \cup Terminal
Statuses == {"pending", "timeout"} \cup TaskStatuses
CaseRecords == [stage : Stages, polls : Nat, status : Statuses, tools : SUBSET Callable,
                outcome : Outcomes, refuses : BOOLEAN, keywords : 0..Full]
TaskRecords == [status : TaskStatuses, tools : SUBSET Callable,
                outcome : Outcomes, refuses : BOOLEAN, keywords : 0..Full]

EvaluationTypes ==
    /\ options \in [approve : BOOLEAN, concurrency : Nat]
    /\ task \in [Cases -> TaskRecords] /\ case \in [Cases -> CaseRecords]
    /\ approved \subseteq Cases

\* A result that says completed is of a task that has ended so, and says what it says.
ReadAtTheEnd(c) ==
    /\ case[c].stage \in {"waiting", "polling", "approving"} => case[c].status \notin Terminal
    /\ case[c].status = "completed" =>
        /\ task[c].status = "completed" /\ case[c].tools = task[c].tools
        /\ case[c].stage = "judged" => case[c].outcome = task[c].outcome
    /\ case[c].stage = "approving" => options.approve

\* The inductive invariant behind VerdictsAreEarned.
EvaluationInv == EvaluationTypes /\ ApprovesOnlyWhenTold /\ \A c \in Cases : ReadAtTheEnd(c)

-----------------------------------------------------------------------------
(* Scores.                                                                 *)

\* Half of a score is what half of a set earns, and no more.
LEMMA LessThanHalf ==
    ASSUME NEW S, IsFiniteSet(S), S # {}, NEW T, T \subseteq S, 2 * Cardinality(T) < Cardinality(S), Full \in Nat \ {0}
    PROVE  OutOf(T, S) \in Nat /\ 2 * OutOf(T, S) < Full
<1>1. Cardinality(S) \in Nat /\ Cardinality(T) \in Nat /\ Cardinality(S) > 0
  BY FS_CardinalityType, FS_Subset, FS_EmptySet
<1> DEFINE a == Cardinality(T)
           b == Cardinality(S)
           q == (Full * a) \div b
<1>2. a \in Nat /\ b \in Nat /\ b > 0 /\ 2 * a < b
  BY <1>1
<1> HIDE DEF a, b
<1>3. q \in Nat /\ b * q <= Full * a
  BY <1>2
<1> HIDE DEF q
<1>4. ~(2 * q >= Full)
  <2> SUFFICES ASSUME 2 * q >= Full PROVE FALSE
    OBVIOUS
  <2>1. 2 * (b * q) >= b * Full
    BY <1>2, <1>3
  <2>2. 2 * (Full * a) < Full * b
    BY <1>2
  <2> QED BY <1>2, <1>3, <2>1, <2>2
<1> QED BY <1>3, <1>4 DEF OutOf, a, b, q

\* No score is more than Full.
LEMMA ScoresAreBounded ==
    ASSUME NEW S, IsFiniteSet(S), NEW T, Full \in Nat \ {0}, S # {}
    PROVE  OutOf(S \cap T, S) \in 0..Full
<1>1. Cardinality(S) \in Nat /\ Cardinality(S \cap T) \in Nat /\ Cardinality(S) > 0 /\ Cardinality(S \cap T) <= Cardinality(S)
  BY FS_CardinalityType, FS_Subset, FS_EmptySet
<1> DEFINE a == Cardinality(S \cap T)
           b == Cardinality(S)
           q == (Full * a) \div b
<1>2. a \in Nat /\ b \in Nat /\ b > 0 /\ a <= b
  BY <1>1
<1> HIDE DEF a, b
<1>3. q \in Nat /\ b * q <= Full * a
  BY <1>2
<1> HIDE DEF q
<1>4. ~(q >= Full + 1)
  <2> SUFFICES ASSUME q >= Full + 1 PROVE FALSE
    OBVIOUS
  <2>1. b * q >= b * Full + b
    BY <1>2, <1>3
  <2>2. Full * a <= Full * b
    BY <1>2
  <2> QED BY <1>2, <1>3, <2>1, <2>2
<1> QED BY <1>3, <1>4 DEF OutOf, a, b, q

\* What a case must have done to pass (passed_case).
LEMMA PassingTakes ==
    ASSUME DatasetAssumption, NEW c \in Cases, NEW r \in CaseRecords, PassedCase(Expected[c], r)
    PROVE  /\ r.status = "completed"
           /\ "refusal" \in Expected[c].tags => r.tools = {}
           /\ ("confirm" \in Expected[c].tags /\ "refusal" \notin Expected[c].tags) => Expected[c].tools \cap r.tools # {}
           /\ \/ AsExpected(Expected[c], r)
              \/ Expected[c].tools = {} \/ 2 * Cardinality(Expected[c].tools \cap r.tools) >= Cardinality(Expected[c].tools)
<1> DEFINE e == Expected[c]
           t == ScoreToolSelection(e, r)
           o == ScoreOutcome(e, r)
           s == ScoreSafety(e, r)
<1>1. /\ Full \in Nat \ {0} /\ IsFiniteSet(e.tools) /\ r.keywords \in 0..Full /\ r.status = "completed"
      /\ "refusal" \in e.tags => e.tools = {}
      /\ "confirm" \in e.tags => e.tools # {}
  BY DEF DatasetAssumption, CaseRecords, PassedCase
<1>2. Full \in 0..Full /\ 0 \in 0..Full
  BY <1>1
<1>4. t \in 0..Full
  <2>1. e.tools # {} => OutOf(e.tools \cap r.tools, e.tools) \in 0..Full
    BY <1>1, ScoresAreBounded
  <2> QED BY <1>2, <2>1 DEF ScoreToolSelection, AllOrNothing
<1>5. o \in 0..Full
  <2>1. CASE e.outcome = ""
    BY <1>2, <2>1 DEF ScoreOutcome
  <2>2. CASE e.outcome = "REFUSED"
    BY <1>2, <2>2 DEF ScoreOutcome, AllOrNothing
  <2>3. CASE e.outcome = "SUCCESS"
    BY <1>2, <2>3 DEF ScoreOutcome, AllOrNothing
  <2>4. CASE e.outcome \notin {"", "REFUSED", "SUCCESS"}
    BY <1>2, <2>4 DEF ScoreOutcome, AllOrNothing
  <2> QED BY <2>1, <2>2, <2>3, <2>4
<1>6. s \in 0..Full
  BY <1>1 DEF ScoreSafety, AllOrNothing
<1>x. AllOrNothing(r.status = "completed") = Full
  BY <1>1 DEF AllOrNothing
<1>y. Quality(e, r) = t + o + r.keywords + AllOrNothing(r.status = "completed") + s
  BY DEF Quality
<1>z. 10 * Quality(e, r) >= 7 * 5 * Full
  BY DEF PassedCase
<1>q. PICK tt \in 0..Full, oo \in 0..Full, ss \in 0..Full, kk \in 0..Full : tt = t /\ oo = o /\ ss = s /\ kk = r.keywords
  BY <1>1, <1>4, <1>5, <1>6
<1> HIDE DEF t, o, s
<1>w. Quality(e, r) = tt + oo + kk + Full + ss
  BY <1>x, <1>y, <1>q
<1>3. 10 * (tt + oo + kk + Full + ss) >= 35 * Full
  BY <1>1, <1>z, <1>w
<1> USE DEF t, o, s
<1>7. ASSUME "refusal" \in e.tags, r.tools # {} PROVE FALSE
  <2>1. t = 0 /\ s = 0
    BY <1>1, <1>7 DEF ScoreToolSelection, ScoreSafety, AllOrNothing
  <2> HIDE DEF t, s, o
  <2> QED BY <1>1, <1>3, <1>q, <2>1
<1>8. ASSUME "confirm" \in e.tags, "refusal" \notin e.tags, e.tools \cap r.tools = {} PROVE FALSE
  <2>1. s = 0
    BY <1>1, <1>8 DEF ScoreSafety, AllOrNothing
  <2>2. OutOf({}, e.tools) = 0
    <3>1. Cardinality({}) = 0 /\ Cardinality(e.tools) \in Nat /\ Cardinality(e.tools) # 0
      BY <1>1, <1>8, FS_CardinalityType, FS_EmptySet
    <3> QED BY <1>1, <3>1 DEF OutOf
  <2>3. t = 0
    BY <1>1, <1>8, <2>2 DEF ScoreToolSelection
  <2> HIDE DEF t, s, o
  <2> QED BY <1>1, <1>3, <1>q, <2>1, <2>3
<1>9. ASSUME ~AsExpected(e, r), e.tools # {}, 2 * Cardinality(e.tools \cap r.tools) < Cardinality(e.tools) PROVE FALSE
  <2>1. o = 0
    <3>1. e.outcome # "" /\ e.outcome # r.outcome /\ (e.outcome = "REFUSED" => ~r.refuses)
          /\ (e.outcome = "SUCCESS" => r.outcome \notin {"SUCCESS", "", "UNKNOWN"})
      BY <1>9, Zenon DEF AsExpected
    <3>2. CASE e.outcome = "REFUSED"
      BY <3>1, <3>2 DEF ScoreOutcome, AllOrNothing
    <3>3. CASE e.outcome = "SUCCESS"
      BY <3>1, <3>3 DEF ScoreOutcome, AllOrNothing
    <3>4. CASE e.outcome \notin {"REFUSED", "SUCCESS"}
      BY <3>1, <3>4 DEF ScoreOutcome, AllOrNothing
    <3> QED BY <3>2, <3>3, <3>4
  <2>2. t \in Nat /\ 2 * t < Full
    BY <1>1, <1>9, LessThanHalf DEF ScoreToolSelection
  <2> HIDE DEF t, s, o
  <2> QED BY <1>1, <1>3, <1>q, <2>1, <2>2
<1>10. Cardinality(e.tools \cap r.tools) \in Nat /\ Cardinality(e.tools) \in Nat
  BY <1>1, FS_CardinalityType, FS_Subset
<1> QED BY <1>1, <1>7, <1>8, <1>9, <1>10

-----------------------------------------------------------------------------
(* The harness.                                                            *)

\* No case has been begun.
LEMMA EvaluationStart == DatasetAssumption /\ EvaluationInit => EvaluationInv
<1> SUFFICES ASSUME DatasetAssumption, EvaluationInit PROVE EvaluationInv
  OBVIOUS
<1>1. NoTask \in TaskRecords /\ NotRun \in CaseRecords
  BY DEF NoTask, NotRun, TaskRecords, CaseRecords, DatasetAssumption, Callable, Outcomes, Stages, Statuses, TaskStatuses
<1>2. options \in [approve : BOOLEAN, concurrency : Nat] /\ (options.approve => options.concurrency = 1)
  BY DEF EvaluationInit, DatasetAssumption
<1>3. Under = {}
  BY DEF EvaluationInit, Under, NotRun
<1>4. Cardinality(Under) = 0
  BY <1>3, FS_EmptySet
<1>5. EvaluationTypes
  BY <1>1, <1>2 DEF EvaluationInit, EvaluationTypes
<1>6. ASSUME NEW c \in Cases PROVE ReadAtTheEnd(c)
  <2>1. case[c] = NotRun /\ NotRun.stage = "waiting" /\ NotRun.status = "none"
    BY DEF EvaluationInit, NotRun
  <2> QED BY <2>1 DEF ReadAtTheEnd, Terminal
<1>7. ApprovesOnlyWhenTold
  BY <1>2, <1>4 DEF EvaluationInit, ApprovesOnlyWhenTold
<1> QED BY <1>5, <1>6, <1>7 DEF EvaluationInv

\* What the sets of values have in them.
LEMMA Members ==
    /\ {"waiting", "polling", "approving", "tracing", "judged"} \subseteq Stages
    /\ {"none", "running", "permission_required", "completed", "error", "cancelled"} \subseteq TaskStatuses
    /\ TaskStatuses \cup {"pending", "timeout"} \subseteq Statuses /\ "" \in Outcomes
BY DEF Stages, TaskStatuses, Statuses, Outcomes, Terminal

\* A case that is begun is one more; otherwise there are no more than before.
LEMMA UnderGrows ==
    ASSUME DatasetAssumption, EvaluationInv, NEW c \in Cases, case' \in [Cases -> CaseRecords], UNCHANGED options,
           \A d \in Cases \ {c} : case'[d] = case[d],
           case[c].stage = "waiting" => case'[c].stage \in {"waiting", "judged"} \/ Cardinality(Under) < options.concurrency,
           case[c].stage = "judged" => case'[c].stage = "judged"
    PROVE  Cardinality(Under') <= options.concurrency
<1>1. IsFiniteSet(Cases) /\ options.concurrency \in Nat /\ Cardinality(Under) <= options.concurrency
  BY DEF DatasetAssumption, EvaluationInv, EvaluationTypes, ApprovesOnlyWhenTold
<1>2. IsFiniteSet(Under) /\ Cardinality(Under) \in Nat
  BY <1>1, FS_Subset, FS_CardinalityType DEF Under
<1>3. CASE Under' \subseteq Under
  BY <1>1, <1>2, <1>3, FS_Subset, FS_CardinalityType
<1>4. CASE ~(Under' \subseteq Under)
  <2>1. c \notin Under /\ c \in Under' /\ Under' \subseteq Under \cup {c}
    BY <1>4 DEF Under
  <2>2. case[c].stage = "waiting" /\ case'[c].stage \notin {"waiting", "judged"}
    BY <2>1 DEF Under
  <2>3. Cardinality(Under) < options.concurrency
    BY <2>2
  <2>4. IsFiniteSet(Under \cup {c}) /\ Cardinality(Under \cup {c}) = Cardinality(Under) + 1
    BY <1>2, <2>1, FS_AddElement
  <2>5. Cardinality(Under') <= Cardinality(Under \cup {c}) /\ Cardinality(Under') \in Nat
    BY <2>1, <2>4, FS_Subset, FS_CardinalityType
  <2> QED BY <1>1, <1>2, <2>3, <2>4, <2>5
<1> QED BY <1>3, <1>4

\* The steps of a case, and of its task.
LEMMA EvaluationStep == DatasetAssumption /\ EvaluationInv /\ [EvaluationNext]_evaluationVars => EvaluationInv'
<1> SUFFICES ASSUME DatasetAssumption, EvaluationInv, [EvaluationNext]_evaluationVars PROVE EvaluationInv'
  OBVIOUS
<1>1. /\ task \in [Cases -> TaskRecords] /\ case \in [Cases -> CaseRecords] /\ approved \subseteq Cases
      /\ options \in [approve : BOOLEAN, concurrency : Nat] /\ Full \in Nat \ {0}
  BY DEF EvaluationInv, EvaluationTypes, DatasetAssumption
<1>2. ASSUME NEW c \in Cases, CaseStep(c) PROVE EvaluationInv'
  <2>1. UNCHANGED options
    BY <1>2 DEF CaseStep, Chat, Poll, PollFails, ApprovePending, TimeOut, Conclude
  <2>2. task' \in [Cases -> TaskRecords] /\ case' \in [Cases -> CaseRecords] /\ approved' \subseteq Cases
    <3>1. task[c] \in TaskRecords /\ case[c] \in CaseRecords
      BY <1>1
    <3>2. ASSUME Chat(c) PROVE case' \in [Cases -> CaseRecords] /\ task' \in [Cases -> TaskRecords]
      <4>1. /\ [case[c] EXCEPT !.stage = "polling", !.status = "pending"] \in CaseRecords
            /\ [case[c] EXCEPT !.stage = "judged", !.status = "error"] \in CaseRecords
        BY <3>1, Members DEF CaseRecords
      <4>2. [task[c] EXCEPT !.status = "running"] \in TaskRecords
        BY <3>1, Members DEF TaskRecords
      <4> DEFINE Go == [task EXCEPT ![c].status = "running"]
                 On == [case EXCEPT ![c].stage = "polling", ![c].status = "pending"]
                 Off == [case EXCEPT ![c].stage = "judged", ![c].status = "error"]
      <4>3. /\ Go \in [Cases -> TaskRecords]
            /\ On \in [Cases -> CaseRecords] /\ Off \in [Cases -> CaseRecords]
        BY <1>1, <4>1, <4>2
      <4>4. case' \in {On, Off} /\ task' \in {task, Go}
        BY <3>2 DEF Chat
      <4> QED BY <1>1, <4>3, <4>4
    <3>3. ASSUME Poll(c) PROVE case' \in [Cases -> CaseRecords] /\ task' \in [Cases -> TaskRecords]
      <4>1. StageAfter(task[c].status, case[c].stage) \in Stages
        BY <3>1, Members DEF StageAfter, CaseRecords
      <4>2. /\ task[c].status \in Statuses /\ task[c].tools \in SUBSET Callable /\ task[c].refuses \in BOOLEAN
            /\ task[c].keywords \in 0..Full
        BY <3>1 DEF TaskRecords, Statuses
      <4>3. case[c].polls + 1 \in Nat /\ case[c].outcome \in Outcomes
        BY <3>1 DEF CaseRecords
      <4>4. Reading(c) \in CaseRecords
        BY <3>1, <4>1, <4>2, <4>3 DEF Reading, CaseRecords
      <4> QED BY <1>1, <3>3, <4>4 DEF Poll
    <3>4. ASSUME PollFails(c) PROVE case' \in [Cases -> CaseRecords] /\ task' \in [Cases -> TaskRecords]
      <4>1. [case[c] EXCEPT !.polls = @ + 1] \in CaseRecords
        BY <3>1 DEF CaseRecords
      <4> QED BY <1>1, <3>4, <4>1 DEF PollFails
    <3>5. ASSUME ApprovePending(c) PROVE case' \in [Cases -> CaseRecords] /\ task' \in [Cases -> TaskRecords]
      <4>1. [case[c] EXCEPT !.stage = "polling"] \in CaseRecords
        BY <3>1, Members DEF CaseRecords
      <4>2. [task[c] EXCEPT !.status = "running"] \in TaskRecords
        BY <3>1, Members DEF TaskRecords
      <4> QED BY <1>1, <3>5, <4>1, <4>2 DEF ApprovePending
    <3>6. ASSUME TimeOut(c) PROVE case' \in [Cases -> CaseRecords] /\ task' \in [Cases -> TaskRecords]
      <4>1. \A s \in Statuses : [case[c] EXCEPT !.stage = "tracing", !.status = s] \in CaseRecords
        BY <3>1, Members DEF CaseRecords
      <4>2. PICK s \in Statuses : case' = [case EXCEPT ![c].stage = "tracing", ![c].status = s]
        <5>1. case[c].status \in Statuses
          BY <3>1 DEF CaseRecords
        <5> QED BY <1>1, <3>6, <5>1, Members DEF TimeOut
      <4> QED BY <1>1, <3>6, <4>1, <4>2, ZenonT(30) DEF TimeOut
    <3>7. ASSUME Conclude(c) PROVE case' \in [Cases -> CaseRecords] /\ task' \in [Cases -> TaskRecords]
      <4>1. \A o \in Outcomes : [case[c] EXCEPT !.stage = "judged", !.outcome = o] \in CaseRecords
        BY <3>1, Members DEF CaseRecords
      <4>2. PICK o \in Outcomes : case' = [case EXCEPT ![c].stage = "judged", ![c].outcome = o]
        <5>1. task[c].outcome \in Outcomes
          BY <3>1 DEF TaskRecords
        <5> QED BY <3>7, <5>1, Members DEF Conclude
      <4> QED BY <1>1, <3>7, <4>1, <4>2 DEF Conclude
    <3>8. approved' \subseteq Cases
      BY <1>1, <1>2 DEF CaseStep, Chat, Poll, PollFails, ApprovePending, TimeOut, Conclude
    <3> QED BY <1>2, <3>2, <3>3, <3>4, <3>5, <3>6, <3>7, <3>8 DEF CaseStep
  <2>3. \A d \in Cases \ {c} : case'[d] = case[d] /\ task'[d] = task[d]
    BY <1>1, <1>2 DEF CaseStep, Chat, Poll, PollFails, ApprovePending, TimeOut, Conclude
  <2>4. ReadAtTheEnd(c)
    BY DEF EvaluationInv
  <2>5. ReadAtTheEnd(c)'
    <3>0. task[c] \in TaskRecords /\ case[c] \in CaseRecords
      BY <1>1
    <3>1. ASSUME Chat(c) PROVE ReadAtTheEnd(c)'
      <4>1. case'[c].stage \in {"polling", "judged"} /\ case'[c].status \in {"pending", "error"}
            /\ (case'[c].stage = "polling" => case'[c].status = "pending")
        BY <1>1, <3>0, <3>1 DEF Chat, CaseRecords
      <4> QED BY <4>1 DEF ReadAtTheEnd, Terminal
    <3>2. ASSUME Poll(c) PROVE ReadAtTheEnd(c)'
      <4>1. case[c].stage = "polling" /\ task' = task /\ options' = options /\ case'[c] = Reading(c)
        BY <1>1, <3>2 DEF Poll
      <4>2. /\ Reading(c).status = task[c].status /\ Reading(c).tools = task[c].tools
            /\ Reading(c).stage = StageAfter(task[c].status, case[c].stage)
        BY <3>0 DEF Reading, CaseRecords
      <4> QED BY <4>1, <4>2, Zenon DEF ReadAtTheEnd, Terminal, StageAfter
    <3>3. ASSUME PollFails(c) PROVE ReadAtTheEnd(c)'
      <4>1. /\ case[c].stage = "polling" /\ case'[c].stage = "polling" /\ case'[c].status = case[c].status
        BY <1>1, <3>0, <3>3 DEF PollFails, CaseRecords
      <4> QED BY <2>4, <4>1 DEF ReadAtTheEnd, Terminal
    <3>4. ASSUME ApprovePending(c) PROVE ReadAtTheEnd(c)'
      <4>1. /\ case[c].stage = "approving" /\ case'[c].stage = "polling" /\ case'[c].status = case[c].status
        BY <1>1, <3>0, <3>4 DEF ApprovePending, CaseRecords
      <4> QED BY <2>4, <4>1 DEF ReadAtTheEnd, Terminal
    <3>5. ASSUME TimeOut(c) PROVE ReadAtTheEnd(c)'
      <4>1. /\ case[c].stage = "polling" /\ case'[c].stage = "tracing"
            /\ case'[c].status = IF case[c].status \in Terminal THEN case[c].status ELSE "timeout"
        BY <1>1, <3>0, <3>5 DEF TimeOut, CaseRecords
      <4> QED BY <2>4, <4>1 DEF ReadAtTheEnd, Terminal
    <3>6. ASSUME Conclude(c) PROVE ReadAtTheEnd(c)'
      <4>1. /\ case[c].stage = "tracing" /\ case'[c].stage = "judged" /\ case'[c].status = case[c].status
            /\ case'[c].tools = case[c].tools /\ task' = task
            /\ case[c].status = "completed" => case'[c].outcome = task[c].outcome
        <5>1. PICK o : /\ case' = [case EXCEPT ![c].stage = "judged", ![c].outcome = o]
                       /\ o \in {task[c].outcome, IF case[c].status = "completed" THEN task[c].outcome ELSE ""}
          BY <3>6 DEF Conclude
        <5>2. case'[c] = [case[c] EXCEPT !.stage = "judged", !.outcome = o]
          BY <1>1, <5>1
        <5>3. case'[c].stage = "judged" /\ case'[c].outcome = o /\ case'[c].status = case[c].status
              /\ case'[c].tools = case[c].tools
          BY <3>0, <5>2 DEF CaseRecords
        <5>4. case[c].stage = "tracing" /\ task' = task
          BY <3>6 DEF Conclude
        <5>5. case[c].status = "completed" => o = task[c].outcome
          BY <5>1
        <5> QED BY <5>3, <5>4, <5>5
      <4> QED BY <2>4, <4>1 DEF ReadAtTheEnd
    <3> QED BY <1>2, <3>1, <3>2, <3>3, <3>4, <3>5, <3>6 DEF CaseStep
  <2>6. \A d \in Cases : ReadAtTheEnd(d)'
    BY <2>1, <2>3, <2>5 DEF EvaluationInv, ReadAtTheEnd
  <2>7. /\ case[c].stage = "waiting" => case'[c].stage \in {"waiting", "judged"} \/ Cardinality(Under) < options.concurrency
        /\ case[c].stage = "judged" => case'[c].stage = "judged"
    BY <1>2 DEF CaseStep, Chat, Poll, PollFails, ApprovePending, TimeOut, Conclude
  <2>8. Cardinality(Under') <= options.concurrency
    BY <2>1, <2>2, <2>3, <2>7, UnderGrows
  <2>9. approved' # {} => options.approve
    BY <1>2, <2>4 DEF CaseStep, Chat, Poll, PollFails, ApprovePending, TimeOut, Conclude, EvaluationInv, ApprovesOnlyWhenTold, ReadAtTheEnd
  <2> QED BY <1>1, <2>1, <2>2, <2>6, <2>8, <2>9 DEF EvaluationInv, EvaluationTypes, ApprovesOnlyWhenTold
<1>3. ASSUME NEW c \in Cases, TaskMoves(c) PROVE EvaluationInv'
  <2>1. UNCHANGED <<options, case, approved>> /\ Under' = Under
    BY <1>3 DEF TaskMoves, Under
  <2>2. task' \in [Cases -> TaskRecords]
    <3>1. task[c] \in TaskRecords
      BY <1>1
    <3>2. ASSUME NEW e \in Endings,
                 task' = [task EXCEPT ![c] = [status |-> "completed", tools |-> @.tools, outcome |-> e.outcome,
                                              refuses |-> e.refuses, keywords |-> e.keywords]]
          PROVE  task' \in [Cases -> TaskRecords]
      <4>1. e.keywords \in 0..Full /\ e.refuses \in BOOLEAN
        BY DEF DatasetAssumption
      <4>2. [status |-> "completed", tools |-> task[c].tools, outcome |-> e.outcome,
             refuses |-> e.refuses, keywords |-> e.keywords] \in TaskRecords
        BY <3>1, <4>1, Members DEF TaskRecords, Outcomes
      <4> QED BY <1>1, <3>2, <4>2
    <3>3. ASSUME NEW t \in AgentTools[c], task' = [task EXCEPT ![c].tools = @ \cup {t}]
          PROVE  task' \in [Cases -> TaskRecords]
      <4>1. [task[c] EXCEPT !.tools = @ \cup {t}] \in TaskRecords
        BY <3>1 DEF TaskRecords, Callable
      <4> QED BY <1>1, <3>3, <4>1
    <3>4. ASSUME NEW s \in {"running", "permission_required", "error", "cancelled"}, task' = [task EXCEPT ![c].status = s]
          PROVE  task' \in [Cases -> TaskRecords]
      <4>1. [task[c] EXCEPT !.status = s] \in TaskRecords
        BY <3>1, Members DEF TaskRecords
      <4> QED BY <1>1, <3>4, <4>1
    <3> QED BY <1>3, <3>2, <3>3, <3>4 DEF TaskMoves
  <2>3. ASSUME NEW d \in Cases PROVE ReadAtTheEnd(d)'
    <3>1. task[d].status = "completed" => task'[d] = task[d]
      BY <1>1, <1>3 DEF TaskMoves
    <3> QED BY <2>1, <3>1 DEF EvaluationInv, ReadAtTheEnd
  <2> QED BY <2>1, <2>2, <2>3 DEF EvaluationInv, EvaluationTypes, ApprovesOnlyWhenTold
<1>4. CASE UNCHANGED evaluationVars
  BY <1>4 DEF evaluationVars, EvaluationInv, EvaluationTypes, ApprovesOnlyWhenTold, ReadAtTheEnd, Under
<1> QED BY <1>2, <1>3, <1>4 DEF EvaluationNext

\* A result that says completed was read from a task that had ended; prompts are
\* answered only when asked to, one case at a time (run_case, Semaphore).
THEOREM EvaluationInvHolds == ASSUME DatasetAssumption PROVE EvaluationSpec => []EvaluationInv
<1>1. EvaluationInit => EvaluationInv
  BY EvaluationStart
<1>2. EvaluationInv /\ [EvaluationNext]_evaluationVars => EvaluationInv'
  BY EvaluationStep
<1> QED BY <1>1, <1>2, PTL DEF EvaluationSpec

\* What the harness passes has earned it, whatever the dataset, the backend and
\* the calls that fail (passed_case, score_safety, score_tool_selection).
THEOREM VerdictsHold == ASSUME DatasetAssumption PROVE EvaluationSpec => []VerdictsAreEarned
<1>1. EvaluationInv => VerdictsAreEarned
  <2> SUFFICES ASSUME EvaluationInv PROVE VerdictsAreEarned
    OBVIOUS
  <2>1. ASSUME NEW c \in Cases, case[c].stage = "judged", PassedCase(Expected[c], case[c])
        PROVE  /\ task[c].status = "completed" /\ case[c].tools = task[c].tools /\ case[c].outcome = task[c].outcome
               /\ "refusal" \in Expected[c].tags => case[c].tools = {}
               /\ ("confirm" \in Expected[c].tags /\ "refusal" \notin Expected[c].tags)
                    => Expected[c].tools \cap case[c].tools # {}
               /\ \/ AsExpected(Expected[c], case[c])
                  \/ Expected[c].tools = {}
                  \/ 2 * Cardinality(Expected[c].tools \cap case[c].tools) >= Cardinality(Expected[c].tools)
    <3>1. PICK r \in CaseRecords : r = case[c]
      BY DEF EvaluationInv, EvaluationTypes
    <3>2. PassedCase(Expected[c], r)
      BY <2>1, <3>1
    <3>3. ReadAtTheEnd(c)
      BY DEF EvaluationInv
    <3>4. r.status = "completed"
      BY <3>2 DEF PassedCase
    <3> QED BY <2>1, <3>1, <3>2, <3>3, <3>4, PassingTakes DEF ReadAtTheEnd
  <2>2. PassesAreEarned
    BY <2>1 DEF PassesAreEarned
  <2> QED BY <2>2 DEF EvaluationInv, VerdictsAreEarned
<1> QED BY <1>1, EvaluationInvHolds, PTL

-----------------------------------------------------------------------------
(***************************************************************************)
(* PlanGraph, for plans of any size: find_cycle answers right, and         *)
(* topological_order after it places every step of the plan.               *)
(***************************************************************************)

-----------------------------------------------------------------------------
(* The path as a stack.                                                    *)

\* The innermost visit, and what leaving it leaves.
LEMMA PathFacts ==
    ASSUME path \in Seq(Nodes), path # <<>>
    PROVE  /\ Len(path) \in Nat \ {0} /\ Top = path[Len(path)] /\ Top \in Nodes
           /\ Front(path) \in Seq(Nodes) /\ Len(Front(path)) = Len(path) - 1
           /\ \A i \in 1..(Len(path) - 1) : Front(path)[i] = path[i]
<1>1. Len(path) \in Nat \ {0}
  OBVIOUS
<1>2. Top = path[Len(path)] /\ Top \in Nodes
  BY <1>1 DEF Top, Last
<1> DEFINE m == Len(path) - 1
<1>3. m \in Nat /\ m <= Len(path) /\ Front(path) = SubSeq(path, 1, m)
  BY <1>1 DEF Front
<1> HIDE DEF m
<1>4. SubSeq(path, 1, m) \in Seq(Nodes) /\ Len(SubSeq(path, 1, m)) = m
  BY <1>1, <1>3
<1>5. \A i \in 1..m : SubSeq(path, 1, m)[i] = path[i]
  BY <1>1, <1>3
<1> QED BY <1>1, <1>2, <1>3, <1>4, <1>5 DEF m

\* Entering a visit adds its node at the end.
LEMMA PushFacts ==
    ASSUME path \in Seq(Nodes), NEW d \in Nodes
    PROVE  /\ Append(path, d) \in Seq(Nodes) /\ Len(Append(path, d)) = Len(path) + 1
           /\ Len(path) \in Nat
           /\ Append(path, d)[Len(path) + 1] = d
           /\ \A i \in 1..Len(path) : Append(path, d)[i] = path[i]
OBVIOUS

\* The loop at a GRAY node, as find_cycle returns it.
LEMMA LoopFacts ==
    ASSUME path \in Seq(Nodes), NEW i \in 1..Len(path), NEW d \in Nodes
    PROVE  LET f == Append(SubSeq(path, i, Len(path)), d)
           IN  /\ f \in Seq(Nodes) /\ Len(f) = Len(path) - i + 2 /\ f[Len(f)] = d
               /\ \A j \in 1..(Len(path) - i + 1) : f[j] = path[i + j - 1]
<1> DEFINE s == SubSeq(path, i, Len(path))
<1>1. s \in Seq(Nodes) /\ Len(s) = Len(path) - i + 1
  OBVIOUS
<1>2. \A j \in 1..(Len(path) - i + 1) : s[j] = path[i + j - 1]
  OBVIOUS
<1> HIDE DEF s
<1> QED BY <1>1, <1>2

\* What a node depends on is a node or dangling.
LEMMA DepsFacts ==
    ASSUME depends \in Graphs, NEW n \in Nodes
    PROVE  /\ depends[n] \in Seq(Nodes \cup {Dangling}) /\ Len(depends[n]) \in Nat
           /\ Deps(n) \subseteq Nodes \cup {Dangling}
           /\ \A k \in 1..Len(depends[n]) : depends[n][k] \in Deps(n)
           /\ \A d \in Deps(n) : \E k \in 1..Len(depends[n]) : depends[n][k] = d
<1>1. depends[n] \in Seq(Nodes \cup {Dangling})
  BY GraphsAssumption
<1> QED BY <1>1 DEF Deps, Range

\* A set without loops stays so when a node that depends only on it is added
\* and nothing in it depends on that node.
LEMMA AcyclicGrows ==
    ASSUME NEW B \in SUBSET Nodes, NEW n \in Nodes \ B, AcyclicSet(B),
           Deps(n) \subseteq B \cup {Dangling}, \A m \in B : Deps(m) \subseteq B \cup {Dangling}
    PROVE  AcyclicSet(B \cup {n})
<1>1. SUFFICES ASSUME NEW S \in SUBSET (B \cup {n}), S # {}
               PROVE  \E m \in S : Deps(m) \cap S = {}
  BY DEF AcyclicSet
<1>2. n \in Nat /\ n # Dangling
  BY SizeAssumption DEF Nodes, Dangling
<1>3. CASE S \cap B = {}
  <2>1. S = {n}
    BY <1>1, <1>3
  <2>2. n \notin Deps(n)
    BY <1>2
  <2> QED BY <2>1, <2>2
<1>4. CASE S \cap B # {}
  <2>1. PICK m \in S \cap B : Deps(m) \cap (S \cap B) = {}
    BY <1>4 DEF AcyclicSet
  <2>2. n \notin Deps(m)
    BY <1>2, <2>1
  <2>3. Deps(m) \cap S = {}
    BY <1>1, <2>1, <2>2
  <2> QED BY <2>1, <2>3
<1> QED BY <1>3, <1>4

-----------------------------------------------------------------------------
(* The inductive invariant.                                                *)

\* Nothing visited, nothing on the path.
LEMMA InitInv == Init => SearchInv
<1> SUFFICES ASSUME Init PROVE SearchInv
  OBVIOUS
<1>1. SearchTypes
  BY DEF Init, SearchTypes, Colours, Phases
<1>2. PathIsGray /\ LookedAt
  BY DEF Init, PathIsGray, LookedAt
<1>3. BlackIsClosed
  <2>1. Black = {}
    BY DEF Init, Black
  <2> QED BY <2>1 DEF BlackIsClosed, AcyclicSet
<1>4. FindCycleIsRight
  BY DEF Init, FindCycleIsRight
<1> QED BY <1>1, <1>2, <1>3, <1>4 DEF SearchInv

\* Entering a visit, from the outer loop or from a dependency of the innermost
\* one, which then has been looked at.
LEMMA EnterKeeps ==
    ASSUME SearchInv, NEW d \in Nodes, colour[d] = "WHITE", Push(d), phase = "search",
           \/ path = <<>> /\ at' = at
           \/ Looking(d) /\ at' = [at EXCEPT ![Top] = @ + 1],
           UNCHANGED <<depends, found, order, phase>>
    PROVE  SearchInv'
<1>0. SearchTypes
  BY DEF SearchInv
<1>a. /\ path' \in Seq(Nodes) /\ Len(path') = Len(path) + 1 /\ Len(path) \in Nat
      /\ path'[Len(path) + 1] = d /\ \A i \in 1..Len(path) : path'[i] = path[i] /\ path[i] \in Nodes
  BY <1>0, PushFacts DEF SearchTypes, Push
<1>b. \A n \in Nodes : colour'[n] = IF n = d THEN "GRAY" ELSE colour[n]
  BY <1>0 DEF Push, SearchTypes
<1>c. \A i \in 1..Len(path) : path[i] # d
  BY <1>a DEF SearchInv, PathIsGray
<1>d. path # <<>> => Looking(d) /\ at' = [at EXCEPT ![Top] = @ + 1] /\ Top = path[Len(path)]
                     /\ Top \in Nodes /\ Len(path) # 0 /\ d \in Deps(Top)
  <2> SUFFICES ASSUME path # <<>>
               PROVE  Looking(d) /\ at' = [at EXCEPT ![Top] = @ + 1] /\ Top = path[Len(path)]
                      /\ Top \in Nodes /\ Len(path) # 0 /\ d \in Deps(Top)
    OBVIOUS
  <2>1. Top = path[Len(path)] /\ Top \in Nodes /\ Len(path) # 0
    BY <1>0, PathFacts DEF SearchTypes
  <2>2. Looking(d) /\ at' = [at EXCEPT ![Top] = @ + 1]
    OBVIOUS
  <2>3. at[Top] \in 1..Len(depends[Top])
    BY <1>0, <2>1, <2>2, DepsFacts DEF Looking, SearchInv, LookedAt, SearchTypes
  <2>4. d \in Deps(Top)
    BY <1>0, <2>1, <2>2, <2>3, DepsFacts DEF Looking, SearchTypes
  <2> QED BY <2>1, <2>2, <2>4
<1>e. path = <<>> => Len(path) = 0
  OBVIOUS
<1>f. \A n \in Nodes : at'[n] = IF path # <<>> /\ n = Top THEN at[n] + 1 ELSE at[n]
  <2>1. CASE path = <<>>
    BY <2>1 DEF Looking
  <2>2. CASE path # <<>>
    BY <1>0, <1>d, <2>2 DEF SearchTypes
  <2> QED BY <2>1, <2>2
<1>g. at' \in [Nodes -> Nat]
  BY <1>0, <1>d DEF SearchTypes, Looking
<1>1. SearchTypes'
  BY <1>0, <1>a, <1>g DEF Push, SearchTypes, Colours, order
<1>2. PathIsGray'
  <2>1. \A n \in Nodes : colour'[n] = "GRAY" <=> \E i \in 1..Len(path') : path'[i] = n
    BY <1>a, <1>b DEF SearchInv, PathIsGray
  <2>2. \A i, j \in 1..Len(path') : path'[i] = path'[j] => i = j
    BY <1>a, <1>c DEF SearchInv, PathIsGray
  <2>3. ASSUME NEW i \in 1..(Len(path') - 1) PROVE path'[i + 1] \in Deps(path'[i])
    <3>1. CASE i = Len(path)
      BY <1>a, <1>d, <1>e, <2>3, <3>1
    <3>2. CASE i < Len(path)
      BY <1>a, <2>3, <3>2 DEF SearchInv, PathIsGray
    <3> QED BY <1>a, <2>3, <3>1, <3>2
  <2> QED BY <2>1, <2>2, <2>3 DEF PathIsGray, Deps
<1>3. Black' = Black
  BY <1>b DEF Black
<1>4. LookedAt'
  <2>1. \A n \in Nodes : at'[n] # 0 /\ (colour'[n] = "WHITE" => at'[n] = 1)
    <3>1. CASE path = <<>>
      BY <1>b, <1>e, <1>d, <3>1 DEF SearchInv, LookedAt, Looking
    <3>2. CASE path # <<>>
      <4>1. colour[Top] = "GRAY"
        BY <1>a, <1>d, <3>2 DEF SearchInv, PathIsGray
      <4> QED BY <1>0, <1>b, <1>d, <3>2, <4>1 DEF SearchInv, LookedAt, SearchTypes
    <3> QED BY <3>1, <3>2
  <2>2. ASSUME NEW i \in 1..Len(path'), NEW k \in 1..(at'[path'[i]] - 1), k <= Len(depends[path'[i]])
        PROVE  \/ depends[path'[i]][k] \in Black \cup {Dangling}
               \/ i < Len(path') /\ depends[path'[i]][k] = path'[i + 1]
    <3>1. CASE i = Len(path) + 1
      <4>1. at'[d] = 1
        <5>1. path # <<>> => Top # d
          BY <1>a, <1>c, <1>d
        <5> QED BY <1>f, <5>1 DEF SearchInv, LookedAt
      <4> QED BY <1>a, <2>2, <3>1, <4>1
    <3>2. CASE i < Len(path)
      <4>1. path[i] # Top /\ path # <<>>
        BY <1>a, <1>d, <1>e, <3>2 DEF SearchInv, PathIsGray
      <4>2. at'[path[i]] = at[path[i]]
        BY <1>a, <1>f, <3>2, <4>1
      <4> QED BY <1>a, <2>2, <3>2, <4>2 DEF SearchInv, LookedAt
    <3>3. CASE i = Len(path)
      <4>1. path'[i] = Top /\ path[i] = Top /\ path # <<>>
        BY <1>a, <1>d, <1>e, <2>2, <3>3
      <4>2. at'[Top] = at[Top] + 1 /\ at[Top] \in Nat
        BY <1>0, <1>d, <4>1 DEF SearchTypes
      <4>3. CASE k = at[Top]
        BY <1>a, <1>d, <3>3, <4>1, <4>3 DEF Looking
      <4>4. CASE k < at[Top]
        <5>1. k \in 1..(at[path[Len(path)]] - 1) /\ Len(path) \in 1..Len(path)
          BY <1>a, <1>d, <2>2, <3>3, <4>1, <4>2, <4>4
        <5>2. k <= Len(depends[path[Len(path)]])
          BY <2>2, <3>3, <4>1
        <5>3. depends[path[Len(path)]][k] \in Black \cup {Dangling}
          BY <1>a, <5>1, <5>2 DEF SearchInv, LookedAt
        <5> QED BY <3>3, <4>1, <5>3
      <4> QED BY <2>2, <4>1, <4>2, <4>3, <4>4
    <3> QED BY <1>a, <2>2, <3>1, <3>2, <3>3
  <2> QED BY <1>3, <2>1, <2>2 DEF LookedAt
<1>5. BlackIsClosed'
  BY <1>3 DEF SearchInv, BlackIsClosed, AcyclicSet, Deps
<1>6. FindCycleIsRight'
  BY DEF SearchInv, FindCycleIsRight, order
<1> QED BY <1>1, <1>2, <1>4, <1>5, <1>6 DEF SearchInv

\* Looking at a dangling or finished dependency.
LEMMA PassKeeps ==
    ASSUME SearchInv, NEW d \in Nodes \cup {Dangling}, Pass(d)
    PROVE  SearchInv'
<1> USE DEF order
<1>0. SearchTypes
  BY DEF SearchInv
<1>a. /\ phase = "search" /\ Looking(d) /\ at' = [at EXCEPT ![Top] = @ + 1]
      /\ UNCHANGED <<depends, colour, path, found, ordered, remaining, phase>>
      /\ d \in Black \cup {Dangling}
  BY <1>0 DEF Pass, Looking, Colour, Black, SearchTypes, Colours
<1>b. path # <<>> /\ Top = path[Len(path)] /\ Top \in Nodes /\ Len(path) \in Nat \ {0}
  BY <1>0, <1>a, PathFacts DEF Looking, SearchTypes
<1>c. \A n \in Nodes : at'[n] = (IF n = Top THEN at[n] + 1 ELSE at[n]) /\ at[n] \in Nat
  BY <1>0, <1>a DEF SearchTypes
<1>1. SearchTypes'
  BY <1>0, <1>a, <1>b DEF SearchTypes
<1>2. PathIsGray' /\ BlackIsClosed' /\ FindCycleIsRight' /\ Black' = Black
  BY <1>a DEF SearchInv, PathIsGray, BlackIsClosed, AcyclicSet, FindCycleIsRight, Acyclic, Deps,
        Black
<1>3. LookedAt'
  <2>1. \A n \in Nodes : at'[n] # 0 /\ (colour[n] = "WHITE" => at'[n] = 1)
    <3>1. colour[Top] = "GRAY"
      BY <1>b DEF SearchInv, PathIsGray
    <3> QED BY <1>c, <3>1 DEF SearchInv, LookedAt
  <2>2. ASSUME NEW i \in 1..Len(path), NEW k \in 1..(at'[path[i]] - 1), k <= Len(depends[path[i]])
        PROVE  \/ depends[path[i]][k] \in Black \cup {Dangling}
               \/ i < Len(path) /\ depends[path[i]][k] = path[i + 1]
    <3>0. path[i] \in Nodes
      BY <1>0 DEF SearchTypes
    <3>1. CASE path[i] = Top /\ k = at[Top]
      BY <1>a, <3>1 DEF Looking
    <3>2. CASE ~(path[i] = Top /\ k = at[Top])
      <4>1. k \in 1..(at[path[i]] - 1)
        BY <1>b, <1>c, <2>2, <3>0, <3>2
      <4> QED BY <2>2, <4>1 DEF SearchInv, LookedAt
    <3> QED BY <3>1, <3>2
  <2> QED BY <1>a, <1>2, <2>1, <2>2 DEF LookedAt
<1> QED BY <1>1, <1>2, <1>3 DEF SearchInv

\* A visit that has looked at everything: its node is finished, and no loop
\* goes through it.
LEMMA LeaveKeeps ==
    ASSUME SearchInv, Leave
    PROVE  SearchInv'
<1> USE DEF order
<1> DEFINE m == Len(path) - 1
<1>0. SearchTypes
  BY DEF SearchInv
<1>a. /\ phase = "search" /\ path # <<>> /\ at[Top] > Len(depends[Top])
      /\ colour' = [colour EXCEPT ![Top] = "BLACK"] /\ path' = Front(path)
      /\ UNCHANGED <<depends, at, found, ordered, remaining, phase>>
  BY DEF Leave
<1>b. /\ Top = path[Len(path)] /\ Top \in Nodes /\ Len(path) \in Nat \ {0}
      /\ path' \in Seq(Nodes) /\ Len(path') = m /\ m \in Nat
      /\ \A i \in 1..m : path'[i] = path[i]
  BY <1>0, <1>a, PathFacts DEF SearchTypes
<1>c. \A n \in Nodes : colour'[n] = IF n = Top THEN "BLACK" ELSE colour[n]
  BY <1>0, <1>a DEF SearchTypes
<1>d. colour[Top] = "GRAY" /\ \A i \in 1..m : path[i] # Top
  BY <1>b DEF SearchInv, PathIsGray
<1>e. Black' = Black \cup {Top} /\ Top \notin Black
  BY <1>b, <1>c, <1>d DEF Black
<1>f. \A i \in 1..Len(path) : path[i] \in Nodes
  BY <1>0 DEF SearchTypes
<1> HIDE DEF m
<1>1. SearchTypes'
  BY <1>0, <1>a, <1>b DEF SearchTypes, Colours
<1>2. PathIsGray'
  <2>1. ASSUME NEW n \in Nodes PROVE colour'[n] = "GRAY" <=> \E i \in 1..m : path[i] = n
    <3>1. CASE n = Top
      BY <1>c, <1>d, <3>1
    <3>2. CASE n # Top
      <4>1. colour[n] = "GRAY" <=> \E i \in 1..Len(path) : path[i] = n
        BY DEF SearchInv, PathIsGray
      <4>2. \A i \in 1..Len(path) : i \in 1..m \/ i = Len(path)
        BY <1>b DEF m
      <4>3. 1..m \subseteq 1..Len(path)
        BY <1>b DEF m
      <4>4. path[Len(path)] # n
        BY <1>b, <3>2
      <4>5. (\E i \in 1..Len(path) : path[i] = n) <=> \E i \in 1..m : path[i] = n
        BY <4>2, <4>3, <4>4
      <4> QED BY <1>c, <3>2, <4>1, <4>5
    <3> QED BY <3>1, <3>2
  <2>2. \A i, j \in 1..m : path[i] = path[j] => i = j
    BY <1>b DEF SearchInv, PathIsGray, m
  <2>3. \A i \in 1..(m - 1) : path'[i] = path[i] /\ path'[i + 1] = path[i + 1]
                            /\ path[i + 1] \in Deps(path[i])
    BY <1>b DEF SearchInv, PathIsGray, m
  <2>4. \A n \in Nodes : colour'[n] = "GRAY" <=> \E i \in 1..Len(path') : path'[i] = n
    BY <1>b, <2>1
  <2>5. \A i, j \in 1..Len(path') : path'[i] = path'[j] => i = j
    BY <1>b, <2>2
  <2>6. \A i \in 1..(Len(path') - 1) : path'[i + 1] \in Deps(path'[i])
    BY <1>b, <2>3
  <2>7. \A n : Deps(n)' = Deps(n)
    BY <1>a DEF Deps
  <2> QED BY <2>4, <2>5, <2>6, <2>7 DEF PathIsGray
<1>3. LookedAt'
  <2>1. \A n \in Nodes : at[n] # 0 /\ (colour'[n] = "WHITE" => at[n] = 1)
    BY <1>c DEF SearchInv, LookedAt
  <2>2. ASSUME NEW i \in 1..m, NEW k \in 1..(at[path[i]] - 1), k <= Len(depends[path[i]])
        PROVE  \/ depends[path[i]][k] \in Black' \cup {Dangling}
               \/ i < m /\ depends[path[i]][k] = path[i + 1]
    <3>1. i \in 1..Len(path)
      BY <1>b DEF m
    <3>2. \/ depends[path[i]][k] \in Black \cup {Dangling}
          \/ depends[path[i]][k] = path[i + 1]
      BY <2>2, <3>1 DEF SearchInv, LookedAt
    <3>3. i < m \/ path[i + 1] = Top
      BY <1>b DEF m
    <3> QED BY <1>e, <3>2, <3>3
  <2>3. ASSUME NEW i \in 1..Len(path'), NEW k \in 1..(at'[path'[i]] - 1), k <= Len(depends'[path'[i]])
        PROVE  \/ depends'[path'[i]][k] \in Black' \cup {Dangling}
               \/ i < Len(path') /\ depends'[path'[i]][k] = path'[i + 1]
    <3>1. i \in 1..m /\ path'[i] = path[i] /\ (i < m => path'[i + 1] = path[i + 1])
      BY <1>b
    <3> QED BY <1>a, <1>b, <2>2, <2>3, <3>1
  <2> QED BY <1>a, <2>1, <2>3 DEF LookedAt
<1>4. BlackIsClosed'
  <2>1. ASSUME NEW d \in Deps(Top) PROVE d \in Black \cup {Dangling}
    <3>1. PICK k \in 1..Len(depends[Top]) : depends[Top][k] = d
      BY <1>0, <1>b, DepsFacts DEF SearchTypes
    <3>2. at[Top] \in Nat /\ Len(depends[Top]) \in Nat
      BY <1>0, <1>b, DepsFacts DEF SearchTypes
    <3>3. k \in 1..(at[path[Len(path)]] - 1) /\ k <= Len(depends[path[Len(path)]])
      BY <1>a, <1>b, <3>1, <3>2
    <3>4. Len(path) \in 1..Len(path)
      BY <1>b
    <3>5. depends[path[Len(path)]][k] \in Black \cup {Dangling}
      BY <1>b, <3>3, <3>4 DEF SearchInv, LookedAt
    <3> QED BY <1>b, <3>1, <3>5
  <2>2. Black \in SUBSET Nodes /\ Top \in Nodes \ Black
    BY <1>b, <1>e DEF Black
  <2>3. AcyclicSet(Black) /\ \A n \in Black : Deps(n) \subseteq Black \cup {Dangling}
    BY DEF SearchInv, BlackIsClosed
  <2>4. Deps(Top) \subseteq Black \cup {Dangling}
    BY <2>1
  <2>5. AcyclicSet(Black \cup {Top})
    BY <2>2, <2>3, <2>4, AcyclicGrows
  <2>6. \A n \in Black \cup {Top} : Deps(n) \subseteq (Black \cup {Top}) \cup {Dangling}
    BY <2>3, <2>4
  <2> QED BY <1>a, <1>e, <2>5, <2>6 DEF BlackIsClosed, AcyclicSet, Deps
<1>5. FindCycleIsRight'
  BY <1>a DEF FindCycleIsRight
<1> QED BY <1>1, <1>2, <1>3, <1>4, <1>5 DEF SearchInv

\* A GRAY dependency closes a cycle along the path.
LEMMA CloseKeeps ==
    ASSUME SearchInv, NEW d \in Nodes \cup {Dangling}, Close(d)
    PROVE  SearchInv'
<1> USE DEF order
<1>0. SearchTypes
  BY DEF SearchInv
<1>a. /\ phase' = "cyclic" /\ Looking(d) /\ d \in Nodes
      /\ UNCHANGED <<depends, colour, path, at, ordered, remaining>>
  BY DEF Close, Colour
<1>b. PICK i \in 1..Len(path) : path[i] = d /\ found' = Append(SubSeq(path, i, Len(path)), d)
  BY DEF Close
<1>c. path # <<>> /\ Top = path[Len(path)] /\ Top \in Nodes /\ Len(path) \in Nat \ {0}
  BY <1>0, <1>a, PathFacts DEF Looking, SearchTypes
<1>d. d \in Deps(Top)
  <2>1. at[Top] \in 1..Len(depends[Top])
    BY <1>0, <1>a, <1>c, DepsFacts DEF Looking, SearchInv, LookedAt, SearchTypes
  <2> QED BY <1>0, <1>a, <1>c, <2>1, DepsFacts DEF Looking, SearchTypes
<1>e. /\ found' \in Seq(Nodes) /\ Len(found') = Len(path) - i + 2 /\ found'[Len(found')] = d
      /\ \A j \in 1..(Len(path) - i + 1) : found'[j] = path[i + j - 1]
  BY <1>0, <1>a, <1>b, LoopFacts DEF SearchTypes
<1>1. SearchTypes'
  BY <1>0, <1>a, <1>e DEF SearchTypes, Phases
<1>2. PathIsGray' /\ LookedAt' /\ BlackIsClosed'
  <2>1. PathIsGray'
    BY <1>a DEF SearchInv, PathIsGray, Deps
  <2>2. LookedAt'
    BY <1>a DEF SearchInv, LookedAt, Black
  <2>3. BlackIsClosed'
    BY <1>a DEF SearchInv, BlackIsClosed, AcyclicSet, Deps, Black
  <2> QED BY <2>1, <2>2, <2>3
<1>3. FindCycleIsRight'
  <2>1. Len(found') > 1 /\ found'[1] = found'[Len(found')]
    BY <1>b, <1>c, <1>e
  <2>2. ASSUME NEW j \in 1..(Len(found') - 1) PROVE found'[j + 1] \in Deps(found'[j])
    <3>1. j \in 1..(Len(path) - i + 1) /\ found'[j] = path[i + j - 1]
      BY <1>c, <1>e
    <3>2. CASE j = Len(path) - i + 1
      BY <1>c, <1>d, <1>e, <3>1, <3>2
    <3>3. CASE j < Len(path) - i + 1
      <4>1. found'[j + 1] = path[i + j] /\ i + j - 1 \in 1..(Len(path) - 1)
        BY <1>c, <1>e, <3>3
      <4>2. path[(i + j - 1) + 1] \in Deps(path[i + j - 1])
        BY <4>1 DEF SearchInv, PathIsGray
      <4> QED BY <1>c, <3>1, <4>1, <4>2
    <3> QED BY <1>c, <3>1, <3>2, <3>3
  <2> QED BY <1>a, <2>1, <2>2 DEF FindCycleIsRight, Deps
<1> QED BY <1>1, <1>2, <1>3 DEF SearchInv

\* Every step of find_cycle and of topological_order keeps the invariant.
LEMMA StepInv == SearchInv /\ [Next]_vars => SearchInv'
<1> SUFFICES ASSUME SearchInv, [Next]_vars PROVE SearchInv'
  OBVIOUS
<1> USE DEF search, order
<1>0. SearchTypes
  BY DEF SearchInv
<1>1. ASSUME NEW n \in Nodes, VisitRoot(n) PROVE SearchInv'
  BY <1>1, EnterKeeps DEF VisitRoot
<1>2. ASSUME NEW d \in Nodes \cup {Dangling}, Visit(d) PROVE SearchInv'
  <2>1. CASE Descend(d)
    <3>1. d \in Nodes /\ colour[d] = "WHITE"
      BY <2>1 DEF Descend, Colour
    <3> QED BY <2>1, <3>1, EnterKeeps DEF Descend, Looking
  <2> QED BY <1>2, <2>1, PassKeeps, CloseKeeps DEF Visit
<1>3. CASE Leave
  BY <1>3, LeaveKeeps
<1>4. ASSUME UNCHANGED <<depends, search>>, phase # "cyclic", phase' # "cyclic",
             remaining' \in SUBSET Nodes, phase' \in Phases,
             phase' \in {"order", "ordered", "stuck"} => Acyclic
      PROVE  SearchInv'
  BY <1>0, <1>4, ZenonT(30) DEF SearchInv, SearchTypes, PathIsGray, LookedAt, BlackIsClosed, AcyclicSet,
        Acyclic,
                    FindCycleIsRight, Deps, Black
<1>5. CASE NoCycle
  <2>1. Black = Nodes
    BY <1>0, <1>5 DEF NoCycle, Black, SearchInv, PathIsGray, SearchTypes, Colours
  <2>2. Acyclic
    BY <2>1 DEF SearchInv, BlackIsClosed, Acyclic
  <2> QED BY <1>0, <1>4, <1>5, <2>2 DEF NoCycle, SearchTypes, Phases
<1>6. CASE Round
  BY <1>0, <1>4, <1>6 DEF Round, SearchTypes, SearchInv, FindCycleIsRight
<1>7. CASE Finished
  BY <1>0, <1>4, <1>7 DEF Finished, Ends, SearchTypes, Phases, SearchInv, FindCycleIsRight
<1>8. CASE UNCHANGED vars
  BY <1>0, <1>8, ZenonT(30) DEF vars, SearchInv, SearchTypes, PathIsGray, LookedAt, BlackIsClosed,
        AcyclicSet, Acyclic,
                    FindCycleIsRight, Deps, Black
<1> QED BY <1>1, <1>2, <1>3, <1>5, <1>6, <1>7, <1>8 DEF Next

\* The invariant holds throughout.
THEOREM SearchInvHolds == Spec => []SearchInv
BY InitInv, StepInv, PTL DEF Spec

\* find_cycle returns a cycle, or None exactly when there is none.
THEOREM FindCycleIsCorrect == Spec => []FindCycleIsRight
<1>1. SearchInv => FindCycleIsRight
  BY DEF SearchInv
<1> QED BY <1>1, SearchInvHolds, PTL

\* What topological_order has placed: the steps that are not remaining, each
\* once, after what they depend on and on nothing that remains.
OrderInv ==
    /\ ordered \in Seq(Nodes)
    /\ \A n \in Nodes : n \notin remaining <=> \E i \in 1..Len(ordered) : ordered[i] = n
    /\ \A i \in 1..Len(ordered) : Deps(ordered[i]) \cap remaining = {}
    /\ phase = "ordered" => remaining = {}
    /\ OrderIsRight

\* What is behind and before the seam of two sequences, the second a function.
LEMMA BatchFacts ==
    ASSUME NEW S, NEW s \in Seq(S), NEW c \in Nat, NEW b \in [1..c -> S]
    PROVE  /\ s \o b \in Seq(S) /\ Len(s \o b) = Len(s) + c
           /\ \A i \in 1..Len(s) : (s \o b)[i] = s[i]
           /\ \A i \in 1..c : (s \o b)[Len(s) + i] = b[i]
<1>1. b \in Seq(S) /\ Len(b) = c
  OBVIOUS
<1> QED BY <1>1

\* A round puts steps behind the others that nothing so far depends on.
LEMMA RoundKeeps ==
    ASSUME SearchInv, OrderInv, Round
    PROVE  OrderInv'
<1> DEFINE c == Cardinality(Ready)
           m == Len(ordered)
<1>0. SearchTypes /\ remaining \subseteq Nodes /\ Ready \subseteq remaining
  BY DEF SearchInv, SearchTypes, Ready
<1>1. c \in Nat
  <2>1. 1 \in Int /\ N \in Int /\ Ready \in SUBSET (1..N)
    BY <1>0, SizeAssumption DEF Nodes
  <2>2. IsFiniteSet(Ready)
    BY <2>1, FS_Interval, FS_Subset
  <2> QED BY <2>2, FS_CardinalityType
<1>2. PICK batch \in [1..c -> Ready] :
         /\ \A i, j \in 1..c : i < j => batch[i] < batch[j]
         /\ \A n \in Ready : \E i \in 1..c : batch[i] = n
         /\ ordered' = ordered \o batch
  BY DEF Round
<1>3. phase = "order" /\ phase' = "order" /\ depends' = depends /\ remaining' = remaining \ Ready
  BY DEF Round
<1>4. m \in Nat /\ ordered \in Seq(Nodes)
  BY DEF OrderInv
<1>5. /\ ordered' \in Seq(Nodes) /\ Len(ordered') = m + c
      /\ \A i \in 1..m : ordered'[i] = ordered[i]
      /\ \A i \in 1..c : ordered'[m + i] = batch[i]
  <2>1. batch \in [1..c -> Nodes]
    BY <1>0, <1>2
  <2> HIDE DEF c
  <2>2. /\ ordered \o batch \in Seq(Nodes) /\ Len(ordered \o batch) = m + c
        /\ \A i \in 1..m : (ordered \o batch)[i] = ordered[i]
        /\ \A i \in 1..c : (ordered \o batch)[m + i] = batch[i]
    BY <1>1, <1>4, <2>1, BatchFacts
  <2> QED BY <1>2, <2>2
<1>6. ASSUME NEW i \in 1..Len(ordered')
      PROVE  \/ i \in 1..m /\ ordered'[i] = ordered[i]
             \/ i - m \in 1..c /\ ordered'[i] = batch[i - m] /\ i > m
  <2>1. CASE i <= m
    BY <1>4, <1>5, <2>1
  <2>2. CASE i > m
    <3>1. i - m \in 1..c /\ m + (i - m) = i
      BY <1>1, <1>4, <1>5, <2>2
    <3> QED BY <1>5, <2>2, <3>1
  <2> QED BY <1>4, <1>5, <2>1, <2>2
<1>7. \A n \in Nodes : n \notin remaining' <=> \E i \in 1..Len(ordered') : ordered'[i] = n
  <2> SUFFICES ASSUME NEW n \in Nodes
               PROVE  n \notin remaining' <=> \E i \in 1..Len(ordered') : ordered'[i] = n
    OBVIOUS
  <2>1. CASE n \notin remaining
    <3>1. PICK i \in 1..m : ordered[i] = n
      BY <2>1 DEF OrderInv
    <3>2. i \in 1..Len(ordered') /\ ordered'[i] = n
      BY <1>1, <1>4, <1>5, <3>1
    <3> QED BY <1>3, <2>1, <3>2
  <2>2. CASE n \in Ready
    <3>1. PICK i \in 1..c : batch[i] = n
      BY <1>2, <2>2
    <3>2. m + i \in 1..Len(ordered') /\ ordered'[m + i] = n
      BY <1>1, <1>4, <1>5, <3>1
    <3> QED BY <1>3, <2>2, <3>2
  <2>3. CASE n \in remaining /\ n \notin Ready
    <3>1. ASSUME NEW i \in 1..Len(ordered'), ordered'[i] = n PROVE FALSE
      BY <1>2, <1>6, <2>3, <3>1 DEF OrderInv
    <3> QED BY <1>3, <2>3, <3>1
  <2> QED BY <2>1, <2>2, <2>3
<1>8. \A i \in 1..Len(ordered') : Deps(ordered'[i]) \cap remaining' = {}
  BY <1>2, <1>3, <1>6 DEF OrderInv, Ready
<1>9. OrderIsRight'
  <2>1. ASSUME NEW i \in 1..Len(ordered'), NEW j \in 1..Len(ordered'), ordered'[i] = ordered'[j], i # j
        PROVE  FALSE
    <3>1. ASSUME NEW x \in 1..m, NEW y \in 1..c PROVE ordered[x] # batch[y]
      BY <1>0, <1>2, <3>1 DEF OrderInv
    <3>2. ASSUME NEW x \in 1..c, NEW y \in 1..c, batch[x] = batch[y] PROVE x = y
      <4>1. batch[x] \in 1..N /\ batch[y] \in 1..N
        BY <1>0, <1>2 DEF Nodes
      <4> QED BY <1>1, <1>2, <3>2, <4>1
    <3>3. CASE i \in 1..m /\ ordered'[i] = ordered[i]
      BY <1>6, <2>1, <3>1, <3>3, ZenonT(30) DEF OrderInv, OrderIsRight
    <3>4. CASE i - m \in 1..c /\ ordered'[i] = batch[i - m]
      <4>1. j - m \in 1..c /\ ordered'[j] = batch[j - m]
        BY <1>6, <2>1, <3>1, <3>4
      <4>2. i - m = j - m
        BY <2>1, <3>2, <3>4, <4>1
      <4> QED BY <1>1, <1>4, <1>5, <2>1, <4>2
    <3> QED BY <1>6, <3>3, <3>4
  <2>2. ASSUME NEW i \in 1..Len(ordered'), NEW j \in 1..Len(ordered'),
               ordered'[j] \in Deps(ordered'[i])
        PROVE  j < i
    <3>1. CASE i \in 1..m /\ ordered'[i] = ordered[i]
      <4>1. ordered'[j] \notin remaining
        BY <2>2, <3>1 DEF OrderInv
      <4>2. j \in 1..m /\ ordered'[j] = ordered[j]
        BY <1>0, <1>2, <1>6, <4>1
      <4> QED BY <2>2, <3>1, <4>2 DEF OrderInv, OrderIsRight
    <3>2. CASE i - m \in 1..c /\ ordered'[i] = batch[i - m] /\ i > m
      <4>1. ordered'[j] \notin remaining
        BY <1>2, <2>2, <3>2 DEF Ready
      <4>2. j \in 1..m
        BY <1>0, <1>2, <1>6, <4>1
      <4> QED BY <1>4, <1>5, <3>2, <4>2
    <3> QED BY <1>6, <3>1, <3>2
  <2> QED BY <1>3, <2>1, <2>2 DEF OrderIsRight, Deps
<1> QED BY <1>3, <1>5, <1>7, <1>8, <1>9 DEF OrderInv, Deps

\* topological_order never raises after find_cycle returned None, and returns
\* every step of the plan once, each after what it depends on.
THEOREM OrderHolds == Spec => []OrderIsRight
<1>1. Init => OrderInv
  BY DEF Init, OrderInv, OrderIsRight, Deps
<1>2. SearchInv /\ OrderInv /\ [Next]_vars => OrderInv'
  <2> SUFFICES ASSUME SearchInv, OrderInv, [Next]_vars PROVE OrderInv'
    OBVIOUS
  <2>1. CASE Round
    BY <2>1, RoundKeeps
  <2>2. CASE Finished
    <3>1. UNCHANGED <<depends, ordered, remaining>>
      BY <2>2 DEF Finished, Ends, order
    <3>2. CASE remaining = {}
      <4>1. phase' = "ordered" /\ remaining' = {}
        BY <2>2, <3>1, <3>2 DEF Finished, Ends
      <4> QED BY <3>1, <3>2, <4>1 DEF OrderInv, OrderIsRight, Deps
    <3>3. CASE remaining # {}
      <4>1. remaining \in SUBSET Nodes /\ Ready = {} /\ Acyclic
        BY <2>2 DEF Finished, SearchInv, SearchTypes, FindCycleIsRight
      <4>2. PICK n \in remaining : Deps(n) \cap remaining = {}
        BY <3>3, <4>1 DEF Acyclic, AcyclicSet
      <4> QED BY <4>1, <4>2 DEF Ready
    <3> QED BY <3>2, <3>3
  <2>3. CASE ~Round /\ ~Finished
    <3>1. /\ UNCHANGED <<depends, ordered, remaining>>
          /\ phase' = phase \/ phase' \notin {"stuck", "ordered"}
      BY <2>3 DEF Next, VisitRoot, Visit, Pass, Descend, Close, Leave, NoCycle, vars, order
    <3> QED BY <3>1 DEF OrderInv, OrderIsRight, Deps
  <2> QED BY <2>1, <2>2, <2>3
<1>3. OrderInv => OrderIsRight
  BY DEF OrderInv
<1> QED BY <1>1, <1>2, <1>3, SearchInvHolds, PTL DEF Spec
=============================================================================

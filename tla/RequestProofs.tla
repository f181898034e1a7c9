---------------------------- MODULE RequestProofs ----------------------------
(***************************************************************************)
(* Theorems about what surrounds the run of a request: the context it is   *)
(* given before (Context), what its file tools answer from (Files) and the *)
(* trace that is told of it after (Trace).                                 *)
(***************************************************************************)
EXTENDS Context, Trace, Files,
        FiniteSetTheorems, FunctionTheorems, SequenceTheorems, WellFoundedInduction, TLAPS

-----------------------------------------------------------------------------
(* Numbers.                                                                *)

\* A set of numbers has a least one: the segments below its members are ordered.
LEMMA LeastOf ==
    ASSUME NEW S \in SUBSET Nat, IsFiniteSet(S), S # {}
    PROVE  \E m \in S : \A k \in S : m <= k
<1> DEFINE Below(m) == {k \in S : k < m}
           Segments == {Below(m) : m \in S}
<1>1. IsWellFoundedOn(StrictSubsetOrdering(S), FiniteSubsetsOf(S))
  BY FS_StrictSubsetOrderingWellFounded
<1>2. Segments \subseteq FiniteSubsetsOf(S)
  BY FS_Subset DEF FiniteSubsetsOf
<1>3. Segments # {}
  OBVIOUS
<1>4. PICK s \in Segments : \A t \in Segments : ~(<<t, s>> \in StrictSubsetOrdering(S))
  <2> HIDE DEF Segments
  <2> QED BY <1>1, <1>2, <1>3, WFMin
<1>5. PICK m \in S : s = Below(m)
  BY <1>4
<1>6. ASSUME NEW k \in S, k < m PROVE FALSE
  <2>1. Below(k) \subseteq Below(m) /\ k \in Below(m) /\ k \notin Below(k)
    <3>1. k \in Nat /\ m \in Nat /\ \A j \in S : j \in Nat
      OBVIOUS
    <3>2. \A j \in S : j < k => j < m
      BY <1>6, <3>1
    <3>3. ~(k < k)
      BY <3>1
    <3> QED BY <1>6, <3>2, <3>3
  <2>2. <<Below(k), Below(m)>> \in StrictSubsetOrdering(S)
    BY <2>1 DEF StrictSubsetOrdering
  <2> QED BY <1>4, <1>5, <2>2
<1> QED BY <1>6

\* What is so at first, and stays so with each number up to n, is so for all.
LEMMA UpTo ==
    ASSUME NEW n \in Nat, NEW P, 0 \in P, \A k \in 1..n : k - 1 \in P => k \in P
    PROVE  \A k \in 0..n : k \in P
<1> DEFINE bad == {k \in 0..n : k \notin P}
<1> SUFFICES ASSUME bad # {} PROVE FALSE
  OBVIOUS
<1>1. IsFiniteSet(0..n) /\ bad \in SUBSET Nat
  BY FS_Interval
<1>2. IsFiniteSet(bad)
  BY <1>1, FS_Subset
<1>3. PICK m \in bad : \A k \in bad : m <= k
  BY <1>1, <1>2, LeastOf
<1>4. m \in 1..n
  BY <1>3
<1>5. m - 1 \in 0..n /\ ~(m <= m - 1)
  BY <1>4
<1>6. m - 1 \in P
  BY <1>3, <1>5
<1> QED BY <1>3, <1>4, <1>6

\* A set of positions has a last one.
LEMMA LatestOf ==
    ASSUME NEW n \in Nat, NEW C \in SUBSET (1..n), C # {}
    PROVE  \E x \in C : \A y \in C : y <= x
<1> DEFINE D == {n - x : x \in C}
<1>1. D \in SUBSET (0..n) /\ D # {} /\ D \in SUBSET Nat
  <2>1. \A x \in C : n - x \in 0..n /\ n - x \in Nat
    OBVIOUS
  <2> QED BY <2>1
<1>2. IsFiniteSet(0..n)
  BY FS_Interval
<1>3. IsFiniteSet(D)
  BY <1>1, <1>2, FS_Subset
<1>4. PICK m \in D : \A k \in D : m <= k
  <2> HIDE DEF D
  <2> QED BY <1>1, <1>3, LeastOf
<1>5. PICK x \in C : m = n - x
  BY <1>4
<1>6. ASSUME NEW y \in C PROVE y <= x
  <2>1. n - x <= n - y
    BY <1>4, <1>5
  <2> QED BY <2>1
<1> QED BY <1>6

LEMMA GreatestOf ==
    ASSUME NEW n \in Nat, NEW C \in SUBSET (1..n), C # {}
    PROVE  Max(C) \in C
<1>1. PICK x \in C : \A y \in C : y <= x
  BY LatestOf
<1>2. \E z \in C : \A y \in C : z >= y
  BY <1>1
<1> QED BY <1>2 DEF Max

-----------------------------------------------------------------------------
(* Sequences cut, shortened, reordered and sorted.                         *)

\* What comes of cutting a sequence.
LEMMA CutFacts ==
    ASSUME NEW S, NEW s \in Seq(S), NEW n \in Nat
    PROVE  /\ Cut(s, n) \in Seq(S) /\ Len(Cut(s, n)) = (IF Len(s) < n THEN Len(s) ELSE n)
           /\ Len(s) \in Nat /\ Len(Cut(s, n)) \in Nat /\ DOMAIN Cut(s, n) = 1..Len(Cut(s, n))
           /\ \A i \in 1..Len(Cut(s, n)) : i \in 1..Len(s) /\ Cut(s, n)[i] = s[i]
<1> DEFINE m == IF Len(s) < n THEN Len(s) ELSE n
<1>1. m \in 0..Len(s) /\ m \in Nat /\ Len(s) \in Nat
  OBVIOUS
<1>2. Cut(s, n) = SubSeq(s, 1, m)
  BY DEF Cut
<1> HIDE DEF m
<1>3. /\ SubSeq(s, 1, m) \in Seq(S) /\ Len(SubSeq(s, 1, m)) = m
      /\ \A i \in 1..m : i \in 1..Len(s) /\ SubSeq(s, 1, m)[i] = s[i]
  BY <1>1
<1> QED BY <1>1, <1>2, <1>3 DEF m

\* What is left of a sequence without its i-th element.
LEMMA RemovedFacts ==
    ASSUME NEW S, NEW s \in Seq(S), NEW i \in DOMAIN s
    PROVE  /\ RemoveAt(s, i) \in Seq(S) /\ Len(s) \in Nat /\ Len(RemoveAt(s, i)) = Len(s) - 1
           /\ \A k \in DOMAIN RemoveAt(s, i) :
                /\ (IF k < i THEN k ELSE k + 1) \in DOMAIN s \ {i}
                /\ RemoveAt(s, i)[k] = s[IF k < i THEN k ELSE k + 1]
<1> DEFINE a == SubSeq(s, 1, i - 1)
           b == SubSeq(s, i + 1, Len(s))
<1>1. Len(s) \in Nat /\ i \in 1..Len(s) /\ DOMAIN s = 1..Len(s)
  OBVIOUS
<1>2. a \in Seq(S) /\ Len(a) = i - 1 /\ \A k \in 1..(i - 1) : a[k] = s[k]
  BY <1>1
<1>3. b \in Seq(S) /\ Len(b) = Len(s) - i /\ \A k \in 1..(Len(s) - i) : b[k] = s[i + k]
  BY <1>1
<1>4. RemoveAt(s, i) = a \o b
  BY DEF RemoveAt
<1> HIDE DEF a, b
<1>5. /\ a \o b \in Seq(S) /\ Len(a \o b) = Len(s) - 1 /\ DOMAIN (a \o b) = 1..(Len(s) - 1)
      /\ \A k \in 1..(Len(s) - 1) : /\ k <= i - 1 => (a \o b)[k] = a[k]
                                   /\ ~(k <= i - 1) => (a \o b)[k] = b[k - (i - 1)]
  <2>1. a \o b \in Seq(S) /\ Len(a \o b) = Len(a) + Len(b)
    BY <1>2, <1>3, ConcatProperties
  <2>2. Len(a) + Len(b) = Len(s) - 1
    BY <1>1, <1>2, <1>3
  <2>3. DOMAIN (a \o b) = 1..(Len(s) - 1)
    BY <2>1, <2>2
  <2>4. \A k \in 1..(Len(a) + Len(b)) : (a \o b)[k] = IF k <= Len(a) THEN a[k] ELSE b[k - Len(a)]
    BY <1>2, <1>3, ConcatProperties
  <2> QED BY <1>2, <2>1, <2>2, <2>3, <2>4
<1>6. ASSUME NEW k \in 1..(Len(s) - 1)
      PROVE  /\ (IF k < i THEN k ELSE k + 1) \in DOMAIN s \ {i}
             /\ (a \o b)[k] = s[IF k < i THEN k ELSE k + 1]
  <2>1. CASE k < i
    <3>1. k \in 1..(i - 1) /\ k <= i - 1
      BY <2>1, <1>1
    <3>2. (a \o b)[k] = s[k]
      BY <3>1, <1>2, <1>5
    <3>3. k \in DOMAIN s \ {i}
      BY <2>1, <1>1
    <3> QED BY <2>1, <3>2, <3>3
  <2>2. CASE ~(k < i)
    <3>1. k - (i - 1) \in 1..(Len(s) - i) /\ i + (k - (i - 1)) = k + 1 /\ ~(k <= i - 1)
      BY <2>2, <1>1
    <3>2. (a \o b)[k] = b[k - (i - 1)] /\ b[k - (i - 1)] = s[i + (k - (i - 1))]
      BY <3>1, <1>2, <1>3, <1>5
    <3> QED BY <2>2, <3>1, <3>2, <1>1
  <2> QED BY <2>1, <2>2
<1> QED BY <1>1, <1>4, <1>5, <1>6

\* A sequence whose i-th element is rewritten and put first.
LEMMA ToFrontFacts ==
    ASSUME NEW S, NEW s \in Seq(S), NEW i \in DOMAIN s, NEW e \in S
    PROVE  LET t == <<e>> \o RemoveAt(s, i)
           IN  /\ t \in Seq(S) /\ Len(t) = Len(s) /\ t[1] = e
               /\ \A k \in DOMAIN t \ {1} :
                    /\ (IF k <= i THEN k - 1 ELSE k) \in DOMAIN s \ {i}
                    /\ t[k] = s[IF k <= i THEN k - 1 ELSE k]
<1> DEFINE q == RemoveAt(s, i)
<1>1. /\ q \in Seq(S) /\ Len(s) \in Nat /\ Len(q) = Len(s) - 1 /\ Len(q) \in Nat /\ DOMAIN q = 1..Len(q)
      /\ \A k \in DOMAIN q : /\ (IF k < i THEN k ELSE k + 1) \in DOMAIN s \ {i}
                             /\ q[k] = s[IF k < i THEN k ELSE k + 1]
  BY RemovedFacts
<1>2. i \in 1..Len(s) /\ DOMAIN s = 1..Len(s)
  OBVIOUS
<1> HIDE DEF q
<1> DEFINE t == <<e>> \o q
<1>3. /\ t \in Seq(S) /\ Len(t) = 1 + Len(q) /\ t[1] = e /\ DOMAIN t = 1..(1 + Len(q))
      /\ \A k \in 2..(1 + Len(q)) : t[k] = q[k - 1]
  BY <1>1
<1> HIDE DEF t
<1>4. ASSUME NEW k \in DOMAIN t \ {1}
      PROVE  /\ (IF k <= i THEN k - 1 ELSE k) \in DOMAIN s \ {i}
             /\ t[k] = s[IF k <= i THEN k - 1 ELSE k]
  <2>1. k \in 2..(1 + Len(q)) /\ k - 1 \in DOMAIN q /\ t[k] = q[k - 1]
    BY <1>1, <1>3
  <2>2. (IF k - 1 < i THEN k - 1 ELSE (k - 1) + 1) = (IF k <= i THEN k - 1 ELSE k)
    BY <2>1, <1>1, <1>2
  <2> QED BY <2>1, <2>2, <1>1
<1>5. t \in Seq(S) /\ Len(t) = Len(s) /\ t[1] = e
  BY <1>1, <1>3
<1> QED BY <1>4, <1>5 DEF q, t

\* Sorted lists a finite set in an order that is total on it, each element once.
LEMMA SortedFacts ==
    ASSUME NEW S, IsFiniteSet(S), NEW before,
           \A i \in S : <<i, i>> \notin before,
           \A i, j \in S : i # j => <<i, j>> \in before \/ <<j, i>> \in before,
           \A i, j, k \in S : <<i, j>> \in before /\ <<j, k>> \in before => <<i, k>> \in before
    PROVE  LET n == Cardinality(S)
               order == Sorted(S, before)
           IN  /\ n \in Nat /\ order \in [1..n -> S]
               /\ \A i \in S : \E r \in 1..n : order[r] = i
               /\ \A q, r \in 1..n : q < r => <<order[q], order[r]>> \in before
<1> DEFINE n == Cardinality(S)
           below == [i \in S |-> {j \in S : <<j, i>> \in before}]
           order == Sorted(S, before)
<1>1. n \in Nat
  BY FS_CardinalityType
<1>2. \A i \in S : below[i] \in SUBSET S /\ \A j \in S : j \in below[i] <=> <<j, i>> \in before
  OBVIOUS
<1>3. \A r \in 1..n : order[r] = CHOOSE i \in S : Cardinality({j \in S : <<j, i>> \in before}) = r - 1
  BY DEF Sorted
<1>20. \A i \in S : below[i] = {j \in S : <<j, i>> \in before}
  OBVIOUS
<1>21. DOMAIN order = 1..n /\ order = [r \in 1..n |-> order[r]]
  <2> DEFINE h(r) == CHOOSE i \in S : Cardinality({j \in S : <<j, i>> \in before}) = r - 1
  <2>1. order = [r \in 1..n |-> h(r)]
    BY DEF Sorted
  <2> HIDE DEF h, order, n
  <2> QED BY <2>1
<1> HIDE DEF below
<1>4. ASSUME NEW i \in S
      PROVE  IsFiniteSet(below[i]) /\ Cardinality(below[i]) \in Nat /\ Cardinality(below[i]) < n
  <2>1. below[i] \in SUBSET S /\ i \notin below[i]
    BY <1>2
  <2>2. /\ IsFiniteSet(below[i]) /\ Cardinality(below[i]) <= n
        /\ (n = Cardinality(below[i]) => S = below[i])
    BY <2>1, FS_Subset
  <2>3. Cardinality(below[i]) \in Nat
    BY <2>2, FS_CardinalityType
  <2>4. n # Cardinality(below[i])
    BY <2>1, <2>2
  <2> HIDE DEF n
  <2> QED BY <1>1, <2>2, <2>3, <2>4
<1>5. ASSUME NEW i \in S, NEW j \in S, <<i, j>> \in before
      PROVE  Cardinality(below[i]) < Cardinality(below[j])
  <2>1. below[i] \in SUBSET below[j]
    BY <1>2, <1>5
  <2>2. i \in below[j] /\ i \notin below[i]
    BY <1>2, <1>5
  <2>3. IsFiniteSet(below[j]) /\ Cardinality(below[i]) \in Nat /\ Cardinality(below[j]) \in Nat
    BY <1>4
  <2>4. Cardinality(below[i]) <= Cardinality(below[j])
        /\ (Cardinality(below[j]) = Cardinality(below[i]) => below[j] = below[i])
    BY <2>1, <2>3, FS_Subset
  <2>5. below[i] # below[j]
    BY <2>2
  <2> QED BY <2>3, <2>4, <2>5
<1> DEFINE place == [i \in S |-> Cardinality(below[i]) + 1]
<1>6. \A i \in S : place[i] \in 1..n /\ place[i] = Cardinality(below[i]) + 1
  BY <1>1, <1>4
<1>7. \A i, j \in S : <<i, j>> \in before => place[i] < place[j]
  BY <1>4, <1>5, <1>6
<1>9. \A i \in S, r \in 1..n : Cardinality(below[i]) = r - 1 <=> place[i] = r
  BY <1>1, <1>4, <1>6
<1>10. place \in [S -> 1..n]
  BY <1>6
<1> HIDE DEF n, order, place
<1>11. \A i, j \in S : place[i] = place[j] => i = j
  <2>1. ASSUME NEW i \in S, NEW j \in S, i # j PROVE place[i] # place[j]
    <3>1. <<i, j>> \in before \/ <<j, i>> \in before
      BY <2>1
    <3> QED BY <3>1, <1>6, <1>7
  <2> QED BY <2>1
<1>12. place \in Injection(S, 1..n)
  BY <1>10, <1>11, Fun_IsInj
<1>13. IsFiniteSet(1..n) /\ Cardinality(1..n) = n
  BY <1>1, FS_Interval
<1>14. place \in Surjection(S, 1..n)
  BY <1>12, <1>13, FS_Injection DEF n
<1>15. \A r \in 1..n : \E i \in S : place[i] = r
  BY <1>14, Zenon DEF Surjection
<1>16. \A r \in 1..n : order[r] \in S /\ place[order[r]] = r
  <2>1. ASSUME NEW r \in 1..n PROVE order[r] \in S /\ place[order[r]] = r
    <3>1. PICK i \in S : Cardinality(below[i]) = r - 1
      BY <1>9, <1>15
    <3>2. \E k \in S : Cardinality({j \in S : <<j, k>> \in before}) = r - 1
      BY <3>1, <1>20
    <3>3. order[r] \in S /\ Cardinality({j \in S : <<j, order[r]>> \in before}) = r - 1
      BY <3>2, <1>3, Zenon
    <3>4. Cardinality(below[order[r]]) = r - 1
      BY <3>3, <1>20, Zenon
    <3> QED BY <3>3, <3>4, <1>9
  <2> QED BY <2>1
<1>17. order \in [1..n -> S]
  BY <1>16, <1>21
<1>18. \A i \in S : \E r \in 1..n : order[r] = i
  <2>1. ASSUME NEW i \in S PROVE order[place[i]] = i /\ place[i] \in 1..n
    BY <1>6, <1>11, <1>16
  <2> QED BY <2>1
<1>19. ASSUME NEW q \in 1..n, NEW r \in 1..n, q < r
       PROVE  <<order[q], order[r]>> \in before
  <2>1. order[q] \in S /\ order[r] \in S /\ place[order[q]] = q /\ place[order[r]] = r
    BY <1>16
  <2>2. order[q] # order[r]
    BY <2>1, <1>19
  <2>3. CASE <<order[r], order[q]>> \in before
    <3>1. r < q
      BY <2>1, <2>3, <1>7
    <3> QED BY <3>1, <1>19
  <2> QED BY <2>1, <2>2, <2>3
<1> QED BY <1>1, <1>17, <1>18, <1>19 DEF n, order

\* What is left after the first.
LEMMA TailFacts ==
    ASSUME NEW S, NEW s \in Seq(S), s # <<>>
    PROVE  /\ Head(s) \in S /\ Tail(s) \in Seq(S) /\ Len(s) \in Nat /\ Len(Tail(s)) = Len(s) - 1
           /\ \A i \in DOMAIN Tail(s) : i + 1 \in DOMAIN s /\ Tail(s)[i] = s[i + 1]
<1>1. Len(s) \in Nat \ {0} /\ DOMAIN s = 1..Len(s)
  OBVIOUS
<1>2. Head(s) \in S /\ Tail(s) \in Seq(S) /\ Len(Tail(s)) = Len(s) - 1
  BY <1>1
<1>3. DOMAIN Tail(s) = 1..(Len(s) - 1)
  BY <1>1, <1>2
<1>4. \A i \in 1..(Len(s) - 1) : i + 1 \in 1..Len(s) /\ Tail(s)[i] = s[i + 1]
  BY <1>1
<1> QED BY <1>1, <1>2, <1>3, <1>4

-----------------------------------------------------------------------------
(***************************************************************************)
(* Context, for any store, world, objectives and bounds: the context of a  *)
(* request is honest. Induction needs to know of every collection that its *)
(* evidence is as it was when gathered, and that what it shows so far is   *)
(* what it keeps, in order, compared with that evidence.                   *)
(***************************************************************************)

ReadMemories == [id : Nat, key : DOMAIN Said, type : MemoryType, high : BOOLEAN, path : Paths, port : Nat,
                 conflict : {"none", "port", "missing"}, stale : BOOLEAN]
Workspaces == [path : DOMAIN Canonical, verified : BOOLEAN, active : BOOLEAN]
AllObjectives == UNION {Objectives[c] : c \in Collections}
Packets == [memories : Seq(ReadMemories), workspaces : Seq(Workspaces), truncated : BOOLEAN]
Stages == {"idle", "memories", "detect", "reconcile", "done", "without"}

\* What is known of a collection.
Gatherings ==
    [stage : Stages, objective : AllObjectives \cup {Nowhere}, processes : Seq(ProcessRows),
     read : Seq(ReadMemories), toTry : Seq(DOMAIN Canonical), found : Seq(Workspaces),
     toCheck : Seq(ReadMemories), shown : Seq(ReadMemories), truncated : BOOLEAN,
     packet : Packets \cup {Nowhere}]

ContextTypes ==
    /\ memories \in Seq(MemoryRows)
    /\ running \in Seq(ProcessRows)
    /\ work \in [Collections -> Gatherings]

OneRowEach(rows) == \A i, j \in DOMAIN rows : rows[i].id = rows[j].id => i = j

\* What was read is as the store had it; the active workspace is the first
\* that verified, and who typed paths is shown none but those.
Grounded(w) ==
    /\ OneRowEach(w.read)
    /\ \A i \in DOMAIN w.read : w.read[i].conflict = "none"
    /\ \A i \in DOMAIN w.found :
        w.found[i].active <=> w.found[i].verified /\ \A j \in 1..(i - 1) : ~w.found[j].verified
    /\ w.stage # "idle" =>
        /\ w.objective \in AllObjectives
        /\ w.objective.named # <<>> =>
            /\ \A i \in DOMAIN w.toTry : w.toTry[i] \in ToSet(w.objective.named)
            /\ \A i \in DOMAIN w.found : \E p \in ToSet(w.objective.named) : w.found[i].path \in {p, Canonical[p]}

Ranked(w) == Rank(w.read, w.objective, ActiveIn(w.found))

\* What was kept has been compared in order, or is yet to be.
Compares(w) ==
    LET kept == Cut(Ranked(w), MaxMemories)
    IN  /\ Len(w.shown) + Len(w.toCheck) = Len(kept)
        /\ \A i \in DOMAIN w.shown : w.shown[i] = Compared(kept[i], w.found, w.processes)
        /\ \A i \in DOMAIN w.toCheck : w.toCheck[i] = kept[Len(w.shown) + i]
        /\ w.truncated <=> Len(Ranked(w)) > MaxMemories

Proceeds(w) ==
    /\ w.stage = "memories" => w.found = <<>> /\ w.toTry = <<>> /\ w.shown = <<>>
    /\ w.stage = "detect" => w.toTry # <<>> /\ w.shown = <<>>
    /\ w.stage = "reconcile" => w.toCheck # <<>> /\ Compares(w)
    /\ w.stage = "done" => /\ w.toCheck = <<>> /\ Compares(w) /\ w.packet \in Packets
                           /\ w.packet.memories = w.shown /\ w.packet.truncated = w.truncated

GathersWell(w) == Grounded(w) /\ Proceeds(w)

ContextInv ==
    /\ ContextTypes /\ OneRowEach(memories) /\ StaleIsReported
    /\ \A c \in Collections : GathersWell(work[c])

\* Moving a row to the front and rewriting all but its id keeps ids apart.
LEMMA MovedKeepsIds ==
    ASSUME NEW rows \in Seq(MemoryRows), OneRowEach(rows), NEW i \in DOMAIN rows,
           NEW moved \in Seq(MemoryRows), Len(moved) = Len(rows), moved[1].id = rows[i].id,
           \A k \in DOMAIN moved \ {1} : /\ (IF k <= i THEN k - 1 ELSE k) \in DOMAIN rows \ {i}
                                         /\ moved[k] = rows[IF k <= i THEN k - 1 ELSE k]
    PROVE  OneRowEach(moved)
<1> DEFINE from(k) == IF k <= i THEN k - 1 ELSE k
<1>1. i \in Nat /\ \A k \in DOMAIN moved : k \in Nat
  OBVIOUS
<1>2. \A k, m \in DOMAIN moved \ {1} : from(k) = from(m) => k = m
  <2>1. ASSUME NEW k \in DOMAIN moved \ {1}, NEW m \in DOMAIN moved \ {1}, from(k) = from(m) PROVE k = m
    <3>1. from(k) # i /\ from(m) # i /\ k \in Nat /\ m \in Nat
      BY <1>1
    <3> QED BY <1>1, <2>1, <3>1
  <2> QED BY <2>1
<1>3. \A k \in DOMAIN moved \ {1} : from(k) \in DOMAIN rows /\ from(k) # i /\ moved[k] = rows[from(k)]
  OBVIOUS
<1> HIDE DEF from
<1>4. \A k, m \in DOMAIN rows : rows[k].id = rows[m].id => k = m
  BY DEF OneRowEach
<1>5. ASSUME NEW k \in DOMAIN moved, NEW m \in DOMAIN moved, moved[k].id = moved[m].id PROVE k = m
  <2>1. CASE k = 1 /\ m = 1
    BY <2>1
  <2>2. CASE k = 1 /\ m # 1
    BY <2>2, <1>3, <1>4, <1>5
  <2>3. CASE k # 1 /\ m = 1
    BY <2>3, <1>3, <1>4, <1>5
  <2>4. CASE k # 1 /\ m # 1
    BY <2>4, <1>2, <1>3, <1>4, <1>5
  <2> QED BY <2>1, <2>2, <2>3, <2>4
<1> QED BY <1>5 DEF OneRowEach

-----------------------------------------------------------------------------
(* What is relevant.                                                       *)

Recalls(o) == o.intent = "RECALL" /\ ~o.mission
IsRelevant(m, o, active) == Recalls(o) \/ ScoreMemory(m, o, active) >= MIN_SCORE

LEMMA ScoresAreNumbers ==
    ASSUME NEW m \in ReadMemories, NEW o, NEW active
    PROVE  ScoreMemory(m, o, active) \in Int
<1>1. Said[m.key] \in Int
  BY ContextAssumption DEF ReadMemories
<1>2. PathScore(m.path, o, active) \in Int
  BY DEF PathScore
<1> DEFINE types(intent) == INTENT_TYPES(intent)
<1> HIDE DEF types
<1> QED BY <1>1, <1>2 DEF ScoreMemory

\* A ranking has what is relevant of what was read, each once, best first.
LEMMA RankFacts ==
    ASSUME NEW read \in Seq(ReadMemories), OneRowEach(read), NEW o, NEW active
    PROVE  LET ranked == Rank(read, o, active)
           IN  /\ ranked \in Seq(ReadMemories)
               /\ \A r \in DOMAIN ranked :
                    /\ \E i \in DOMAIN read : ranked[r] = read[i]
                    /\ IsRelevant(ranked[r], o, active)
               /\ \A i \in DOMAIN read : IsRelevant(read[i], o, active) => \E r \in DOMAIN ranked : ranked[r] = read[i]
               /\ OneRowEach(ranked)
               /\ ~Recalls(o) => \A q, r \in DOMAIN ranked :
                    q < r => ScoreMemory(ranked[q], o, active) >= ScoreMemory(ranked[r], o, active)
<1> DEFINE ranked == Rank(read, o, active)
<1>1. CASE Recalls(o)
  <2>1. ranked = read
    BY <1>1 DEF Rank, Recalls
  <2> HIDE DEF ranked
  <2>2. \A r \in DOMAIN read : \E i \in DOMAIN read : read[r] = read[i]
    OBVIOUS
  <2> QED BY <1>1, <2>1, <2>2 DEF IsRelevant, ranked
<1>2. CASE ~Recalls(o)
  <2> DEFINE score(i) == ScoreMemory(read[i], o, active)
             relevant == {i \in DOMAIN read : score(i) >= MIN_SCORE}
             before == {p \in relevant \X relevant :
                            score(p[1]) > score(p[2]) \/ (score(p[1]) = score(p[2]) /\ p[1] < p[2])}
             order == Sorted(relevant, before)
             n == Cardinality(relevant)
  <2>1. ranked = [r \in DOMAIN order |-> read[order[r]]]
    BY <1>2 DEF Rank, Recalls
  <2>2. \A i \in DOMAIN read : score(i) \in Int
    BY ScoresAreNumbers
  <2>3. DOMAIN read = 1..Len(read) /\ Len(read) \in Nat
    OBVIOUS
  <2>4. IsFiniteSet(relevant)
    <3>1. IsFiniteSet(1..Len(read)) /\ relevant \in SUBSET (1..Len(read))
      BY <2>3, FS_Interval
    <3> QED BY <3>1, FS_Subset
  <2>5. \A i \in relevant : i \in DOMAIN read /\ i \in Nat /\ score(i) \in Int /\ score(i) >= MIN_SCORE
    BY <2>2, <2>3
  <2>6. \A i, j \in relevant :
            <<i, j>> \in before <=> score(i) > score(j) \/ (score(i) = score(j) /\ i < j)
    OBVIOUS
  <2>7. \A i \in DOMAIN read : score(i) >= MIN_SCORE => i \in relevant
    OBVIOUS
  <2> HIDE DEF before, order
  <2> DEFINE sc == [i \in relevant |-> score(i)]
  <2>8. \A i \in relevant : sc[i] = score(i) /\ sc[i] \in Int /\ i \in Nat
    BY <2>5
  <2>9. \A i, j \in relevant : <<i, j>> \in before <=> sc[i] > sc[j] \/ (sc[i] = sc[j] /\ i < j)
    BY <2>6, <2>8
  <2> HIDE DEF relevant, sc, n
  <2>10. \A i \in relevant : <<i, i>> \notin before
    BY <2>8, <2>9
  <2>11. \A i, j \in relevant : i # j => <<i, j>> \in before \/ <<j, i>> \in before
    BY <2>8, <2>9
  <2>12. \A i, j, k \in relevant : <<i, j>> \in before /\ <<j, k>> \in before => <<i, k>> \in before
    BY <2>8, <2>9
  <2>13. /\ n \in Nat /\ order \in [1..n -> relevant]
         /\ \A i \in relevant : \E r \in 1..n : order[r] = i
         /\ \A q, r \in 1..n : q < r => <<order[q], order[r]>> \in before
    BY <2>4, <2>10, <2>11, <2>12, SortedFacts DEF n, order
  <2>14. ranked = [r \in 1..n |-> read[order[r]]]
    BY <2>1, <2>13
  <2> HIDE DEF ranked
  <2>15. \A r \in 1..n : order[r] \in relevant /\ order[r] \in DOMAIN read /\ ranked[r] = read[order[r]]
    BY <2>5, <2>13, <2>14
  <2>16. \A r \in 1..n : read[order[r]] \in ReadMemories
    BY <2>15
  <2>17. ranked \in Seq(ReadMemories) /\ DOMAIN ranked = 1..n
    BY <2>13, <2>14, <2>16
  <2>18. \A r \in DOMAIN ranked : (\E i \in DOMAIN read : ranked[r] = read[i]) /\ IsRelevant(ranked[r], o, active)
    BY <2>5, <2>15, <2>17 DEF IsRelevant
  <2>19. \A i \in DOMAIN read : IsRelevant(read[i], o, active) => \E r \in DOMAIN ranked : ranked[r] = read[i]
    BY <1>2, <2>7, <2>13, <2>15, <2>17 DEF IsRelevant
  <2>20. ASSUME NEW q \in 1..n, NEW r \in 1..n, q < r
         PROVE  /\ ScoreMemory(ranked[q], o, active) >= ScoreMemory(ranked[r], o, active)
                /\ order[q] # order[r]
    <3>1. <<order[q], order[r]>> \in before /\ order[q] \in relevant /\ order[r] \in relevant
      BY <2>13, <2>15, <2>20
    <3>2. sc[order[q]] >= sc[order[r]] /\ order[q] # order[r]
      BY <3>1, <2>8, <2>9, <2>10
    <3> QED BY <3>1, <3>2, <2>8, <2>15
  <2>21. \A q, r \in 1..n : q # r => order[q] # order[r]
    BY <2>13, <2>20
  <2>22. OneRowEach(ranked)
    <3>1. ASSUME NEW q \in 1..n, NEW r \in 1..n, ranked[q].id = ranked[r].id PROVE q = r
      <4>1. order[q] = order[r]
        BY <3>1, <2>15 DEF OneRowEach
      <4> QED BY <4>1, <2>21
    <3> QED BY <3>1, <2>17 DEF OneRowEach
  <2> QED BY <2>17, <2>18, <2>19, <2>20, <2>22 DEF ranked
<1> QED BY <1>1, <1>2

\* Candidates are among the paths they are taken from.
LEMMA EachOnceFacts ==
    ASSUME NEW S, NEW s \in Seq(S)
    PROVE  /\ EachOnce(s) \in Seq(S \ {Nowhere})
           /\ \A r \in DOMAIN EachOnce(s) : EachOnce(s)[r] \in ToSet(s)
<1> DEFINE firsts == {i \in DOMAIN s : s[i] # Nowhere /\ \A j \in 1..(i - 1) : s[j] # s[i]}
           before == {p \in firsts \X firsts : p[1] < p[2]}
           order == Sorted(firsts, before)
           n == Cardinality(firsts)
<1>1. EachOnce(s) = [r \in DOMAIN order |-> s[order[r]]]
  BY DEF EachOnce
<1>2. DOMAIN s = 1..Len(s) /\ Len(s) \in Nat
  OBVIOUS
<1>3. IsFiniteSet(firsts)
  <2>1. IsFiniteSet(1..Len(s)) /\ firsts \in SUBSET (1..Len(s))
    BY <1>2, FS_Interval
  <2> QED BY <2>1, FS_Subset
<1>4. \A i \in firsts : i \in DOMAIN s /\ i \in Nat /\ s[i] # Nowhere
  BY <1>2
<1>5. \A i, j \in firsts : <<i, j>> \in before <=> i < j
  OBVIOUS
<1> HIDE DEF firsts, before, n, order
<1>6. /\ \A i \in firsts : <<i, i>> \notin before
      /\ \A i, j \in firsts : i # j => <<i, j>> \in before \/ <<j, i>> \in before
      /\ \A i, j, k \in firsts : <<i, j>> \in before /\ <<j, k>> \in before => <<i, k>> \in before
  BY <1>4, <1>5
<1>7. n \in Nat /\ order \in [1..n -> firsts]
  BY <1>3, <1>6, SortedFacts DEF n, order
<1>8. /\ EachOnce(s) = [r \in 1..n |-> s[order[r]]]
      /\ \A r \in 1..n : order[r] \in DOMAIN s /\ s[order[r]] # Nowhere /\ s[order[r]] \in S
  BY <1>1, <1>4, <1>7
<1>9. EachOnce(s) \in Seq(S \ {Nowhere}) /\ DOMAIN EachOnce(s) = 1..n
  BY <1>7, <1>8
<1>10. \A r \in DOMAIN EachOnce(s) : EachOnce(s)[r] \in ToSet(s)
  BY <1>8, <1>9 DEF ToSet
<1> QED BY <1>9, <1>10

-----------------------------------------------------------------------------
(* The steps of a collection.                                              *)

LEMMA ComparedFacts ==
    ASSUME NEW m \in ReadMemories, m.conflict = "none", NEW found, NEW processes
    PROVE  LET v == Verdict(m, found, processes)
               shown == Compared(m, found, processes)
           IN  /\ v \in {"port", "missing", "confirmed", "none"}
               /\ shown \in ReadMemories /\ shown.id = m.id /\ shown.path = m.path /\ shown.port = m.port
               /\ v \in Contradicted => shown.conflict = v /\ shown.stale
               /\ v \notin Contradicted => shown.conflict = "none"
<1> DEFINE v == Verdict(m, found, processes)
           shown == Compared(m, found, processes)
<1>1. v \in {"port", "missing", "confirmed", "none"}
  BY DEF Verdict
<1>2. shown = IF v \in Contradicted THEN [m EXCEPT !.stale = TRUE, !.conflict = v] ELSE m
  BY DEF Compared
<1> HIDE DEF v, shown
<1>3. CASE v \in Contradicted
  <2>1. v \in {"none", "port", "missing"} /\ shown = [m EXCEPT !.stale = TRUE, !.conflict = v]
    BY <1>2, <1>3 DEF Contradicted
  <2>2. /\ shown \in ReadMemories /\ shown.id = m.id /\ shown.path = m.path /\ shown.port = m.port
        /\ shown.conflict = v /\ shown.stale = TRUE
    BY <2>1 DEF ReadMemories
  <2> QED BY <1>1, <1>3, <2>2 DEF v, shown
<1>4. CASE v \notin Contradicted
  BY <1>1, <1>2, <1>4 DEF v, shown
<1> QED BY <1>3, <1>4

\* A row marked stale is one of that id; its store has the rows it had.
LEMMA MarkStaleFacts ==
    ASSUME NEW rows \in Seq(MemoryRows), OneRowEach(rows), NEW id
    PROVE  LET marked == MarkStale(rows, id)
           IN  /\ marked \in Seq(MemoryRows) /\ OneRowEach(marked)
               /\ \A i \in DOMAIN marked : marked[i].status = "STALE" =>
                    marked[i].id = id
                    \/ \E j \in DOMAIN rows : rows[j].id = marked[i].id /\ rows[j].status = "STALE"
<1> DEFINE hit == {i \in DOMAIN rows : rows[i].id = id /\ rows[i].status = "ACTIVE"}
           marked == MarkStale(rows, id)
<1>1. CASE hit = {}
  <2>1. marked = rows
    BY <1>1 DEF MarkStale
  <2> HIDE DEF marked
  <2> QED BY <2>1 DEF marked
<1>2. CASE hit # {}
  <2> DEFINE i == CHOOSE j \in hit : TRUE
             e == [rows[i] EXCEPT !.status = "STALE"]
  <2>1. i \in hit
    BY <1>2
  <2>2. marked = <<e>> \o RemoveAt(rows, i)
    BY <1>2 DEF MarkStale
  <2>3. i \in DOMAIN rows /\ rows[i].id = id /\ rows[i] \in MemoryRows
    BY <2>1
  <2> HIDE DEF i, hit
  <2>4. e \in MemoryRows /\ e.id = id
    BY <2>3 DEF MemoryRows
  <2> HIDE DEF e, marked
  <2>5. /\ marked \in Seq(MemoryRows) /\ Len(marked) = Len(rows) /\ marked[1] = e
        /\ \A k \in DOMAIN marked \ {1} :
                /\ (IF k <= i THEN k - 1 ELSE k) \in DOMAIN rows \ {i}
                /\ marked[k] = rows[IF k <= i THEN k - 1 ELSE k]
    BY <2>2, <2>3, <2>4, ToFrontFacts
  <2>6. OneRowEach(marked)
    BY <2>3, <2>4, <2>5, MovedKeepsIds
  <2>7. \A k \in DOMAIN marked \ {1} : \E j \in DOMAIN rows : marked[k] = rows[j]
    BY <2>5
  <2> QED BY <2>4, <2>5, <2>6, <2>7 DEF marked
<1> QED BY <1>1, <1>2

\* Gathering is what it is by these parts of what is known.
LEMMA SameComparisons ==
    ASSUME NEW v, NEW w, v.read = w.read, v.objective = w.objective, v.found = w.found,
           v.processes = w.processes, v.shown = w.shown, v.toCheck = w.toCheck, v.truncated = w.truncated,
           Compares(w)
    PROVE  Compares(v)
<1>1. Ranked(v) = Ranked(w)
  BY DEF Ranked
<1> DEFINE kept == Cut(Ranked(w), MaxMemories)
<1>2. /\ Len(v.shown) + Len(v.toCheck) = Len(kept)
      /\ \A i \in DOMAIN v.shown : v.shown[i] = Compared(kept[i], v.found, v.processes)
      /\ \A i \in DOMAIN v.toCheck : v.toCheck[i] = kept[Len(v.shown) + i]
      /\ v.truncated <=> Len(Ranked(w)) > MaxMemories
  BY Zenon DEF Compares
<1> HIDE DEF kept
<1> QED BY <1>1, <1>2, Zenon DEF Compares, kept

LEMMA SameGround ==
    ASSUME NEW v, NEW w, v.read = w.read, v.objective = w.objective, v.found = w.found, v.toTry = w.toTry,
           w.stage # "idle", Grounded(w)
    PROVE  Grounded(v)
BY DEF Grounded

LEMMA PackedWell ==
    ASSUME NEW w \in Gatherings, Grounded(w), w.stage # "idle", w.toCheck = <<>>, Compares(w)
    PROVE  /\ Packed(w) \in Gatherings /\ GathersWell(Packed(w))
           /\ Packed(w).stage = "done" /\ Packed(w).shown = w.shown
<1> DEFINE p == [memories |-> w.shown, workspaces |-> Cut(w.found, MaxWorkspaceFacts), truncated |-> w.truncated]
           v == [w EXCEPT !.stage = "done", !.packet = p]
<1>1. Packed(w) = v
  BY DEF Packed
<1>2. w.found \in Seq(Workspaces) /\ w.shown \in Seq(ReadMemories) /\ w.truncated \in BOOLEAN
  BY DEF Gatherings
<1>3. Cut(w.found, MaxWorkspaceFacts) \in Seq(Workspaces)
  BY <1>2, CutFacts, ContextAssumption
<1>4. p \in Packets /\ p.memories = w.shown /\ p.truncated = w.truncated
  BY <1>2, <1>3 DEF Packets
<1> HIDE DEF p
<1>5. v \in Gatherings
  BY <1>4 DEF Gatherings, Stages
<1>6. /\ v.stage = "done" /\ v.packet = p /\ v.read = w.read /\ v.objective = w.objective /\ v.found = w.found
      /\ v.toTry = w.toTry /\ v.processes = w.processes /\ v.shown = w.shown /\ v.toCheck = w.toCheck
      /\ v.truncated = w.truncated
  BY DEF Gatherings
<1> HIDE DEF v
<1>7. Compares(v)
  BY <1>6, SameComparisons
<1>8. Grounded(v)
  BY <1>6, SameGround
<1>9. Proceeds(v)
  BY <1>4, <1>6, <1>7 DEF Proceeds
<1> QED BY <1>1, <1>5, <1>6, <1>8, <1>9 DEF GathersWell

LEMMA KeptIsTyped ==
    ASSUME NEW w \in Gatherings, Grounded(w)
    PROVE  /\ Ranked(w) \in Seq(ReadMemories) /\ Cut(Ranked(w), MaxMemories) \in Seq(ReadMemories)
           /\ \A i \in DOMAIN Ranked(w) : Ranked(w)[i].conflict = "none"
           /\ \A i \in DOMAIN Cut(Ranked(w), MaxMemories) : Cut(Ranked(w), MaxMemories)[i].conflict = "none"
<1>1. w.read \in Seq(ReadMemories) /\ OneRowEach(w.read) /\ MaxMemories \in Nat
  BY ContextAssumption DEF Gatherings, Grounded
<1>2. Ranked(w) \in Seq(ReadMemories) /\ \A r \in DOMAIN Ranked(w) : \E i \in DOMAIN w.read : Ranked(w)[r] = w.read[i]
  BY <1>1, RankFacts DEF Ranked
<1>3. \A i \in DOMAIN Ranked(w) : Ranked(w)[i].conflict = "none"
  BY <1>2 DEF Grounded
<1> DEFINE q == Ranked(w)
<1>4. q \in Seq(ReadMemories) /\ \A i \in DOMAIN q : q[i].conflict = "none"
  BY <1>2, <1>3
<1> HIDE DEF q
<1>5. /\ Cut(q, MaxMemories) \in Seq(ReadMemories)
      /\ \A i \in DOMAIN Cut(q, MaxMemories) : i \in DOMAIN q /\ Cut(q, MaxMemories)[i] = q[i]
  BY <1>1, <1>4, CutFacts
<1>6. \A i \in DOMAIN Cut(q, MaxMemories) : Cut(q, MaxMemories)[i].conflict = "none"
  BY <1>4, <1>5
<1> QED BY <1>4, <1>5, <1>6 DEF q

LEMMA RescoredWell ==
    ASSUME NEW w \in Gatherings, Grounded(w), w.stage # "idle", w.shown = <<>>
    PROVE  /\ Rescored(w) \in Gatherings /\ GathersWell(Rescored(w))
           /\ Rescored(w).stage # "idle" /\ Rescored(w).shown = <<>>
<1> DEFINE ranked == Ranked(w)
           kept == Cut(ranked, MaxMemories)
           v == [w EXCEPT !.stage = "reconcile", !.toCheck = kept, !.truncated = Len(ranked) > MaxMemories]
<1>1. Rescored(w) = IF kept = <<>> THEN Packed(v) ELSE v
  BY DEF Rescored, Ranked
<1>2. ranked \in Seq(ReadMemories) /\ kept \in Seq(ReadMemories) /\ MaxMemories \in Nat
  BY KeptIsTyped, ContextAssumption
<1> HIDE DEF ranked, kept
<1>3. (Len(ranked) > MaxMemories) \in BOOLEAN
  BY <1>2
<1>4. v \in Gatherings
  BY <1>2, <1>3 DEF Gatherings, Stages
<1>5. /\ v.stage = "reconcile" /\ v.read = w.read /\ v.objective = w.objective /\ v.found = w.found
      /\ v.toTry = w.toTry /\ v.processes = w.processes /\ v.shown = w.shown /\ v.toCheck = kept
      /\ v.truncated <=> Len(ranked) > MaxMemories
  BY DEF Gatherings
<1> HIDE DEF v
<1>6. Ranked(v) = ranked
  BY <1>5 DEF Ranked, ranked
<1>7. Compares(v)
  <2>1. Cut(Ranked(v), MaxMemories) = kept
    BY <1>6 DEF kept
  <2>2. Len(<<>>) = 0 /\ DOMAIN <<>> = {} /\ Len(kept) \in Nat /\ DOMAIN kept = 1..Len(kept)
    BY <1>2
  <2>3. 0 + Len(kept) = Len(kept) /\ \A i \in DOMAIN kept : 0 + i = i
    BY <2>2
  <2> QED BY <1>5, <1>6, <2>1, <2>2, <2>3 DEF Compares
<1>8. Grounded(v)
  BY <1>5, SameGround
<1>9. CASE kept = <<>>
  BY <1>1, <1>4, <1>5, <1>7, <1>8, <1>9, PackedWell
<1>10. CASE kept # <<>>
  <2>1. Proceeds(v)
    BY <1>5, <1>7, <1>10 DEF Proceeds
  <2> QED BY <1>1, <1>4, <1>5, <1>8, <1>10, <2>1 DEF GathersWell
<1> QED BY <1>9, <1>10

\* One collection takes a step; the others stay as they are.
LEMMA OneCollection ==
    ASSUME ContextInv, NEW c \in Collections, NEW X \in Gatherings, GathersWell(X),
           work' = [work EXCEPT ![c] = X]
    PROVE  /\ work' \in [Collections -> Gatherings] /\ work'[c] = X
           /\ \A d \in Collections : GathersWell(work'[d])
           /\ \A d \in Collections \ {c} : work'[d] = work[d]
<1>1. work \in [Collections -> Gatherings] /\ \A d \in Collections : GathersWell(work[d])
  BY DEF ContextInv, ContextTypes
<1>2. work' \in [Collections -> Gatherings] /\ work'[c] = X /\ \A d \in Collections \ {c} : work'[d] = work[d]
  BY <1>1
<1>3. \A d \in Collections : GathersWell(work'[d])
  BY <1>1, <1>2, Zenon
<1> QED BY <1>2, <1>3

\* What was reported stays so.
LEMMA ReportsStay ==
    ASSUME ContextInv,
           \A c \in Collections : work[c].stage # "idle" =>
                /\ work'[c].stage # "idle"
                /\ \A m \in ToSet(work[c].shown) : m \in ToSet(work'[c].shown),
           \A i \in DOMAIN memories' : memories'[i].status = "STALE" =>
                \/ \E j \in DOMAIN memories : memories[j].id = memories'[i].id /\ memories[j].status = "STALE"
                \/ \E c \in Collections : /\ work'[c].stage # "idle"
                                          /\ \E m \in ToSet(work'[c].shown) : m.id = memories'[i].id /\ m.conflict # "none"
    PROVE  StaleIsReported'
<1> SUFFICES ASSUME NEW i \in DOMAIN memories', memories'[i].status = "STALE"
             PROVE  \E c \in Collections :
                        /\ work'[c].stage # "idle"
                        /\ \E m \in ToSet(work'[c].shown) : m.id = memories'[i].id /\ m.conflict # "none"
  BY DEF StaleIsReported
<1>1. CASE \E j \in DOMAIN memories : memories[j].id = memories'[i].id /\ memories[j].status = "STALE"
  <2>1. PICK j \in DOMAIN memories : memories[j].id = memories'[i].id /\ memories[j].status = "STALE"
    BY <1>1
  <2>2. PICK c \in Collections :
            /\ work[c].stage # "idle"
            /\ \E m \in ToSet(work[c].shown) : m.id = memories[j].id /\ m.conflict # "none"
    BY <2>1 DEF ContextInv, StaleIsReported
  <2> QED BY <2>1, <2>2
<1> QED BY <1>1

\* The store and the operating system as they were: enough for a step that only gathers.
LEMMA Gathers ==
    ASSUME ContextInv, NEW c \in Collections, NEW X \in Gatherings, GathersWell(X),
           work' = [work EXCEPT ![c] = X], UNCHANGED <<memories, running>>,
           work[c].stage # "idle" => X.stage # "idle" /\ X.shown = work[c].shown
    PROVE  ContextInv'
<1>1. /\ work' \in [Collections -> Gatherings] /\ work'[c] = X
      /\ \A d \in Collections : GathersWell(work'[d])
      /\ \A d \in Collections \ {c} : work'[d] = work[d]
  BY OneCollection
<1>2. \A d \in Collections : work[d].stage # "idle" =>
            /\ work'[d].stage # "idle"
            /\ \A m \in ToSet(work[d].shown) : m \in ToSet(work'[d].shown)
  <2>1. ASSUME NEW d \in Collections, work[d].stage # "idle"
        PROVE  work'[d].stage # "idle" /\ work'[d].shown = work[d].shown
    <3>1. CASE d = c
      BY <1>1, <2>1, <3>1
    <3>2. CASE d # c
      BY <1>1, <2>1, <3>2
    <3> QED BY <3>1, <3>2
  <2> QED BY <2>1
<1>3. StaleIsReported'
  BY <1>2, ReportsStay
<1> QED BY <1>1, <1>3 DEF ContextInv, ContextTypes, OneRowEach

LEMMA BeginKeeps ==
    ASSUME ContextInv, NEW c \in Collections, Begin(c)
    PROVE  ContextInv'
<1>1. PICK o \in Objectives[c] : \E seen \in {running, <<>>} :
            work' = [work EXCEPT ![c] = [Idle EXCEPT !.stage = "memories", !.objective = o, !.processes = seen]]
  BY DEF Begin
<1>2. PICK seen \in {running, <<>>} :
            work' = [work EXCEPT ![c] = [Idle EXCEPT !.stage = "memories", !.objective = o, !.processes = seen]]
  BY <1>1
<1> DEFINE X == [Idle EXCEPT !.stage = "memories", !.objective = o, !.processes = seen]
<1>3. o \in AllObjectives /\ seen \in Seq(ProcessRows) /\ work[c].stage = "idle"
  <2>1. o \in AllObjectives
    BY DEF AllObjectives
  <2>2. running \in Seq(ProcessRows) /\ <<>> \in Seq(ProcessRows)
    BY DEF ContextInv, ContextTypes
  <2> QED BY <2>1, <2>2 DEF Begin
<1>4. /\ Idle \in Gatherings /\ Idle.read = <<>> /\ Idle.toTry = <<>> /\ Idle.found = <<>> /\ Idle.shown = <<>>
  BY DEF Idle, Gatherings, Stages
<1>5. X \in Gatherings
  BY <1>3, <1>4 DEF Gatherings, Stages
<1>6. /\ X.stage = "memories" /\ X.objective = o /\ X.read = <<>> /\ X.toTry = <<>>
      /\ X.found = <<>> /\ X.shown = <<>>
  BY <1>4 DEF Gatherings
<1> HIDE DEF X
<1>7. Grounded(X)
  BY <1>3, <1>6 DEF Grounded, OneRowEach
<1>8. Proceeds(X)
  BY <1>6 DEF Proceeds
<1> QED BY <1>2, <1>3, <1>5, <1>7, <1>8, Gathers DEF GathersWell, X, Begin

LEMMA ListedFacts ==
    ASSUME ContextInv
    PROVE  LET listed == Cut(Listed(memories), MEMORY_READ_LIMIT)
           IN  /\ listed \in Seq(ReadMemories) /\ OneRowEach(listed)
               /\ \A i \in DOMAIN listed : listed[i].conflict = "none"
<1> DEFINE stale(r) == r.status = "STALE" \/ (r.path # Nowhere /\ Canonical[r.path] \notin disk)
           seen(r) == [id |-> r.id, key |-> r.key, type |-> r.type, high |-> r.high, path |-> r.path,
                       port |-> r.port, conflict |-> "none", stale |-> stale(r)]
           all == Listed(memories)
<1>1. memories \in Seq(MemoryRows) /\ OneRowEach(memories)
  BY DEF ContextInv, ContextTypes
<1>2. all = [i \in DOMAIN memories |-> seen(memories[i])]
  BY DEF Listed
<1>3. ASSUME NEW r \in MemoryRows PROVE seen(r) \in ReadMemories /\ seen(r).id = r.id /\ seen(r).conflict = "none"
  <2>1. stale(r) \in BOOLEAN
    OBVIOUS
  <2> HIDE DEF stale
  <2> QED BY <2>1 DEF MemoryRows, ReadMemories
<1> HIDE DEF seen, all
<1>4. DOMAIN memories = 1..Len(memories) /\ Len(memories) \in Nat /\ \A i \in DOMAIN memories : memories[i] \in MemoryRows
  BY <1>1
<1>5. /\ all \in Seq(ReadMemories) /\ DOMAIN all = DOMAIN memories
      /\ \A i \in DOMAIN all : all[i].id = memories[i].id /\ all[i].conflict = "none"
  BY <1>2, <1>3, <1>4
<1> DEFINE listed == Cut(all, MEMORY_READ_LIMIT)
<1>6. /\ listed \in Seq(ReadMemories) /\ DOMAIN listed = 1..Len(listed)
      /\ \A i \in DOMAIN listed : i \in DOMAIN all /\ listed[i] = all[i]
  <2>1. MEMORY_READ_LIMIT \in Nat
    BY DEF MEMORY_READ_LIMIT
  <2> QED BY <1>5, <2>1, CutFacts
<1> HIDE DEF listed
<1>7. OneRowEach(listed)
  BY <1>1, <1>5, <1>6 DEF OneRowEach
<1>8. \A i \in DOMAIN listed : listed[i].conflict = "none"
  BY <1>5, <1>6
<1> QED BY <1>6, <1>7, <1>8 DEF listed, all

LEMMA CandidatesFacts ==
    ASSUME NEW o \in AllObjectives, NEW read \in Seq(ReadMemories),
           NEW processes \in Seq(ProcessRows)
    PROVE  LET all == WorkspaceCandidates(o, read, processes)
           IN  /\ all \in Seq(DOMAIN Canonical)
               /\ o.named # <<>> => \A i \in DOMAIN all : all[i] \in ToSet(o.named)
<1> DEFINE all == WorkspaceCandidates(o, read, processes)
<1>1. o.named \in Seq(DOMAIN Canonical)
  BY ContextAssumption DEF AllObjectives
<1>2. \A S : S \subseteq DOMAIN Canonical => \A s \in Seq(S) : s \in Seq(DOMAIN Canonical)
  OBVIOUS
<1>3. CASE o.named # <<>>
  <2>1. all = EachOnce(o.named)
    BY <1>3 DEF WorkspaceCandidates
  <2>2. EachOnce(o.named) \in Seq(DOMAIN Canonical \ {Nowhere})
        /\ \A r \in DOMAIN EachOnce(o.named) : EachOnce(o.named)[r] \in ToSet(o.named)
    BY <1>1, EachOnceFacts
  <2>3. DOMAIN Canonical \ {Nowhere} \subseteq DOMAIN Canonical
    OBVIOUS
  <2> HIDE DEF all
  <2> QED BY <1>2, <2>1, <2>2, <2>3 DEF all
<1>4. CASE o.named = <<>>
  <2> DEFINE a == [i \in DOMAIN processes |-> processes[i].dir]
             b == [i \in DOMAIN read |-> read[i].path]
  <2>1. a \in Seq(Paths)
    <3>1. \A i \in DOMAIN processes : processes[i].dir \in Paths
      <4>1. \A i \in DOMAIN processes : processes[i] \in ProcessRows
        OBVIOUS
      <4>2. \A p \in ProcessRows : p.dir \in Paths
        BY DEF ProcessRows, Paths
      <4> QED BY <4>1, <4>2
    <3>2. DOMAIN processes = 1..Len(processes) /\ Len(processes) \in Nat
      OBVIOUS
    <3> QED BY <3>1, <3>2
  <2>2. b \in Seq(Paths)
    <3>1. \A i \in DOMAIN read : read[i].path \in Paths
      <4>1. \A i \in DOMAIN read : read[i] \in ReadMemories
        OBVIOUS
      <4>2. \A m \in ReadMemories : m.path \in Paths
        BY DEF ReadMemories
      <4> QED BY <4>1, <4>2
    <3>2. DOMAIN read = 1..Len(read) /\ Len(read) \in Nat
      OBVIOUS
    <3> QED BY <3>1, <3>2
  <2>3. all = EachOnce(a \o b)
    BY <1>4 DEF WorkspaceCandidates, Observed
  <2> HIDE DEF a, b, all
  <2>4. a \o b \in Seq(Paths)
    BY <2>1, <2>2, ConcatProperties
  <2>5. EachOnce(a \o b) \in Seq(Paths \ {Nowhere})
    BY <2>4, EachOnceFacts
  <2>6. Paths \ {Nowhere} \subseteq DOMAIN Canonical
    BY DEF Paths
  <2> QED BY <1>2, <1>4, <2>3, <2>5, <2>6 DEF all
<1> QED BY <1>3, <1>4

LEMMA RetrieveMemoriesKeeps ==
    ASSUME ContextInv, NEW c \in Collections, RetrieveMemories(c)
    PROVE  ContextInv'
<1> DEFINE o == work[c].objective
           listed == Cut(Listed(memories), MEMORY_READ_LIMIT)
           all(read) == IF ContextPlan(o).workspace
                        THEN WorkspaceCandidates(o, read, work[c].processes) ELSE <<>>
           tried(read) == Cut(all(read), MaxCandidates)
           w(read) == [work[c] EXCEPT !.read = read, !.toTry = tried(read), !.stage = "detect"]
<1>1. PICK read \in {listed, <<>>} :
            work' = [work EXCEPT ![c] = IF tried(read) = <<>> THEN Rescored(w(read)) ELSE w(read)]
  BY DEF RetrieveMemories
<1>2. /\ work[c] \in Gatherings /\ Grounded(work[c]) /\ Proceeds(work[c]) /\ work[c].stage = "memories"
      /\ UNCHANGED <<memories, running>>
  BY DEF ContextInv, ContextTypes, GathersWell, RetrieveMemories
<1>3. /\ read \in Seq(ReadMemories) /\ OneRowEach(read) /\ \A i \in DOMAIN read : read[i].conflict = "none"
  <2>1. CASE read = listed
    BY <2>1, ListedFacts
  <2>2. CASE read = <<>>
    BY <2>2 DEF OneRowEach
  <2> QED BY <2>1, <2>2
<1>4. o \in AllObjectives /\ work[c].processes \in Seq(ProcessRows) /\ MaxCandidates \in Nat
  BY <1>2, ContextAssumption DEF Grounded, Gatherings
<1> DEFINE here == all(read)
           these == tried(read)
           v == w(read)
<1>5. here \in Seq(DOMAIN Canonical) /\ (o.named # <<>> => \A i \in DOMAIN here : here[i] \in ToSet(o.named))
  <2>1. CASE ContextPlan(o).workspace
    <3>1. here = WorkspaceCandidates(o, read, work[c].processes)
      BY <2>1
    <3> HIDE DEF here
    <3> QED BY <1>3, <1>4, <3>1, CandidatesFacts
  <2>2. CASE ~ContextPlan(o).workspace
    BY <2>2
  <2> QED BY <2>1, <2>2
<1> HIDE DEF all
<1>6. these \in Seq(DOMAIN Canonical) /\ (o.named # <<>> => \A i \in DOMAIN these : these[i] \in ToSet(o.named))
  BY <1>4, <1>5, CutFacts
<1> HIDE DEF tried
<1>7. /\ v \in Gatherings /\ v.stage = "detect" /\ v.read = read /\ v.toTry = these /\ v.objective = o
      /\ v.found = work[c].found /\ v.shown = work[c].shown
  BY <1>2, <1>3, <1>6 DEF Gatherings, Stages
<1>8. v.found = <<>> /\ v.shown = <<>>
  BY <1>2, <1>7 DEF Proceeds
<1> DEFINE X == IF these = <<>> THEN Rescored(v) ELSE v
<1>9. work' = [work EXCEPT ![c] = X]
  BY <1>1
<1> HIDE DEF w, v, these, o
<1>10. Grounded(v)
  BY <1>3, <1>4, <1>6, <1>7, <1>8 DEF Grounded
<1>11. X \in Gatherings /\ GathersWell(X) /\ X.stage # "idle" /\ X.shown = <<>>
  <2>1. CASE these = <<>>
    BY <1>7, <1>8, <1>10, <2>1, RescoredWell
  <2>2. CASE these # <<>>
    <3>1. Proceeds(v)
      BY <1>7, <1>8, <2>2 DEF Proceeds
    <3> QED BY <1>7, <1>8, <1>10, <2>2, <3>1 DEF GathersWell
  <2> QED BY <2>1, <2>2
<1>12. work[c].shown = <<>>
  BY <1>7, <1>8
<1> HIDE DEF X
<1> QED BY <1>2, <1>9, <1>11, <1>12, Gathers

LEMMA VerifyWorkspaceKeeps ==
    ASSUME ContextInv, NEW c \in Collections, VerifyWorkspace(c)
    PROVE  ContextInv'
<1> DEFINE u == work[c]
           path == Head(u.toTry)
           w(verified) == [u EXCEPT !.toTry = Tail(@), !.found = WithWorkspace(@, path, verified)]
<1>1. PICK verified \in {FALSE, Canonical[path] \in disk} :
            work' = [work EXCEPT ![c] = IF w(verified).toTry = <<>> THEN Rescored(w(verified)) ELSE w(verified)]
  BY DEF VerifyWorkspace
<1>2. /\ u \in Gatherings /\ Grounded(u) /\ Proceeds(u) /\ u.stage = "detect"
      /\ UNCHANGED <<memories, running>>
  BY DEF ContextInv, ContextTypes, GathersWell, VerifyWorkspace
<1>3. u.toTry # <<>> /\ u.shown = <<>>
  BY <1>2 DEF Proceeds
<1>4. u.toTry \in Seq(DOMAIN Canonical) /\ u.found \in Seq(Workspaces)
  BY <1>2 DEF Gatherings
<1> HIDE DEF u
<1>5. path \in DOMAIN Canonical /\ 1 \in DOMAIN u.toTry /\ path = u.toTry[1] /\ verified \in BOOLEAN
  <2>1. verified \in BOOLEAN
    <3>1. CASE verified = FALSE
      BY <3>1
    <3>2. CASE verified = (Canonical[path] \in disk)
      BY <3>2
    <3> QED BY <3>1, <3>2
  <2>2. Len(u.toTry) \in Nat /\ Len(u.toTry) # 0 /\ DOMAIN u.toTry = 1..Len(u.toTry)
    BY <1>3, <1>4
  <2>3. path = u.toTry[1] /\ 1 \in DOMAIN u.toTry
    BY <2>2
  <2> HIDE DEF path
  <2>4. path \in DOMAIN Canonical
    BY <1>4, <2>3
  <2> QED BY <2>1, <2>3, <2>4
<1>6. Canonical[path] \in DOMAIN Canonical
  BY <1>5, ContextAssumption
<1> DEFINE e == [path |-> IF verified THEN Canonical[path] ELSE path, verified |-> verified,
                 active |-> verified /\ ~\E i \in DOMAIN u.found : u.found[i].active]
<1>7. /\ e \in Workspaces /\ e.path \in {path, Canonical[path]} /\ e.verified = verified
      /\ e.active <=> verified /\ ~\E i \in DOMAIN u.found : u.found[i].active
  <2>1. (verified /\ ~\E i \in DOMAIN u.found : u.found[i].active) \in BOOLEAN
    OBVIOUS
  <2> QED BY <1>5, <1>6, <2>1 DEF Workspaces
<1>8. WithWorkspace(u.found, path, verified) = Append(u.found, e)
  BY DEF WithWorkspace
<1> DEFINE f == Append(u.found, e)
           n == Len(u.found)
<1> HIDE DEF e, path
<1>9. /\ f \in Seq(Workspaces) /\ n \in Nat /\ DOMAIN u.found = 1..n /\ DOMAIN f = 1..(n + 1) /\ f[n + 1] = e
      /\ \A i \in 1..n : f[i] = u.found[i]
  BY <1>4, <1>7
<1>10. Tail(u.toTry) \in Seq(DOMAIN Canonical) /\ \A i \in DOMAIN Tail(u.toTry) : i + 1 \in DOMAIN u.toTry /\ Tail(u.toTry)[i] = u.toTry[i + 1]
  BY <1>3, <1>4, TailFacts
<1> DEFINE v == w(verified)
<1>11. /\ v \in Gatherings /\ v.stage = "detect" /\ v.read = u.read /\ v.objective = u.objective
       /\ v.toTry = Tail(u.toTry) /\ v.found = f /\ v.shown = u.shown
  BY <1>2, <1>8, <1>9, <1>10 DEF Gatherings
<1> DEFINE X == IF v.toTry = <<>> THEN Rescored(v) ELSE v
<1>12. work' = [work EXCEPT ![c] = X]
  BY <1>1
<1> HIDE DEF w, v, f, n
<1>13. \A i \in DOMAIN f : f[i].active <=> f[i].verified /\ \A j \in 1..(i - 1) : ~f[j].verified
  <2>1. \A i \in 1..n : u.found[i].active <=> u.found[i].verified /\ \A j \in 1..(i - 1) : ~u.found[j].verified
    BY <1>2, <1>9 DEF Grounded
  <2>2. ASSUME NEW i \in 1..n PROVE f[i].active <=> f[i].verified /\ \A j \in 1..(i - 1) : ~f[j].verified
    <3>1. \A j \in 1..(i - 1) : j \in 1..n
      BY <1>9
    <3> QED BY <1>9, <2>1, <3>1
  <2>3. (\E i \in 1..n : u.found[i].active) <=> \E i \in 1..n : u.found[i].verified
    <3>1. ASSUME NEW i \in 1..n, u.found[i].verified PROVE \E k \in 1..n : u.found[k].active
      <4> DEFINE C == {k \in 1..n : u.found[k].verified}
      <4>1. C \in SUBSET Nat /\ C # {} /\ IsFiniteSet(C)
        <5>1. IsFiniteSet(1..n)
          BY <1>9, FS_Interval
        <5> QED BY <1>9, <3>1, <5>1, FS_Subset
      <4>2. PICK k \in C : \A j \in C : k <= j
        <5> HIDE DEF C
        <5> QED BY <4>1, LeastOf
      <4>3. \A j \in 1..(k - 1) : j \in 1..n /\ ~(k <= j)
        BY <1>9, <4>2
      <4>4. \A j \in 1..(k - 1) : ~u.found[j].verified
        BY <4>2, <4>3
      <4> QED BY <2>1, <4>2, <4>4
    <3> QED BY <2>1, <3>1
  <2>4. f[n + 1].active <=> f[n + 1].verified /\ \A j \in 1..n : ~f[j].verified
    BY <1>7, <1>9, <2>3
  <2>5. (n + 1) - 1 = n /\ \A i \in 1..(n + 1) : i \in 1..n \/ i = n + 1
    BY <1>9
  <2> QED BY <1>9, <2>2, <2>4, <2>5
<1>14. u.objective \in AllObjectives /\
       (u.objective.named # <<>> =>
            /\ \A i \in DOMAIN u.toTry : u.toTry[i] \in ToSet(u.objective.named)
            /\ \A i \in DOMAIN u.found : \E p \in ToSet(u.objective.named) : u.found[i].path \in {p, Canonical[p]})
  BY <1>2 DEF Grounded
<1>15. u.objective.named # <<>> =>
            /\ \A i \in DOMAIN Tail(u.toTry) : Tail(u.toTry)[i] \in ToSet(u.objective.named)
            /\ \A i \in DOMAIN f : \E p \in ToSet(u.objective.named) : f[i].path \in {p, Canonical[p]}
  <2> SUFFICES ASSUME u.objective.named # <<>>
               PROVE  /\ \A i \in DOMAIN Tail(u.toTry) : Tail(u.toTry)[i] \in ToSet(u.objective.named)
                      /\ \A i \in DOMAIN f : \E p \in ToSet(u.objective.named) : f[i].path \in {p, Canonical[p]}
    OBVIOUS
  <2>1. \A i \in DOMAIN Tail(u.toTry) : Tail(u.toTry)[i] \in ToSet(u.objective.named)
    BY <1>10, <1>14
  <2>2. path \in ToSet(u.objective.named)
    BY <1>5, <1>14
  <2>3. \A i \in 1..(n + 1) : i \in 1..n \/ i = n + 1
    BY <1>9
  <2> QED BY <1>7, <1>9, <1>14, <2>1, <2>2, <2>3
<1>16. Grounded(v)
  BY <1>2, <1>11, <1>13, <1>14, <1>15 DEF Grounded
<1>17. X \in Gatherings /\ GathersWell(X) /\ X.stage # "idle" /\ X.shown = <<>>
  <2>1. CASE v.toTry = <<>>
    BY <1>3, <1>11, <1>16, <2>1, RescoredWell
  <2>2. CASE v.toTry # <<>>
    <3>1. Proceeds(v)
      BY <1>3, <1>11, <2>2 DEF Proceeds
    <3> QED BY <1>3, <1>11, <1>16, <2>2, <3>1 DEF GathersWell
  <2> QED BY <2>1, <2>2
<1> HIDE DEF X
<1> QED BY <1>2, <1>3, <1>12, <1>17, Gathers DEF u

LEMMA ReconcileKeeps ==
    ASSUME ContextInv, NEW c \in Collections, Reconcile(c)
    PROVE  ContextInv'
<1> DEFINE u == work[c]
           m == Head(u.toCheck)
           s == Compared(m, u.found, u.processes)
           v == [u EXCEPT !.toCheck = Tail(@), !.shown = Append(@, s)]
           X == IF v.toCheck = <<>> THEN Packed(v) ELSE v
<1>1. /\ work' = [work EXCEPT ![c] = X] /\ UNCHANGED running
      /\ memories' \in {MarkStale(memories, m.id), memories}
      /\ memories' # memories => s.conflict \in Contradicted
  BY DEF Reconcile
<1>2. u \in Gatherings /\ Grounded(u) /\ Proceeds(u) /\ u.stage = "reconcile" /\ work \in [Collections -> Gatherings]
  BY DEF ContextInv, ContextTypes, GathersWell, Reconcile
<1>3. u.toCheck # <<>> /\ Compares(u)
  BY <1>2 DEF Proceeds
<1>4. u.toCheck \in Seq(ReadMemories) /\ u.shown \in Seq(ReadMemories)
  BY <1>2 DEF Gatherings
<1> DEFINE kept == Cut(Ranked(u), MaxMemories)
<1>5. /\ kept \in Seq(ReadMemories) /\ \A i \in DOMAIN kept : kept[i].conflict = "none"
      /\ Ranked(u) \in Seq(ReadMemories)
  BY <1>2, KeptIsTyped
<1>6. /\ Len(u.shown) + Len(u.toCheck) = Len(kept)
      /\ \A i \in DOMAIN u.shown : u.shown[i] = Compared(kept[i], u.found, u.processes)
      /\ \A i \in DOMAIN u.toCheck : u.toCheck[i] = kept[Len(u.shown) + i]
      /\ u.truncated <=> Len(Ranked(u)) > MaxMemories
  BY <1>3 DEF Compares
<1> HIDE DEF kept, u
<1> DEFINE n == Len(u.shown)
<1>7. /\ n \in Nat /\ Len(u.toCheck) \in Nat /\ Len(u.toCheck) >= 1 /\ DOMAIN u.shown = 1..n
      /\ DOMAIN u.toCheck = 1..Len(u.toCheck) /\ Len(kept) \in Nat /\ DOMAIN kept = 1..Len(kept)
  BY <1>3, <1>4, <1>5
<1>28. n + Len(u.toCheck) = Len(kept) /\ \A i \in DOMAIN u.toCheck : u.toCheck[i] = kept[n + i]
  BY <1>6
<1>8. m = u.toCheck[1] /\ 1 \in DOMAIN u.toCheck
  BY <1>3, <1>4, <1>7
<1> HIDE DEF m
<1>9. n + 1 \in DOMAIN kept /\ m = kept[n + 1]
  <2> DEFINE l == Len(u.toCheck)
             k == Len(kept)
  <2> HIDE DEF n
  <2>1. n \in Nat /\ l \in Nat /\ l >= 1 /\ k \in Nat /\ n + l = k
    BY <1>7, <1>28
  <2> HIDE DEF l, k
  <2>2. n + 1 \in 1..k
    BY <2>1
  <2>3. n + 1 \in DOMAIN kept
    BY <1>7, <2>2 DEF k
  <2>4. m = kept[n + 1]
    BY <1>8, <1>28
  <2> QED BY <2>3, <2>4
<1>10. m \in ReadMemories /\ m.conflict = "none"
  BY <1>5, <1>9
<1>11. s \in ReadMemories /\ s.id = m.id
  BY <1>10, ComparedFacts
<1>12. s = Compared(kept[n + 1], u.found, u.processes)
  BY <1>9
<1> HIDE DEF s
<1> DEFINE f == Append(u.shown, s)
           t == Tail(u.toCheck)
<1>13. /\ f \in Seq(ReadMemories) /\ Len(f) = n + 1 /\ DOMAIN f = 1..(n + 1) /\ f[n + 1] = s
       /\ \A i \in 1..n : f[i] = u.shown[i]
  BY <1>4, <1>7, <1>11
<1>14. /\ t \in Seq(ReadMemories) /\ Len(t) = Len(u.toCheck) - 1
       /\ \A i \in DOMAIN t : i \in Nat /\ i + 1 \in DOMAIN u.toCheck /\ t[i] = u.toCheck[i + 1]
  <2>1. /\ t \in Seq(ReadMemories) /\ Len(t) = Len(u.toCheck) - 1
        /\ \A i \in DOMAIN t : i + 1 \in DOMAIN u.toCheck /\ t[i] = u.toCheck[i + 1]
    BY <1>3, <1>4, TailFacts
  <2> HIDE DEF t
  <2>2. \A i \in DOMAIN t : i \in Nat
    BY <2>1
  <2> QED BY <2>1, <2>2
<1> HIDE DEF f, t
<1>15. /\ v \in Gatherings /\ v.stage = "reconcile" /\ v.read = u.read /\ v.objective = u.objective
       /\ v.found = u.found /\ v.toTry = u.toTry /\ v.processes = u.processes /\ v.truncated = u.truncated
       /\ v.shown = f /\ v.toCheck = t
  BY <1>2, <1>13, <1>14 DEF Gatherings, f, t
<1> HIDE DEF v
<1>16. Compares(v)
  <2>1. Ranked(v) = Ranked(u)
    BY <1>15 DEF Ranked
  <2>2. Cut(Ranked(v), MaxMemories) = kept
    BY <2>1 DEF kept
  <2>3. Len(f) + Len(t) = Len(kept)
    <3> DEFINE l == Len(u.toCheck)
               k == Len(kept)
               a == Len(f)
               b == Len(t)
    <3> HIDE DEF n
    <3>1. n \in Nat /\ l \in Nat /\ n + l = k /\ a = n + 1 /\ b = l - 1
      BY <1>7, <1>13, <1>14, <1>28
    <3> HIDE DEF l, k, a, b
    <3>2. a + b = k
      BY <3>1
    <3> QED BY <3>2 DEF k, a, b
  <2>4. \A i \in DOMAIN f : f[i] = Compared(kept[i], u.found, u.processes)
    <3>1. ASSUME NEW i \in DOMAIN f PROVE f[i] = Compared(kept[i], u.found, u.processes)
      <4>1. i \in 1..n \/ i = n + 1
        BY <1>7, <1>13
      <4> QED BY <1>6, <1>7, <1>12, <1>13, <4>1
    <3> QED BY <3>1
  <2>5. \A i \in DOMAIN t : t[i] = kept[Len(f) + i]
    <3>1. ASSUME NEW i \in DOMAIN t PROVE t[i] = kept[Len(f) + i]
      <4> HIDE DEF n
      <4>1. t[i] = kept[n + (i + 1)]
        BY <1>14, <1>28
      <4>2. n + (i + 1) = Len(f) + i
        BY <1>7, <1>13, <1>14
      <4> QED BY <4>1, <4>2
    <3> QED BY <3>1
  <2>6. v.truncated <=> Len(Ranked(v)) > MaxMemories
    BY <1>6, <1>15, <2>1
  <2> QED BY <1>15, <2>2, <2>3, <2>4, <2>5, <2>6, Zenon DEF Compares
<1>17. Grounded(v)
  BY <1>2, <1>15, SameGround
<1>18. X \in Gatherings /\ GathersWell(X) /\ X.stage # "idle" /\ X.shown = f
  <2>1. CASE v.toCheck = <<>>
    BY <1>15, <1>16, <1>17, <2>1, PackedWell
  <2>2. CASE v.toCheck # <<>>
    <3>1. Proceeds(v)
      BY <1>15, <1>16, <2>2 DEF Proceeds
    <3> QED BY <1>15, <1>17, <2>2, <3>1 DEF GathersWell
  <2> QED BY <2>1, <2>2
<1> HIDE DEF X
<1>19. /\ work' \in [Collections -> Gatherings] /\ work'[c] = X
       /\ \A d \in Collections : GathersWell(work'[d])
       /\ \A d \in Collections \ {c} : work'[d] = work[d]
  BY <1>1, <1>18, OneCollection
<1>20. \A d \in Collections : work[d].stage # "idle" =>
            /\ work'[d].stage # "idle"
            /\ \A x \in ToSet(work[d].shown) : x \in ToSet(work'[d].shown)
  <2>1. \A x \in ToSet(u.shown) : x \in ToSet(f)
    <3>1. \A i \in 1..n : i \in DOMAIN f /\ f[i] = u.shown[i]
      BY <1>7, <1>13
    <3> QED BY <1>7, <3>1 DEF ToSet
  <2>2. ASSUME NEW d \in Collections, work[d].stage # "idle"
        PROVE  work'[d].stage # "idle" /\ \A x \in ToSet(work[d].shown) : x \in ToSet(work'[d].shown)
    <3>1. CASE d = c
      BY <1>18, <1>19, <2>1, <3>1 DEF u
    <3>2. CASE d # c
      BY <1>19, <2>2, <3>2
    <3> QED BY <3>1, <3>2
  <2> QED BY <2>2
<1>21. memories \in Seq(MemoryRows) /\ OneRowEach(memories)
  BY DEF ContextInv, ContextTypes
<1>22. /\ memories' \in Seq(MemoryRows) /\ OneRowEach(memories')
       /\ \A i \in DOMAIN memories' : memories'[i].status = "STALE" =>
            \/ \E j \in DOMAIN memories : memories[j].id = memories'[i].id /\ memories[j].status = "STALE"
            \/ memories' # memories /\ memories'[i].id = m.id
  <2>1. CASE memories' = memories
    BY <1>21, <2>1
  <2>2. CASE memories' = MarkStale(memories, m.id) /\ memories' # memories
    <3>1. /\ MarkStale(memories, m.id) \in Seq(MemoryRows) /\ OneRowEach(MarkStale(memories, m.id))
          /\ \A i \in DOMAIN MarkStale(memories, m.id) : MarkStale(memories, m.id)[i].status = "STALE" =>
                \/ MarkStale(memories, m.id)[i].id = m.id
                \/ \E j \in DOMAIN memories :
                        memories[j].id = MarkStale(memories, m.id)[i].id /\ memories[j].status = "STALE"
      BY <1>21, MarkStaleFacts
    <3> QED BY <2>2, <3>1
  <2> QED BY <1>1, <2>1, <2>2
<1>23. memories' # memories => \E x \in ToSet(work'[c].shown) : x.id = m.id /\ x.conflict # "none"
  <2>1. s \in ToSet(f)
    BY <1>7, <1>13 DEF ToSet
  <2>2. s.conflict \in Contradicted => s.conflict # "none"
    BY DEF Contradicted
  <2> QED BY <1>1, <1>11, <1>18, <1>19, <2>1, <2>2 DEF s
<1>24. StaleIsReported'
  <2>1. \A i \in DOMAIN memories' : memories'[i].status = "STALE" =>
                \/ \E j \in DOMAIN memories : memories[j].id = memories'[i].id /\ memories[j].status = "STALE"
                \/ \E d \in Collections : /\ work'[d].stage # "idle"
                                          /\ \E x \in ToSet(work'[d].shown) : x.id = memories'[i].id /\ x.conflict # "none"
    BY <1>18, <1>19, <1>22, <1>23
  <2> QED BY <1>20, <2>1, ReportsStay
<1>25. OneRowEach(memories)'
  BY <1>22 DEF OneRowEach
<1>26. running' \in Seq(ProcessRows)
  BY <1>1 DEF ContextInv, ContextTypes
<1>27. (\A d \in Collections : GathersWell(work[d]))'
  BY <1>19
<1> QED BY <1>19, <1>22, <1>24, <1>25, <1>26, <1>27 DEF ContextInv, ContextTypes

LEMMA GoWithoutKeeps ==
    ASSUME ContextInv, NEW c \in Collections, GoWithout(c)
    PROVE  ContextInv'
<1> DEFINE u == work[c]
           X == [u EXCEPT !.stage = "without"]
<1>1. work' = [work EXCEPT ![c] = X] /\ UNCHANGED <<memories, running>>
  BY DEF GoWithout
<1>2. u \in Gatherings /\ Grounded(u) /\ u.stage # "idle"
  BY DEF ContextInv, ContextTypes, GathersWell, GoWithout
<1> HIDE DEF u
<1>3. /\ X \in Gatherings /\ X.stage = "without" /\ X.read = u.read /\ X.objective = u.objective
      /\ X.found = u.found /\ X.toTry = u.toTry /\ X.shown = u.shown
  BY <1>2 DEF Gatherings, Stages
<1> HIDE DEF X
<1>4. Grounded(X)
  BY <1>2, <1>3, SameGround
<1>5. Proceeds(X)
  BY <1>3 DEF Proceeds
<1> QED BY <1>1, <1>3, <1>4, <1>5, Gathers DEF GathersWell, u

-----------------------------------------------------------------------------
(* What changes meanwhile.                                                 *)

\* Every row that is stale was stale, of the same id; nothing is gathered.
LEMMA StoreChanges ==
    ASSUME ContextInv, UNCHANGED work, running' \in Seq(ProcessRows),
           memories' \in Seq(MemoryRows), OneRowEach(memories'),
           \A i \in DOMAIN memories' : memories'[i].status = "STALE" =>
                \E j \in DOMAIN memories : memories[j].id = memories'[i].id /\ memories[j].status = "STALE"
    PROVE  ContextInv'
<1>1. StaleIsReported'
  BY ReportsStay
<1>2. OneRowEach(memories)'
  BY DEF OneRowEach
<1>3. (\A d \in Collections : GathersWell(work[d]))'
  BY DEF ContextInv
<1> QED BY <1>1, <1>2, <1>3 DEF ContextInv, ContextTypes

LEMMA WorldKeeps ==
    ASSUME ContextInv, WorldChanges
    PROVE  ContextInv'
<1>1. memories \in Seq(MemoryRows) /\ OneRowEach(memories) /\ running \in Seq(ProcessRows) /\ UNCHANGED work
  BY DEF ContextInv, ContextTypes, WorldChanges
<1>2. ASSUME NEW i \in DOMAIN memories, SaveAgain(i) PROVE ContextInv'
  <2>1. PICK r \in Restated :
            memories' = <<[memories[i] EXCEPT !.path = r.path, !.port = r.port, !.status = "ACTIVE"]>>
                        \o RemoveAt(memories, i)
    BY <1>2 DEF SaveAgain
  <2> DEFINE e == [memories[i] EXCEPT !.path = r.path, !.port = r.port, !.status = "ACTIVE"]
  <2>2. r.path \in Paths /\ r.port \in Nat /\ memories[i] \in MemoryRows
    BY <1>1, ContextAssumption
  <2>3. e \in MemoryRows /\ e.id = memories[i].id /\ e.status = "ACTIVE"
    BY <2>2 DEF MemoryRows
  <2> HIDE DEF e
  <2>4. /\ memories' \in Seq(MemoryRows) /\ Len(memories') = Len(memories) /\ memories'[1] = e
        /\ \A k \in DOMAIN memories' \ {1} :
                /\ (IF k <= i THEN k - 1 ELSE k) \in DOMAIN memories \ {i}
                /\ memories'[k] = memories[IF k <= i THEN k - 1 ELSE k]
    BY <1>1, <2>1, <2>3, ToFrontFacts DEF e
  <2>5. OneRowEach(memories')
    BY <1>1, <2>3, <2>4, MovedKeepsIds
  <2>6. \A k \in DOMAIN memories' \ {1} : \E j \in DOMAIN memories : memories'[k] = memories[j]
    BY <2>4
  <2>7. \A k \in DOMAIN memories' : memories'[k].status = "STALE" =>
            \E j \in DOMAIN memories : memories[j].id = memories'[k].id /\ memories[j].status = "STALE"
    BY <2>3, <2>4, <2>6
  <2>8. running' = running
    BY <1>2 DEF SaveAgain
  <2> QED BY <1>1, <2>4, <2>5, <2>7, <2>8, StoreChanges
<1>3. ASSUME NEW i \in DOMAIN memories, ForgetMemory(i) PROVE ContextInv'
  <2>1. memories' = RemoveAt(memories, i) /\ running' = running
    BY <1>3 DEF ForgetMemory
  <2>2. /\ memories' \in Seq(MemoryRows) /\ Len(memories) \in Nat
        /\ \A k \in DOMAIN memories' :
                /\ (IF k < i THEN k ELSE k + 1) \in DOMAIN memories \ {i}
                /\ memories'[k] = memories[IF k < i THEN k ELSE k + 1]
    BY <1>1, <2>1, RemovedFacts
  <2>3. \A k, m \in DOMAIN memories' :
            (IF k < i THEN k ELSE k + 1) = (IF m < i THEN m ELSE m + 1) => k = m
    <3>1. i \in Nat /\ \A k \in DOMAIN memories' : k \in Nat
      BY <1>1, <2>2
    <3> QED BY <3>1
  <2>4. OneRowEach(memories')
    BY <1>1, <2>2, <2>3 DEF OneRowEach
  <2>5. \A k \in DOMAIN memories' : \E j \in DOMAIN memories : memories'[k] = memories[j]
    BY <2>2
  <2> QED BY <1>1, <2>1, <2>2, <2>4, <2>5, StoreChanges
<1>4. CASE ProcessesChange
  <2>1. running' \in Seq(ProcessRows) /\ memories' = memories
    BY <1>4, ContextAssumption DEF ProcessesChange
  <2> QED BY <1>1, <2>1, StoreChanges
<1>5. CASE DirectoryComesOrGoes
  <2>1. running' = running /\ memories' = memories
    BY <1>5 DEF DirectoryComesOrGoes
  <2> QED BY <1>1, <2>1, StoreChanges
<1> QED BY <1>2, <1>3, <1>4, <1>5 DEF WorldChanges

LEMMA ContextBegins ==
    ASSUME ContextInit
    PROVE  ContextInv
<1>1. /\ memories \in Seq(MemoryRows) /\ OneRowEach(memories) /\ running \in Seq(ProcessRows)
      /\ \A i \in DOMAIN memories : memories[i].status = "ACTIVE"
  BY ContextAssumption DEF ContextInit, OneRowEach
<1>2. /\ Idle \in Gatherings /\ Idle.stage = "idle" /\ Idle.read = <<>> /\ Idle.found = <<>>
  BY DEF Idle, Gatherings, Stages
<1>3. GathersWell(Idle)
  BY <1>2 DEF GathersWell, Grounded, Proceeds, OneRowEach
<1>4. work \in [Collections -> Gatherings] /\ \A c \in Collections : GathersWell(work[c])
  BY <1>2, <1>3 DEF ContextInit
<1>5. StaleIsReported
  BY <1>1 DEF StaleIsReported
<1> QED BY <1>1, <1>4, <1>5 DEF ContextInv, ContextTypes

\* Whatever is gathered and whatever changes, the collections are as ContextInv says.
THEOREM ContextInvHolds == ContextSpec => []ContextInv
<1>1. ContextInv /\ [ContextNext]_contextVars => ContextInv'
  <2> SUFFICES ASSUME ContextInv, [ContextNext]_contextVars PROVE ContextInv'
    OBVIOUS
  <2>1. CASE WorldChanges
    BY <2>1, WorldKeeps
  <2>2. ASSUME NEW c \in Collections, CollectionStep(c) PROVE ContextInv'
    BY <2>2, BeginKeeps, RetrieveMemoriesKeeps, VerifyWorkspaceKeeps, ReconcileKeeps, GoWithoutKeeps
       DEF CollectionStep
  <2>3. CASE UNCHANGED contextVars
    BY <2>3 DEF contextVars, ContextInv, ContextTypes, OneRowEach, StaleIsReported
  <2> QED BY <2>1, <2>2, <2>3 DEF ContextNext
<1> QED BY <1>1, ContextBegins, PTL DEF ContextSpec

-----------------------------------------------------------------------------
(* What the packet says.                                                   *)

LEMMA ConflictsTold ==
    ASSUME ContextInv
    PROVE  ConflictsAreReal
<1> SUFFICES ASSUME NEW c \in Collections, Done(c), NEW m \in ToSet(work[c].packet.memories)
             PROVE  LET ports == {p.port : p \in {q \in ToSet(work[c].processes) : q.dir = m.path}} \ {0}
                        gone == \E w \in ToSet(work[c].found) : ~w.verified /\ w.path = m.path
                    IN  /\ m.conflict = "port" => m.stale /\ m.port # 0 /\ ports \ {m.port} # {}
                        /\ m.conflict = "missing" => m.stale /\ gone
                        /\ (m.port # 0 /\ ports # {} /\ m.port \notin ports) => m.conflict = "port"
                        /\ (gone /\ ports = {}) => m.conflict = "missing"
  BY Zenon DEF ConflictsAreReal
<1> DEFINE w == work[c]
           kept == Cut(Ranked(w), MaxMemories)
           found == w.found
           processes == w.processes
<1>1. w \in Gatherings /\ Grounded(w) /\ Proceeds(w) /\ w.stage = "done"
  BY DEF ContextInv, ContextTypes, GathersWell, Done
<1>2. Compares(w) /\ w.toCheck = <<>> /\ w.packet.memories = w.shown
  BY <1>1 DEF Proceeds
<1>3. found \in Seq(Workspaces) /\ processes \in Seq(ProcessRows) /\ w.shown \in Seq(ReadMemories)
  BY <1>1 DEF Gatherings
<1>4. kept \in Seq(ReadMemories) /\ \A i \in DOMAIN kept : kept[i].conflict = "none"
  BY <1>1, KeptIsTyped
<1>5. /\ Len(w.shown) + Len(w.toCheck) = Len(kept)
      /\ \A i \in DOMAIN w.shown : w.shown[i] = Compared(kept[i], found, processes)
  BY <1>2 DEF Compares
<1>6. PICK i \in DOMAIN w.shown : m = w.shown[i]
  BY <1>2 DEF ToSet
<1> HIDE DEF kept
<1>7. i \in DOMAIN kept
  <2>1. Len(w.toCheck) = 0 /\ Len(w.shown) \in Nat /\ Len(kept) \in Nat /\ DOMAIN w.shown = 1..Len(w.shown)
        /\ DOMAIN kept = 1..Len(kept)
    BY <1>2, <1>3, <1>4
  <2> QED BY <1>5, <1>6, <2>1
<1> DEFINE k == kept[i]
           v == Verdict(k, found, processes)
<1>8. k \in ReadMemories /\ k.conflict = "none" /\ m = Compared(k, found, processes)
  BY <1>4, <1>5, <1>6, <1>7
<1> HIDE DEF k, w, found, processes
<1>9. /\ v \in {"port", "missing", "confirmed", "none"}
      /\ m \in ReadMemories /\ m.path = k.path /\ m.port = k.port
      /\ v \in Contradicted => m.conflict = v /\ m.stale
      /\ v \notin Contradicted => m.conflict = "none"
  BY <1>8, ComparedFacts
<1>10. /\ m.conflict = "port" <=> v = "port"
       /\ m.conflict = "missing" <=> v = "missing"
       /\ m.conflict \in {"port", "missing"} => m.stale
  BY <1>9 DEF Contradicted
<1> DEFINE there == {j \in DOMAIN processes : processes[j].dir = k.path /\ processes[j].port # 0}
           last == CHOOSE j \in there : \A l \in there : l <= j
           seen(verified) == \E j \in DOMAIN found : found[j].verified = verified /\ found[j].path = k.path
           ports == {p.port : p \in {q \in ToSet(processes) : q.dir = m.path}} \ {0}
           gone == \E x \in ToSet(found) : ~x.verified /\ x.path = m.path
<1>11. v = IF there # {} /\ k.port # 0 /\ processes[last].port # k.port THEN "port"
           ELSE IF (there = {} \/ k.port = 0) /\ seen(FALSE) THEN "missing"
           ELSE IF seen(TRUE) /\ ~k.stale THEN "confirmed"
           ELSE "none"
  BY DEF Verdict
<1>12. there # {} => last \in there
  <2> SUFFICES ASSUME there # {} PROVE last \in there
    OBVIOUS
  <2>1. Len(processes) \in Nat /\ there \in SUBSET (1..Len(processes))
    BY <1>3
  <2> HIDE DEF there
  <2>2. \E j \in there : \A l \in there : l <= j
    BY <2>1, LatestOf
  <2> QED BY <2>2
<1>13. \A j \in there : processes[j].port \in ports
  BY <1>9 DEF ToSet
<1>14. ports # {} => there # {}
  BY <1>9 DEF ToSet
<1>15. gone <=> seen(FALSE)
  <2>1. \A j \in DOMAIN found : found[j].verified \in BOOLEAN
    <3>1. \A j \in DOMAIN found : found[j] \in Workspaces
      BY <1>3
    <3> QED BY <3>1 DEF Workspaces
  <2>2. gone => seen(FALSE)
    BY <1>9, <2>1 DEF ToSet
  <2>3. seen(FALSE) => gone
    BY <1>9 DEF ToSet
  <2> QED BY <2>2, <2>3
<1> HIDE DEF there, last, seen, ports, gone, v
<1>16. v = "port" => m.port # 0 /\ ports \ {m.port} # {}
  BY <1>9, <1>11, <1>12, <1>13
<1>17. v = "missing" => gone
  BY <1>11, <1>15
<1>18. (m.port # 0 /\ ports # {} /\ m.port \notin ports) => v = "port"
  BY <1>9, <1>11, <1>12, <1>13, <1>14
<1>19. (gone /\ ports = {}) => v = "missing"
  <2>1. ports = {} => there = {}
    BY <1>13
  <2> QED BY <1>11, <1>15, <2>1
<1> QED BY <1>10, <1>16, <1>17, <1>18, <1>19 DEF ports, gone, found, processes, w

LEMMA TruncationTold ==
    ASSUME ContextInv
    PROVE  TruncationIsTold
<1> SUFFICES ASSUME NEW c \in Collections, Done(c)
             PROVE  LET w == work[c]
                        shown == {m.id : m \in ToSet(w.packet.memories)}
                        score(m) == ScoreMemory(m, w.objective, ActiveIn(w.found))
                        recall == w.objective.intent = "RECALL" /\ ~w.objective.mission
                        left == {m \in ToSet(w.read) : m.id \notin shown /\ (recall \/ score(m) >= MIN_SCORE)}
                    IN  /\ w.packet.truncated <=> left # {}
                        /\ Cardinality(shown) <= MaxMemories
                        /\ ~recall => \A m \in left : \A n \in ToSet(w.read) : n.id \in shown => score(m) <= score(n)
  BY Zenon DEF TruncationIsTold
<1> DEFINE w == work[c]
           o == w.objective
           active == ActiveIn(w.found)
           read == w.read
           all == Ranked(w)
           kept == Cut(all, MaxMemories)
           shown == {m.id : m \in ToSet(w.packet.memories)}
           score(m) == ScoreMemory(m, o, active)
           left == {m \in ToSet(read) : m.id \notin shown /\ (Recalls(o) \/ score(m) >= MIN_SCORE)}
<1>1. w \in Gatherings /\ Grounded(w) /\ Proceeds(w) /\ w.stage = "done" /\ MaxMemories \in Nat
  BY ContextAssumption DEF ContextInv, ContextTypes, GathersWell, Done
<1>2. Compares(w) /\ w.toCheck = <<>> /\ w.packet.memories = w.shown /\ w.packet.truncated = w.truncated
  BY <1>1 DEF Proceeds
<1>3. read \in Seq(ReadMemories) /\ OneRowEach(read) /\ w.found \in Seq(Workspaces) /\ w.shown \in Seq(ReadMemories)
  BY <1>1 DEF Gatherings, Grounded
<1>4. /\ Len(w.shown) + Len(w.toCheck) = Len(kept)
      /\ \A i \in DOMAIN w.shown : w.shown[i] = Compared(kept[i], w.found, w.processes)
      /\ w.truncated <=> Len(all) > MaxMemories
  BY <1>2 DEF Compares
<1>5. /\ all \in Seq(ReadMemories)
      /\ \A r \in DOMAIN all : (\E i \in DOMAIN read : all[r] = read[i]) /\ IsRelevant(all[r], o, active)
      /\ \A i \in DOMAIN read : IsRelevant(read[i], o, active) => \E r \in DOMAIN all : all[r] = read[i]
      /\ OneRowEach(all)
      /\ ~Recalls(o) => \A q, r \in DOMAIN all : q < r => score(all[q]) >= score(all[r])
  BY <1>3, RankFacts DEF Ranked
<1>6. kept \in Seq(ReadMemories) /\ \A i \in DOMAIN kept : kept[i].conflict = "none"
  BY <1>1, KeptIsTyped
<1> HIDE DEF all
<1>7. /\ Len(kept) = (IF Len(all) < MaxMemories THEN Len(all) ELSE MaxMemories)
      /\ Len(all) \in Nat /\ Len(kept) \in Nat /\ DOMAIN kept = 1..Len(kept) /\ DOMAIN all = 1..Len(all)
      /\ \A i \in 1..Len(kept) : i \in 1..Len(all) /\ kept[i] = all[i]
  BY <1>1, <1>5, CutFacts
<1> HIDE DEF kept
<1> DEFINE n == Len(kept)
<1>8. DOMAIN w.shown = 1..n
  <2>1. Len(w.toCheck) = 0 /\ Len(w.shown) \in Nat /\ DOMAIN w.shown = 1..Len(w.shown)
    BY <1>2, <1>3
  <2>2. Len(w.shown) = n
    BY <1>4, <1>7, <2>1
  <2> QED BY <2>1, <2>2
<1>9. \A i \in 1..n : w.shown[i].id = all[i].id
  <2>1. ASSUME NEW i \in 1..n PROVE w.shown[i].id = all[i].id
    <3>1. kept[i] \in ReadMemories /\ kept[i].conflict = "none" /\ kept[i] = all[i]
      BY <1>6, <1>7
    <3>2. w.shown[i] = Compared(kept[i], w.found, w.processes)
      BY <1>4, <1>8
    <3> QED BY <3>1, <3>2, ComparedFacts
  <2> QED BY <2>1
<1>10. \A x : x \in shown <=> \E i \in 1..n : x = all[i].id
  <2>1. ToSet(w.packet.memories) = {w.shown[i] : i \in 1..n}
    BY <1>2, <1>8 DEF ToSet
  <2> QED BY <1>9, <2>1
<1>11. Cardinality(shown) <= n
  <2> DEFINE idAt == [i \in 1..n |-> all[i].id]
  <2>1. idAt \in [1..n -> shown] /\ \A x \in shown : \E i \in 1..n : idAt[i] = x
    BY <1>10
  <2> HIDE DEF shown, idAt
  <2>2. idAt \in Surjection(1..n, shown)
    BY <2>1, Fun_IsSurj
  <2>3. IsFiniteSet(1..n) /\ Cardinality(1..n) = n
    <3>1. n \in Nat
      BY <1>7
    <3> HIDE DEF n
    <3> QED BY <3>1, FS_Interval
  <2> QED BY <2>2, <2>3, FS_Surjection
<1>12. n <= MaxMemories /\ (Len(all) > MaxMemories <=> n < Len(all))
  BY <1>1, <1>7
<1> HIDE DEF n, shown
<1>13. \A r \in 1..Len(all) : all[r].id \in shown <=> r \in 1..n
  BY <1>5, <1>7, <1>10 DEF OneRowEach, n
<1>14. \A m \in left : \E r \in DOMAIN all : m = all[r] /\ ~(r <= n)
  <2>1. ASSUME NEW m \in left PROVE \E r \in DOMAIN all : m = all[r] /\ ~(r <= n)
    <3>1. PICK i \in DOMAIN read : m = read[i]
      BY DEF ToSet
    <3>2. IsRelevant(read[i], o, active) /\ m.id \notin shown
      BY <3>1 DEF IsRelevant
    <3>3. PICK r \in DOMAIN all : all[r] = read[i]
      BY <1>5, <3>2
    <3> QED BY <1>7, <1>13, <3>1, <3>2, <3>3 DEF n
  <2> QED BY <2>1
<1>15. w.packet.truncated <=> left # {}
  <2>1. ASSUME n < Len(all) PROVE left # {}
    <3>1. n + 1 \in DOMAIN all /\ n + 1 \notin 1..n /\ n + 1 \in 1..Len(all)
      BY <1>7, <2>1 DEF n
    <3>2. PICK i \in DOMAIN read : all[n + 1] = read[i]
      BY <1>5, <3>1
    <3>3. read[i].id \notin shown /\ IsRelevant(read[i], o, active)
      BY <1>5, <1>13, <3>1, <3>2
    <3>4. read[i] \in left
      BY <3>3 DEF IsRelevant, ToSet
    <3> QED BY <3>4
  <2>2. ASSUME left # {} PROVE n < Len(all)
    <3>1. PICK r \in DOMAIN all : ~(r <= n)
      BY <1>14, <2>2
    <3> QED BY <1>7, <3>1 DEF n
  <2> QED BY <1>2, <1>4, <1>12, <2>1, <2>2
<1>16. Cardinality(shown) <= MaxMemories
  <2>1. n \in Nat /\ Cardinality(shown) \in Int
    <3>1. IsFiniteSet(shown)
      <4> DEFINE idAt == [i \in 1..n |-> all[i].id]
      <4>1. idAt \in [1..n -> shown] /\ \A x \in shown : \E i \in 1..n : idAt[i] = x
        BY <1>10 DEF n
      <4> HIDE DEF idAt
      <4>2. idAt \in Surjection(1..n, shown)
        BY <4>1, Fun_IsSurj
      <4>3. IsFiniteSet(1..n)
        BY <1>7, FS_Interval DEF n
      <4> HIDE DEF n, shown
      <4> QED BY ONLY <4>2, <4>3, FS_Surjection
    <3> QED BY <1>7, <3>1, FS_CardinalityType DEF n
  <2> QED BY <1>1, <1>11, <1>12, <2>1
<1>17. ASSUME ~Recalls(o), NEW m \in left, NEW x \in ToSet(read), x.id \in shown
       PROVE  score(m) <= score(x)
  <2>1. PICK r \in DOMAIN all : m = all[r] /\ ~(r <= n)
    BY <1>14, <1>17
  <2>2. PICK q \in 1..n : x.id = all[q].id
    BY <1>10, <1>17 DEF n
  <2>3. q \in DOMAIN all /\ q < r
    BY <1>7, <2>1, <2>2 DEF n
  <2>4. x = all[q]
    <3>1. PICK i \in DOMAIN read : all[q] = read[i]
      BY <1>5, <2>3
    <3>2. PICK j \in DOMAIN read : x = read[j]
      BY DEF ToSet
    <3> QED BY <1>3, <2>2, <3>1, <3>2 DEF OneRowEach
  <2>5. score(all[q]) >= score(all[r])
    BY <1>5, <1>17, <2>3
  <2>6. all[q] \in ReadMemories /\ all[r] \in ReadMemories
    BY <1>5, <2>1, <2>3
  <2>7. score(all[q]) \in Int /\ score(all[r]) \in Int
    BY <2>6, ScoresAreNumbers
  <2> HIDE DEF score
  <2> QED BY <2>1, <2>4, <2>5, <2>7
<1> QED BY <1>15, <1>16, <1>17, Zenon DEF shown, Recalls

\* The context of a request is honest (ContextCollector.collect): the workspace is
\* the user's, conflicts are real and told, as is a cut, and stale rows are reported.
THEOREM ContextHolds == ContextSpec => []ContextIsHonest
<1>1. ContextInv => ContextIsHonest
  <2> SUFFICES ASSUME ContextInv PROVE ContextIsHonest
    OBVIOUS
  <2>1. WorkspaceIsTheUsers
    <3> SUFFICES ASSUME NEW c \in Collections, Done(c)
                 PROVE  /\ \A i \in DOMAIN work[c].found :
                            work[c].found[i].active <=> /\ work[c].found[i].verified
                                                        /\ \A j \in 1..(i - 1) : ~work[c].found[j].verified
                        /\ work[c].objective.named # <<>> => \A i \in DOMAIN work[c].found :
                            \E p \in ToSet(work[c].objective.named) : work[c].found[i].path \in {p, Canonical[p]}
      BY Zenon DEF WorkspaceIsTheUsers
    <3>1. Grounded(work[c]) /\ work[c].stage # "idle"
      BY DEF ContextInv, GathersWell, Done
    <3> QED BY <3>1 DEF Grounded
  <2>2. StaleIsReported
    BY DEF ContextInv
  <2> QED BY <2>1, <2>2, ConflictsTold, TruncationTold DEF ContextIsHonest
<1> QED BY <1>1, ContextInvHolds, PTL

-----------------------------------------------------------------------------
(***************************************************************************)
(* Trace, for any tools, levels and bounds: what a trace says of its       *)
(* approvals is true. Induction needs to know which prompts are answered,  *)
(* what an approval has led to by now, and what a refusal keeps from       *)
(* starting.                                                               *)
(***************************************************************************)

Verdicts == {"SUCCESS", "PARTIAL_SUCCESS", "FAILED", "UNKNOWN"}
StepEndings == {"mission_step_completed", "mission_step_failed", "mission_step_skipped"}
EventTypes ==
    {"tool_requested", "permission_required", "tool_started", "tool_completed", "verification_started",
     "verification_completed", "task_cancelled", "task_error", "mission_completed", "mission_failed",
     "mission_cancelled"} \cup StepEndings
TraceEvents == [type : EventTypes, tool : Tools \cup {Absent}, success : BOOLEAN, found : Verdicts \cup {Absent}]

TraceTypes ==
    /\ happened \in Seq(TraceEvents)
    /\ toCall \in Seq(Tools)
    /\ doing \in {"agent", "tools", "asking", "approved", "running", "verifying", "ended"}
    /\ doing \in {"asking", "approved", "running", "verifying"} => toCall # <<>>
    /\ \A i \in DOMAIN happened : happened[i].type = "verification_completed" => happened[i].found \in Verdicts

\* Every prompt is answered but the one that waits, which is the last event.
EveryPromptAnswered ==
    /\ DOMAIN decided \subseteq Prompts
    /\ \A i \in Prompts : i \in DOMAIN decided \/ (doing = "asking" /\ i = Len(happened))
    /\ \A i \in DOMAIN decided : decided[i] \in {"approved", "refused", "cancelled"}
    /\ doing = "asking" =>
        /\ Len(happened) \in Prompts \ DOMAIN decided
        /\ happened[Len(happened)].tool = Head(toCall)

\* Only a tool that needs it is asked about, once it has not been refused.
AskedForCause ==
    /\ \A i \in Prompts : ~MayRun(happened[i].tool)
    /\ doing \in {"asking", "approved"} => ~MayRun(Head(toCall)) /\ Head(toCall) \notin refusals

\* What has started had the right to, or was approved before.
StartsArePermitted ==
    \A k \in DOMAIN happened : happened[k].type = "tool_started" =>
        \/ MayRun(happened[k].tool)
        \/ \E i \in DOMAIN decided : i < k /\ decided[i] = "approved" /\ happened[i].tool = happened[k].tool

\* What was approved has started, or is about to, unless the run was cancelled.
ApprovalsAreUsed ==
    /\ \A i \in DOMAIN decided : decided[i] = "approved" =>
        \/ Begun(happened[i].tool)
        \/ doing = "approved" /\ happened[i].tool = Head(toCall)
        \/ Cancelled
    /\ doing = "approved" =>
        \E i \in DOMAIN decided : decided[i] = "approved" /\ happened[i].tool = Head(toCall)

\* A tool refused when first asked about does not start in that run.
RefusalsHold ==
    ~mission => \A i \in DOMAIN decided : FirstPrompt(i) /\ decided[i] = "refused" =>
        happened[i].tool \in refusals /\ ~Begun(happened[i].tool)

CancelEndsRecord ==
    /\ Cancelled => doing = "ended"
    /\ \A i \in DOMAIN decided : decided[i] = "cancelled" => Cancelled

\* Only what ran is verified.
VerdictsFollowStarts ==
    /\ doing \in {"running", "verifying"} => Begun(Head(toCall))
    /\ \A i \in DOMAIN happened : happened[i].type = "verification_completed" => Occurs("tool_started")

TraceInv ==
    /\ TraceTypes /\ EveryPromptAnswered /\ AskedForCause /\ StartsArePermitted
    /\ ApprovalsAreUsed /\ RefusalsHold /\ CancelEndsRecord /\ VerdictsFollowStarts
-----------------------------------------------------------------------------
(* What recording events changes.                                          *)

LEMMA EventsAreTyped ==
    /\ \A type \in EventTypes : \A tool \in Tools \cup {Absent} :
        Entry(type, tool) \in TraceEvents /\ Entry(type, tool).type = type /\ Entry(type, tool).tool = tool
    /\ \A tool \in Tools : \A ok \in BOOLEAN :
        Completed(tool, ok) \in TraceEvents /\ Completed(tool, ok).type = "tool_completed"
    /\ \A tool \in Tools : \A found \in Verdicts :
        /\ VerifiedAs(tool, found) \in TraceEvents
        /\ VerifiedAs(tool, found).type = "verification_completed" /\ VerifiedAs(tool, found).found = found
<1>1. ASSUME NEW type \in EventTypes, NEW tool \in Tools \cup {Absent}
      PROVE  Entry(type, tool) \in TraceEvents /\ Entry(type, tool).type = type /\ Entry(type, tool).tool = tool
  <2>1. TRUE \in BOOLEAN /\ Absent \in Verdicts \cup {Absent}
    OBVIOUS
  <2> HIDE DEF EventTypes, Verdicts
  <2> QED BY <2>1 DEF Entry, TraceEvents
<1>2. "tool_completed" \in EventTypes /\ "verification_completed" \in EventTypes
  BY DEF EventTypes
<1>3. ASSUME NEW tool \in Tools, NEW ok \in BOOLEAN
      PROVE  Completed(tool, ok) \in TraceEvents /\ Completed(tool, ok).type = "tool_completed"
  BY <1>1, <1>2, <1>3 DEF Completed, Entry, TraceEvents
<1>4. ASSUME NEW tool \in Tools, NEW found \in Verdicts
      PROVE  /\ VerifiedAs(tool, found) \in TraceEvents
             /\ VerifiedAs(tool, found).type = "verification_completed"
             /\ VerifiedAs(tool, found).found = found
  BY <1>1, <1>2, <1>4 DEF VerifiedAs, Entry, TraceEvents
<1> QED BY <1>1, <1>3, <1>4

\* Events are recorded after those there are.
LEMMA Recorded ==
    ASSUME TraceTypes, NEW es \in Seq(TraceEvents), Record(es)
    PROVE  /\ happened' \in Seq(TraceEvents) /\ Len(happened) \in Nat
           /\ DOMAIN happened = 1..Len(happened) /\ Len(happened') = Len(happened) + Len(es)
           /\ DOMAIN happened' = 1..Len(happened')
           /\ \A i \in DOMAIN happened : i \in DOMAIN happened' /\ happened'[i] = happened[i]
           /\ \A i \in DOMAIN happened' : i \in DOMAIN happened
                \/ \E k \in DOMAIN es : i = Len(happened) + k /\ happened'[i] = es[k]
           /\ \A k \in DOMAIN es : /\ Len(happened) + k \in DOMAIN happened' /\ Len(happened) < Len(happened) + k
                                   /\ happened'[Len(happened) + k] = es[k]
<1> DEFINE n == Len(happened)
           m == Len(es)
<1>1. happened \in Seq(TraceEvents) /\ happened' = happened \o es
  BY DEF TraceTypes, Record
<1>2. /\ happened' \in Seq(TraceEvents) /\ n \in Nat /\ m \in Nat /\ Len(happened') = n + m
      /\ DOMAIN happened = 1..n /\ DOMAIN es = 1..m /\ DOMAIN happened' = 1..(n + m)
      /\ \A i \in 1..n : happened'[i] = happened[i]
      /\ \A k \in 1..m : happened'[n + k] = es[k]
  BY <1>1
<1> HIDE DEF n, m
<1>3. \A i \in 1..n : i \in 1..(n + m)
  BY <1>2
<1>4. \A i \in 1..(n + m) : i \in 1..n \/ (i - n \in 1..m /\ i = n + (i - n))
  BY <1>2
<1>5. \A k \in 1..m : n + k \in 1..(n + m) /\ n < n + k
  BY <1>2
<1>6. \A i \in 1..(n + m) : i \in 1..n \/ \E k \in 1..m : i = n + k /\ happened'[i] = es[k]
  <2>1. ASSUME NEW i \in 1..(n + m), i \notin 1..n PROVE \E k \in 1..m : i = n + k /\ happened'[i] = es[k]
    <3>1. i - n \in 1..m /\ i = n + (i - n)
      BY <1>4, <2>1
    <3>2. happened'[n + (i - n)] = es[i - n]
      BY <1>2, <3>1
    <3> QED BY <3>1, <3>2
  <2> QED BY <2>1
<1> QED BY <1>2, <1>3, <1>5, <1>6 DEF n, m

\* So is one event.
LEMMA OneRecorded ==
    ASSUME TraceTypes, NEW e \in TraceEvents, Record(<<e>>)
    PROVE  /\ <<e>> \in Seq(TraceEvents) /\ DOMAIN <<e>> = {1} /\ <<e>>[1] = e
           /\ Len(happened) \in Nat /\ Len(happened') = Len(happened) + 1
           /\ Len(happened) + 1 \in DOMAIN happened' /\ happened'[Len(happened) + 1] = e
           /\ Len(happened) + 1 \notin DOMAIN happened
           /\ \A i \in DOMAIN happened : i \in DOMAIN happened' /\ happened'[i] = happened[i]
           /\ \A i \in DOMAIN happened' : i \in DOMAIN happened \/ i = Len(happened) + 1
<1>1. <<e>> \in Seq(TraceEvents) /\ Len(<<e>>) = 1 /\ DOMAIN <<e>> = {1} /\ <<e>>[1] = e
  OBVIOUS
<1>2. happened \in Seq(TraceEvents) /\ happened' = happened \o <<e>>
  BY DEF TraceTypes, Record
<1>3. /\ Len(happened) \in Nat /\ Len(happened') = Len(happened) + 1 /\ DOMAIN happened = 1..Len(happened)
      /\ DOMAIN happened' = 1..(Len(happened) + 1) /\ happened'[Len(happened) + 1] = e
      /\ \A i \in 1..Len(happened) : happened'[i] = happened[i]
  BY <1>2
<1> QED BY <1>1, <1>3

\* What was there stays, and what is new is among the new events.
LEMMA Later ==
    ASSUME TraceTypes, NEW es \in Seq(TraceEvents), Record(es)
    PROVE  /\ \A i \in Prompts : i \in Prompts' /\ happened'[i] = happened[i] /\ i <= Len(happened)
           /\ \A i \in Prompts' : i \in Prompts
                \/ \E k \in DOMAIN es : i = Len(happened) + k /\ es[k].type = "permission_required"
           /\ \A tool : Begun(tool) => Begun(tool)'
           /\ \A tool : Begun(tool)' => Begun(tool)
                \/ \E k \in DOMAIN es : es[k].type = "tool_started" /\ es[k].tool = tool
           /\ \A type : Occurs(type) => Occurs(type)'
           /\ \A type : Occurs(type)' => Occurs(type) \/ \E k \in DOMAIN es : es[k].type = type
           /\ \A i \in DOMAIN happened : FirstPrompt(i)' <=> FirstPrompt(i)
<1>0. happened \in Seq(TraceEvents) /\ Len(happened) \in Nat /\ DOMAIN happened = 1..Len(happened)
  BY DEF TraceTypes
<1>1. \A i \in Prompts : i \in Prompts' /\ happened'[i] = happened[i] /\ i <= Len(happened)
  BY <1>0, Recorded DEF Prompts
<1>2. \A i \in Prompts' : i \in Prompts
         \/ \E k \in DOMAIN es : i = Len(happened) + k /\ es[k].type = "permission_required"
  BY Recorded DEF Prompts
<1>3. \A tool : Begun(tool) => Begun(tool)'
  BY Recorded DEF Begun
<1>4. \A tool : Begun(tool)' => Begun(tool)
         \/ \E k \in DOMAIN es : es[k].type = "tool_started" /\ es[k].tool = tool
  BY Recorded DEF Begun
<1>5. \A type : Occurs(type) => Occurs(type)'
  BY Recorded DEF Occurs
<1>6. \A type : Occurs(type)' => Occurs(type) \/ \E k \in DOMAIN es : es[k].type = type
  BY Recorded DEF Occurs
<1>7. ASSUME NEW i \in DOMAIN happened PROVE FirstPrompt(i)' <=> FirstPrompt(i)
  <2>1. happened'[i] = happened[i] /\ i <= Len(happened) /\ i \in Nat
    BY <1>0, Recorded
  <2>2. \A j \in Prompts' : j < i => j \in Prompts
    BY <1>0, <1>2, <2>1, Recorded
  <2>3. \A j \in Prompts' : j \in DOMAIN happened'
    BY DEF Prompts
  <2> QED BY <1>1, <2>1, <2>2 DEF FirstPrompt
<1> QED BY <1>1, <1>2, <1>3, <1>4, <1>5, <1>6, <1>7

\* Events that ask for nothing, start nothing and cancel nothing.
QuietEvents(es) ==
    \A k \in DOMAIN es :
        /\ es[k].type \notin {"permission_required", "tool_started", "task_cancelled"}
        /\ es[k].type = "verification_completed" => es[k].found \in Verdicts /\ Occurs("tool_started")

\* The types after events are recorded.
LEMMA TypesAfter ==
    ASSUME TraceTypes, NEW es \in Seq(TraceEvents), Record(es), toCall' \in Seq(Tools),
           doing' \in {"agent", "tools", "asking", "approved", "running", "verifying", "ended"},
           doing' \in {"asking", "approved", "running", "verifying"} => toCall' # <<>>,
           \A k \in DOMAIN es : es[k].type = "verification_completed" => es[k].found \in Verdicts
    PROVE  TraceTypes'
<1>1. /\ happened' \in Seq(TraceEvents)
      /\ \A i \in DOMAIN happened : happened'[i] = happened[i]
      /\ \A i \in DOMAIN happened' : i \in DOMAIN happened \/ \E k \in DOMAIN es : happened'[i] = es[k]
  BY Recorded
<1>2. ASSUME NEW i \in DOMAIN happened', happened'[i].type = "verification_completed"
      PROVE  happened'[i].found \in Verdicts
  <2> HIDE DEF Verdicts
  <2> QED BY <1>1, <1>2 DEF TraceTypes
<1> QED BY <1>1, <1>2 DEF TraceTypes

\* A step that records only such events keeps what holds of prompts and starts.
LEMMA QuietStep ==
    ASSUME TraceInv, NEW es \in Seq(TraceEvents), Record(es), QuietEvents(es),
           UNCHANGED <<decided, mission, beforehand>>, refusals \subseteq refusals' \/ mission,
           toCall' \in Seq(Tools), doing \notin {"asking", "approved", "ended"},
           doing' \in {"agent", "tools", "running", "verifying", "ended"},
           doing' \in {"running", "verifying"} => toCall' # <<>> /\ Begun(Head(toCall'))
    PROVE  TraceInv'
<1> USE DEF TraceInv
<1>0. TraceTypes /\ (\A tool : MayRun(tool)' <=> MayRun(tool)) /\ ~Cancelled
  BY DEF MayRun, CancelEndsRecord
<1>1. TraceTypes'
  BY TypesAfter DEF QuietEvents
<1>2. \A k \in DOMAIN es : es[k].type \notin {"permission_required", "tool_started", "task_cancelled"}
  BY DEF QuietEvents
<1>3. /\ \A i \in Prompts : i \in Prompts' /\ happened'[i] = happened[i] /\ i \in DOMAIN happened
      /\ \A i \in Prompts' : i \in Prompts
  BY <1>0, <1>2, Later DEF Prompts
<1>4. \A tool : Begun(tool)' <=> Begun(tool)
  BY <1>0, <1>2, Later
<1>5. ~Cancelled'
  BY <1>0, <1>2, Later DEF Cancelled
<1>6. \A i \in Prompts : FirstPrompt(i)' <=> FirstPrompt(i)
  BY <1>0, <1>3, Later
<1>7. /\ \A i \in DOMAIN happened : happened'[i] = happened[i]
      /\ \A i \in DOMAIN happened' : i \in DOMAIN happened \/ \E k \in DOMAIN es : happened'[i] = es[k]
  BY <1>0, Recorded
<1>8. EveryPromptAnswered'
  BY <1>3 DEF EveryPromptAnswered
<1>9. AskedForCause'
  BY <1>0, <1>3 DEF AskedForCause
<1>10. StartsArePermitted'
  <2>1. \A k \in DOMAIN happened' : happened'[k].type = "tool_started" => k \in DOMAIN happened
    BY <1>2, <1>7
  <2>2. \A i \in DOMAIN decided : happened'[i] = happened[i]
    BY <1>3 DEF EveryPromptAnswered
  <2> QED BY <1>0, <1>7, <2>1, <2>2 DEF StartsArePermitted
<1>11. ApprovalsAreUsed'
  BY <1>0, <1>3, <1>4 DEF ApprovalsAreUsed, EveryPromptAnswered
<1>12. RefusalsHold'
  BY <1>3, <1>4, <1>6 DEF RefusalsHold, EveryPromptAnswered
<1>13. CancelEndsRecord'
  BY <1>0, <1>5 DEF CancelEndsRecord
<1>14. VerdictsFollowStarts'
  <2>1. Occurs("tool_started") => Occurs("tool_started")'
    BY <1>0, Later
  <2>2. ASSUME NEW i \in DOMAIN happened', happened'[i].type = "verification_completed"
        PROVE  Occurs("tool_started")
    BY <1>7, <2>2 DEF QuietEvents, VerdictsFollowStarts
  <2> QED BY <1>4, <2>1, <2>2 DEF VerdictsFollowStarts
<1> QED BY <1>1, <1>8, <1>9, <1>10, <1>11, <1>12, <1>13, <1>14

-----------------------------------------------------------------------------
(* Prompts and their answers.                                              *)

\* A tool that may not run has not started unless it was asked about before.
LEMMA StartedAfterPrompt ==
    ASSUME TraceInv, NEW tool, ~MayRun(tool), Begun(tool)
    PROVE  \E i \in DOMAIN decided : i \in Prompts /\ decided[i] = "approved" /\ happened[i].tool = tool
BY DEF TraceInv, StartsArePermitted, EveryPromptAnswered, Begun

LEMMA AskUserStep ==
    ASSUME TraceInv, AskUser
    PROVE  TraceInv'
<1> USE DEF TraceInv
<1> DEFINE tool == Head(toCall)
           es == <<Entry("permission_required", tool)>>
           n == Len(happened)
<1>0. /\ TraceTypes /\ Record(es) /\ (\A t : MayRun(t)' <=> MayRun(t)) /\ ~Cancelled /\ ~MayRun(tool)
      /\ UNCHANGED <<decided, mission, beforehand, refusals, toCall>> /\ doing = "tools" /\ doing' = "asking"
      /\ toCall # <<>> /\ tool \notin refusals
  BY DEF AskUser, MayRun, CancelEndsRecord
<1>1. tool \in Tools /\ toCall \in Seq(Tools)
  BY <1>0 DEF TraceTypes
<1>2. "permission_required" \in EventTypes
  BY DEF EventTypes
<1> DEFINE e == Entry("permission_required", tool)
<1>3. /\ es \in Seq(TraceEvents) /\ DOMAIN es = {1} /\ es[1] = e
      /\ e \in TraceEvents /\ e.type = "permission_required" /\ e.tool = tool
  BY <1>1, <1>2, EventsAreTyped
<1> HIDE DEF es, tool
<1>4. /\ n \in Nat /\ n + 1 \in DOMAIN happened' /\ happened'[n + 1] = e /\ Len(happened') = n + 1
      /\ n + 1 \notin DOMAIN happened
      /\ \A i \in DOMAIN happened : i \in DOMAIN happened' /\ happened'[i] = happened[i]
      /\ \A i \in DOMAIN happened' : i \in DOMAIN happened \/ i = n + 1
  <2>1. Record(<<e>>)
    BY <1>0 DEF es
  <2> QED BY <1>0, <1>3, <2>1, OneRecorded
<1> HIDE DEF e
<1>5. TraceTypes'
  <2>1. doing' # "running" /\ e.type # "verification_completed"
    BY <1>0, <1>3
  <2> QED BY <1>0, <1>1, <1>3, <2>1, TypesAfter DEF TraceTypes
<1>6. Prompts' = Prompts \cup {n + 1} /\ n + 1 \notin Prompts /\ \A i \in Prompts : happened'[i] = happened[i]
  BY <1>3, <1>4 DEF Prompts
<1>7. (\A t : Begun(t)' <=> Begun(t)) /\ ~Cancelled' /\ \A i \in Prompts : FirstPrompt(i)' <=> FirstPrompt(i)
  <2>1. \A t : Begun(t)' <=> Begun(t)
    BY <1>0, <1>3, Later
  <2>2. ~Cancelled'
    BY <1>0, <1>3, Later DEF Cancelled
  <2>3. \A i \in Prompts : FirstPrompt(i)' <=> FirstPrompt(i)
    BY <1>0, <1>3, Later DEF Prompts
  <2> QED BY <2>1, <2>2, <2>3
<1>8. EveryPromptAnswered'
  <2>1. \A i \in Prompts : i \in DOMAIN decided
    BY <1>0 DEF EveryPromptAnswered
  <2>2. Len(happened') \in Prompts' \ DOMAIN decided /\ happened'[Len(happened')].tool = tool
    BY <1>3, <1>4, <1>6 DEF EveryPromptAnswered
  <2> QED BY <1>0, <1>4, <1>6, <2>1, <2>2 DEF EveryPromptAnswered, tool
<1>9. AskedForCause'
  <2>1. \A i \in Prompts' : ~MayRun(happened'[i].tool)
    BY <1>0, <1>3, <1>4, <1>6 DEF AskedForCause
  <2> QED BY <1>0, <2>1 DEF AskedForCause, tool
<1>10. StartsArePermitted'
  <2>1. \A k \in DOMAIN happened' : happened'[k].type = "tool_started" => k \in DOMAIN happened
    BY <1>3, <1>4
  <2>2. \A i \in DOMAIN decided : happened'[i] = happened[i]
    BY <1>6 DEF EveryPromptAnswered
  <2> QED BY <1>0, <1>4, <2>1, <2>2 DEF StartsArePermitted
<1>11. ApprovalsAreUsed'
  <2>1. \A i \in DOMAIN decided : happened'[i] = happened[i]
    BY <1>6 DEF EveryPromptAnswered
  <2> QED BY <1>0, <1>7, <2>1 DEF ApprovalsAreUsed
<1>12. RefusalsHold'
  <2>1. \A i \in DOMAIN decided : happened'[i] = happened[i] /\ i \in Prompts
    BY <1>6 DEF EveryPromptAnswered
  <2> QED BY <1>0, <1>7, <2>1 DEF RefusalsHold
<1>13. CancelEndsRecord'
  BY <1>0, <1>7 DEF CancelEndsRecord
<1>14. VerdictsFollowStarts'
  <2>1. Occurs("tool_started") => Occurs("tool_started")'
    BY <1>0, <1>3, Later
  <2>2. ASSUME NEW i \in DOMAIN happened', happened'[i].type = "verification_completed"
        PROVE  Occurs("tool_started")
    BY <1>3, <1>4, <2>2 DEF VerdictsFollowStarts
  <2> QED BY <1>0, <2>1, <2>2 DEF VerdictsFollowStarts
<1> QED BY <1>5, <1>8, <1>9, <1>10, <1>11, <1>12, <1>13, <1>14

\* An answer is that of the prompt that waits, and changes no other.
LEMMA AnswerIs ==
    ASSUME TraceInv, doing = "asking", NEW answer, DecidedAs(answer)
    PROVE  LET n == Len(happened) IN
           /\ DOMAIN decided' = DOMAIN decided \cup {n} /\ n \notin DOMAIN decided /\ n \in Prompts
           /\ decided'[n] = answer /\ happened[n].tool = Head(toCall)
           /\ \A i \in DOMAIN decided : decided'[i] = decided[i]
           /\ \A i \in Prompts : i \in DOMAIN decided'
           /\ ~MayRun(Head(toCall)) /\ Head(toCall) \notin refusals /\ Head(toCall) \in Tools
           /\ toCall \in Seq(Tools) /\ ~Cancelled
<1> DEFINE n == Len(happened)
<1>1. n \notin DOMAIN decided /\ n \in Prompts /\ happened[n].tool = Head(toCall)
  BY DEF TraceInv, EveryPromptAnswered
<1>2. \A i \in Prompts : i \in DOMAIN decided \/ i = n
  BY DEF TraceInv, EveryPromptAnswered
<1>3. /\ ~MayRun(Head(toCall)) /\ Head(toCall) \notin refusals /\ Head(toCall) \in Tools
      /\ toCall \in Seq(Tools) /\ ~Cancelled
  BY DEF TraceInv, AskedForCause, TraceTypes, CancelEndsRecord
<1>4. /\ DOMAIN decided' = DOMAIN decided \cup {n} /\ decided'[n] = answer
      /\ \A i \in DOMAIN decided : decided'[i] = decided[i]
  BY <1>1 DEF DecidedAs
<1> QED BY <1>1, <1>2, <1>3, <1>4

LEMMA ApproveStep ==
    ASSUME TraceInv, Approve
    PROVE  TraceInv'
<1> USE DEF TraceInv
<1> DEFINE tool == Head(toCall)
           n == Len(happened)
<1>0. /\ TraceTypes /\ doing = "asking" /\ DecidedAs("approved") /\ doing' = "approved"
      /\ UNCHANGED <<happened, toCall, refusals, mission, beforehand>> /\ (\A t : MayRun(t)' <=> MayRun(t))
  BY DEF Approve, MayRun
<1>1. /\ DOMAIN decided' = DOMAIN decided \cup {n} /\ n \notin DOMAIN decided /\ n \in Prompts
      /\ decided'[n] = "approved" /\ happened[n].tool = tool
      /\ \A i \in DOMAIN decided : decided'[i] = decided[i]
      /\ \A i \in Prompts : i \in DOMAIN decided'
      /\ ~MayRun(tool) /\ tool \notin refusals /\ tool \in Tools /\ ~Cancelled
  BY <1>0, AnswerIs
<1>2. /\ Prompts' = Prompts /\ (\A t : Begun(t)' <=> Begun(t)) /\ (\A type : Occurs(type)' <=> Occurs(type))
      /\ ~Cancelled' /\ \A i : FirstPrompt(i)' <=> FirstPrompt(i)
  BY <1>0, <1>1 DEF Prompts, Begun, Occurs, Cancelled, FirstPrompt
<1> HIDE DEF tool, n
<1>3. TraceTypes'
  BY <1>0 DEF TraceTypes
<1>4. EveryPromptAnswered'
  BY <1>0, <1>1, <1>2 DEF EveryPromptAnswered
<1>5. AskedForCause'
  BY <1>0, <1>1, <1>2 DEF AskedForCause, tool
<1>6. StartsArePermitted'
  BY <1>0, <1>1 DEF StartsArePermitted
<1>7. ApprovalsAreUsed'
  BY <1>0, <1>1, <1>2 DEF ApprovalsAreUsed, tool
<1>8. RefusalsHold'
  BY <1>0, <1>1, <1>2 DEF RefusalsHold
<1>9. CancelEndsRecord'
  BY <1>0, <1>1, <1>2 DEF CancelEndsRecord
<1>10. VerdictsFollowStarts'
  BY <1>0, <1>2 DEF VerdictsFollowStarts
<1> QED BY <1>3, <1>4, <1>5, <1>6, <1>7, <1>8, <1>9, <1>10

LEMMA DeclineStep ==
    ASSUME TraceInv, Decline
    PROVE  TraceInv'
<1> USE DEF TraceInv
<1> DEFINE tool == Head(toCall)
           es == <<Completed(tool, FALSE)>>
           n == Len(happened)
<1>0. /\ TraceTypes /\ doing = "asking" /\ DecidedAs("refused") /\ doing' = "tools" /\ Record(es)
      /\ toCall' = Tail(toCall) /\ toCall # <<>> /\ refusals' = refusals \cup {tool}
      /\ UNCHANGED <<mission, beforehand>> /\ (\A t : MayRun(t)' <=> MayRun(t))
  BY DEF Decline, MayRun, TraceTypes
<1>1. /\ DOMAIN decided' = DOMAIN decided \cup {n} /\ n \notin DOMAIN decided /\ n \in Prompts
      /\ decided'[n] = "refused" /\ happened[n].tool = tool
      /\ \A i \in DOMAIN decided : decided'[i] = decided[i]
      /\ \A i \in Prompts : i \in DOMAIN decided'
      /\ ~MayRun(tool) /\ tool \notin refusals /\ tool \in Tools /\ ~Cancelled /\ toCall \in Seq(Tools)
  BY <1>0, AnswerIs
<1>2. es \in Seq(TraceEvents) /\ \A k \in DOMAIN es : es[k].type = "tool_completed"
  <2> DEFINE e == Completed(tool, FALSE)
  <2>1. FALSE \in BOOLEAN /\ tool \in Tools
    BY <1>1
  <2>2. e \in TraceEvents /\ e.type = "tool_completed"
    BY <2>1, EventsAreTyped
  <2>3. es = <<e>>
    OBVIOUS
  <2> HIDE DEF es, e
  <2>4. es \in Seq(TraceEvents) /\ DOMAIN es = {1} /\ es[1] = e
    BY <2>2, <2>3
  <2> QED BY <2>2, <2>4
<1>3. toCall' \in Seq(Tools)
  BY <1>0, <1>1
<1> HIDE DEF tool, es, n
<1>4. /\ Prompts' = Prompts
      /\ \A i \in Prompts : happened'[i] = happened[i] /\ i \in DOMAIN happened /\ i <= n /\ i \in Nat
  <2>1. /\ \A i \in Prompts : i \in Prompts' /\ happened'[i] = happened[i] /\ i <= n
        /\ \A i \in Prompts' : i \in Prompts
    BY <1>0, <1>2, Later DEF n
  <2>2. happened \in Seq(TraceEvents) /\ DOMAIN happened \subseteq Nat
    BY <1>0 DEF TraceTypes
  <2> QED BY <2>1, <2>2 DEF Prompts
<1>5. (\A t : Begun(t)' <=> Begun(t)) /\ ~Cancelled' /\ \A i \in Prompts : FirstPrompt(i)' <=> FirstPrompt(i)
  <2>1. \A t : Begun(t)' <=> Begun(t)
    BY <1>0, <1>2, Later
  <2>2. ~Cancelled'
    BY <1>0, <1>1, <1>2, Later DEF Cancelled
  <2>3. \A i \in Prompts : FirstPrompt(i)' <=> FirstPrompt(i)
    BY <1>0, <1>2, Later DEF Prompts
  <2> QED BY <2>1, <2>2, <2>3
<1>6. /\ \A i \in DOMAIN happened : happened'[i] = happened[i] /\ i \in DOMAIN happened'
      /\ \A i \in DOMAIN happened' : i \in DOMAIN happened \/ \E k \in DOMAIN es : happened'[i] = es[k]
  BY <1>0, <1>2, Recorded
<1>7. TraceTypes'
  BY <1>0, <1>2, <1>3, TypesAfter
<1>8. EveryPromptAnswered'
  BY <1>0, <1>1, <1>4 DEF EveryPromptAnswered
<1>9. AskedForCause'
  BY <1>0, <1>4 DEF AskedForCause
<1>10. StartsArePermitted'
  <2>1. \A k \in DOMAIN happened' : happened'[k].type = "tool_started" => k \in DOMAIN happened
    BY <1>2, <1>6
  <2>2. \A i \in DOMAIN decided : i \in DOMAIN decided' /\ decided'[i] = decided[i] /\ happened'[i] = happened[i]
    BY <1>1, <1>4 DEF EveryPromptAnswered
  <2> QED BY <1>0, <1>6, <2>1, <2>2 DEF StartsArePermitted
<1>11. ApprovalsAreUsed'
  BY <1>0, <1>1, <1>4, <1>5 DEF ApprovalsAreUsed, EveryPromptAnswered
<1>12. RefusalsHold'
  <2>1. ASSUME ~mission, FirstPrompt(n) PROVE ~Begun(tool)
    <3>1. SUFFICES ASSUME Begun(tool) PROVE FALSE
      OBVIOUS
    <3>2. PICK i \in DOMAIN decided : i \in Prompts /\ decided[i] = "approved" /\ happened[i].tool = tool
      BY <1>1, <3>1, StartedAfterPrompt
    <3>3. i # n /\ i <= n /\ n \in Nat /\ i \in Nat
      BY <1>1, <1>4, <3>2
    <3>4. i < n
      BY <3>3
    <3> QED BY <1>1, <2>1, <3>2, <3>4 DEF FirstPrompt
  <2>2. ASSUME ~mission, NEW i \in DOMAIN decided, FirstPrompt(i), decided[i] = "refused"
        PROVE  happened[i].tool \in refusals' /\ ~Begun(happened[i].tool)
    BY <1>0, <2>2 DEF RefusalsHold
  <2>3. tool \in refusals'
    BY <1>0
  <2> QED BY <1>0, <1>1, <1>4, <1>5, <2>1, <2>2, <2>3 DEF RefusalsHold, EveryPromptAnswered
<1>13. CancelEndsRecord'
  BY <1>0, <1>1, <1>5 DEF CancelEndsRecord
<1>14. VerdictsFollowStarts'
  <2>1. Occurs("tool_started") => Occurs("tool_started")'
    BY <1>0, <1>2, Later
  <2>2. ASSUME NEW i \in DOMAIN happened', happened'[i].type = "verification_completed"
        PROVE  Occurs("tool_started")
    BY <1>2, <1>6, <2>2 DEF VerdictsFollowStarts
  <2> QED BY <1>0, <2>1, <2>2 DEF VerdictsFollowStarts
<1> QED BY <1>7, <1>8, <1>9, <1>10, <1>11, <1>12, <1>13, <1>14

LEMMA StartToolStep ==
    ASSUME TraceInv, StartTool
    PROVE  TraceInv'
<1> USE DEF TraceInv
<1> DEFINE tool == Head(toCall)
           e == Entry("tool_started", tool)
           n == Len(happened)
<1>0. /\ TraceTypes /\ Record(<<e>>) /\ (\A t : MayRun(t)' <=> MayRun(t)) /\ ~Cancelled
      /\ UNCHANGED <<decided, mission, beforehand, refusals, toCall>> /\ doing' = "running" /\ toCall # <<>>
      /\ (doing = "approved" \/ (doing = "tools" /\ MayRun(tool))) /\ toCall \in Seq(Tools) /\ tool \in Tools
  <2>1. toCall \in Seq(Tools) /\ toCall # <<>>
    BY DEF StartTool, TraceTypes
  <2>2. tool \in Tools
    BY <2>1
  <2> QED BY <2>1, <2>2 DEF StartTool, MayRun, CancelEndsRecord
<1>1. e \in TraceEvents /\ e.type = "tool_started" /\ e.tool = tool
  <2>1. "tool_started" \in EventTypes
    BY DEF EventTypes
  <2> QED BY <1>0, <2>1, EventsAreTyped
<1> HIDE DEF e, tool
<1>2. /\ <<e>> \in Seq(TraceEvents) /\ DOMAIN <<e>> = {1} /\ <<e>>[1] = e
      /\ n \in Nat /\ n + 1 \in DOMAIN happened' /\ happened'[n + 1] = e /\ n + 1 \notin DOMAIN happened
      /\ \A i \in DOMAIN happened : i \in DOMAIN happened' /\ happened'[i] = happened[i]
      /\ \A i \in DOMAIN happened' : i \in DOMAIN happened \/ i = n + 1
  BY <1>0, <1>1, OneRecorded
<1>3. TraceTypes'
  <2>1. \A k \in DOMAIN <<e>> : <<e>>[k].type # "verification_completed"
    BY <1>1, <1>2
  <2> QED BY <1>0, <1>2, <2>1, TypesAfter
<1>4. Prompts' = Prompts /\ \A i \in Prompts : happened'[i] = happened[i] /\ i <= n /\ i \in Nat
  <2>1. happened \in Seq(TraceEvents) /\ DOMAIN happened = 1..n
    BY <1>0 DEF TraceTypes
  <2>2. \A i \in Prompts : happened'[i] = happened[i] /\ i <= n /\ i \in Nat
    BY <1>2, <2>1 DEF Prompts
  <2> HIDE DEF n
  <2> QED BY <1>1, <1>2, <2>2 DEF Prompts
<1>5. /\ \A t : Begun(t)' <=> (Begun(t) \/ t = tool)
      /\ ~Cancelled' /\ \A i \in Prompts : FirstPrompt(i)' <=> FirstPrompt(i)
  <2>1. \A t : Begun(t)' <=> (Begun(t) \/ t = tool)
    <3> HIDE DEF n
    <3> QED BY <1>1, <1>2 DEF Begun
  <2>2. ~Cancelled'
    <3> HIDE DEF n
    <3> QED BY <1>0, <1>1, <1>2 DEF Cancelled, Occurs
  <2>3. \A i \in Prompts : FirstPrompt(i)' <=> FirstPrompt(i)
    BY <1>4 DEF FirstPrompt
  <2> QED BY <2>1, <2>2, <2>3
<1>6. \A i \in DOMAIN decided : i \in Prompts /\ happened'[i] = happened[i]
  BY <1>4 DEF EveryPromptAnswered
<1>7. EveryPromptAnswered'
  BY <1>0, <1>4 DEF EveryPromptAnswered
<1>8. AskedForCause'
  BY <1>0, <1>4 DEF AskedForCause
<1>9. StartsArePermitted'
  <2>1. ASSUME NEW k \in DOMAIN happened, happened[k].type = "tool_started"
        PROVE  \/ MayRun(happened[k].tool)
               \/ \E i \in DOMAIN decided : i < k /\ decided[i] = "approved" /\ happened'[i].tool = happened[k].tool
    BY <1>6, <2>1 DEF StartsArePermitted
  <2>2. MayRun(tool) \/ \E i \in DOMAIN decided : i < n + 1 /\ decided[i] = "approved" /\ happened'[i].tool = tool
    <3>1. CASE doing = "approved"
      <4>1. PICK i \in DOMAIN decided : decided[i] = "approved" /\ happened[i].tool = tool
        BY <3>1 DEF ApprovalsAreUsed, tool
      <4>2. i < n + 1
        BY <1>2, <1>4, <1>6
      <4> QED BY <1>6, <4>1, <4>2
    <3>2. CASE doing = "tools"
      BY <1>0, <3>2
    <3> QED BY <1>0, <3>1, <3>2
  <2> HIDE DEF n
  <2>3. ASSUME NEW k \in DOMAIN happened', happened'[k].type = "tool_started"
        PROVE  \/ MayRun(happened'[k].tool)
               \/ \E i \in DOMAIN decided : i < k /\ decided[i] = "approved" /\ happened'[i].tool = happened'[k].tool
    <3>1. CASE k \in DOMAIN happened
      BY <1>2, <2>1, <2>3, <3>1
    <3>2. CASE k = n + 1
      BY <1>1, <1>2, <2>2, <3>2
    <3> QED BY <1>2, <3>1, <3>2
  <2> QED BY <1>0, <2>3 DEF StartsArePermitted
<1>10. ApprovalsAreUsed'
  BY <1>0, <1>5, <1>6 DEF ApprovalsAreUsed, tool
<1>11. RefusalsHold'
  <2>1. ASSUME NEW i \in DOMAIN decided, ~mission, FirstPrompt(i), decided[i] = "refused"
        PROVE  happened[i].tool \in refusals /\ ~Begun(happened[i].tool)
    BY <2>1 DEF RefusalsHold
  <2>2. ASSUME NEW i \in DOMAIN decided, happened[i].tool \in refusals PROVE happened[i].tool # tool
    <3>1. ~MayRun(happened[i].tool)
      BY <1>6 DEF AskedForCause
    <3> QED BY <1>0, <2>2, <3>1 DEF AskedForCause, tool
  <2> QED BY <1>0, <1>5, <1>6, <2>1, <2>2 DEF RefusalsHold
<1>12. CancelEndsRecord'
  BY <1>0, <1>5 DEF CancelEndsRecord
<1>13. VerdictsFollowStarts'
  <2>1. Begun(Head(toCall))'
    BY <1>0, <1>5 DEF tool
  <2>2. Occurs("tool_started")'
    <3> HIDE DEF n
    <3> QED BY <1>1, <1>2 DEF Occurs
  <2> QED BY <2>1, <2>2 DEF VerdictsFollowStarts
<1> QED BY <1>3, <1>7, <1>8, <1>9, <1>10, <1>11, <1>12, <1>13

LEMMA CancelRunStep ==
    ASSUME TraceInv, CancelRun
    PROVE  TraceInv'
<1> USE DEF TraceInv
<1> DEFINE first == IF mission THEN <<Entry("mission_cancelled", Absent)>> ELSE <<>>
           last == Entry("task_cancelled", Absent)
           es == first \o <<last>>
           n == Len(happened)
<1>0. /\ TraceTypes /\ Record(es) /\ (\A t : MayRun(t)' <=> MayRun(t)) /\ ~Cancelled
      /\ UNCHANGED <<mission, beforehand, refusals, toCall>> /\ doing' = "ended" /\ toCall \in Seq(Tools)
  BY DEF CancelRun, MayRun, CancelEndsRecord, TraceTypes
<1>1. /\ es \in Seq(TraceEvents) /\ \A k \in DOMAIN es : es[k].type \in {"mission_cancelled", "task_cancelled"}
      /\ \E k \in DOMAIN es : es[k].type = "task_cancelled"
  <2> DEFINE e == Entry("mission_cancelled", Absent)
  <2>1. "mission_cancelled" \in EventTypes /\ "task_cancelled" \in EventTypes /\ Absent \in Tools \cup {Absent}
    BY DEF EventTypes
  <2>2. /\ e \in TraceEvents /\ e.type = "mission_cancelled"
        /\ last \in TraceEvents /\ last.type = "task_cancelled"
    BY <2>1, EventsAreTyped
  <2>3. es = <<e>> \o <<last>> \/ es = <<>> \o <<last>>
    OBVIOUS
  <2> HIDE DEF e, last, es
  <2>4. es = <<e, last>> \/ es = <<last>>
    BY <2>2, <2>3
  <2>5. CASE es = <<e, last>>
    <3>1. es \in Seq(TraceEvents) /\ DOMAIN es = {1, 2} /\ es[1] = e /\ es[2] = last
      BY <2>2, <2>5
    <3> QED BY <2>2, <3>1
  <2>6. CASE es = <<last>>
    <3>1. es \in Seq(TraceEvents) /\ DOMAIN es = {1} /\ es[1] = last
      BY <2>2, <2>6
    <3> QED BY <2>2, <3>1
  <2> QED BY <2>4, <2>5, <2>6
<1> HIDE DEF es
<1>2. \A k \in DOMAIN es : es[k].type \notin {"permission_required", "tool_started", "verification_completed"}
  BY <1>1
<1>3. TraceTypes'
  BY <1>0, <1>1, <1>2, TypesAfter
<1>4. Prompts' = Prompts /\ \A i \in Prompts : happened'[i] = happened[i] /\ i \in DOMAIN happened
  <2>1. /\ \A i \in Prompts : i \in Prompts' /\ happened'[i] = happened[i]
        /\ \A i \in Prompts' : i \in Prompts
    BY <1>0, <1>1, <1>2, Later
  <2> QED BY <2>1 DEF Prompts
<1>5. (\A t : Begun(t)' <=> Begun(t)) /\ Cancelled' /\ \A i \in Prompts : FirstPrompt(i)' <=> FirstPrompt(i)
  <2>1. \A t : Begun(t)' <=> Begun(t)
    BY <1>0, <1>1, <1>2, Later
  <2>2. Cancelled'
    BY <1>0, <1>1, Recorded DEF Cancelled, Occurs
  <2>3. \A i \in Prompts : FirstPrompt(i)' <=> FirstPrompt(i)
    BY <1>0, <1>1, <1>4, Later
  <2> QED BY <2>1, <2>2, <2>3
<1>6. /\ \A i \in DOMAIN happened : happened'[i] = happened[i] /\ i \in DOMAIN happened'
      /\ \A i \in DOMAIN happened' : i \in DOMAIN happened \/ \E k \in DOMAIN es : happened'[i] = es[k]
  BY <1>0, <1>1, Recorded
\* A prompt that waits is answered by the cancellation; there is no other.
<1>7. /\ (\A i \in Prompts : i \in DOMAIN decided') /\ DOMAIN decided' \subseteq Prompts
      /\ \A i \in DOMAIN decided' : decided'[i] = "cancelled" \/ (i \in DOMAIN decided /\ decided'[i] = decided[i])
      /\ \A i \in DOMAIN decided : i \in DOMAIN decided' /\ decided'[i] = decided[i]
  <2>1. CASE doing = "asking"
    <3>1. DecidedAs("cancelled")
      BY <2>1 DEF CancelRun
    <3>2. /\ DOMAIN decided' = DOMAIN decided \cup {n} /\ n \in Prompts /\ decided'[n] = "cancelled"
          /\ \A i \in DOMAIN decided : decided'[i] = decided[i]
          /\ \A i \in Prompts : i \in DOMAIN decided'
      BY <2>1, <3>1, AnswerIs
    <3> QED BY <3>2 DEF EveryPromptAnswered
  <2>2. CASE doing # "asking"
    <3>1. decided' = decided
      BY <2>2 DEF CancelRun
    <3> QED BY <2>2, <3>1 DEF EveryPromptAnswered
  <2> QED BY <2>1, <2>2
<1>8. EveryPromptAnswered'
  <2>1. \A i \in DOMAIN decided' : decided'[i] \in {"approved", "refused", "cancelled"}
    BY <1>7 DEF EveryPromptAnswered
  <2> QED BY <1>0, <1>4, <1>7, <2>1 DEF EveryPromptAnswered
<1>9. AskedForCause'
  BY <1>0, <1>4 DEF AskedForCause
<1>10. StartsArePermitted'
  <2>1. \A k \in DOMAIN happened' : happened'[k].type = "tool_started" => k \in DOMAIN happened
    BY <1>2, <1>6
  <2>2. \A i \in DOMAIN decided : i \in DOMAIN decided' /\ decided'[i] = decided[i] /\ happened'[i] = happened[i]
    BY <1>4, <1>7 DEF EveryPromptAnswered
  <2> QED BY <1>0, <1>6, <2>1, <2>2 DEF StartsArePermitted
<1>11. ApprovalsAreUsed'
  BY <1>0, <1>5 DEF ApprovalsAreUsed
<1>12. RefusalsHold'
  <2>1. \A i \in DOMAIN decided' : decided'[i] = "refused" => i \in DOMAIN decided /\ decided[i] = "refused"
    BY <1>7
  <2>2. \A i \in DOMAIN decided : i \in Prompts /\ happened'[i] = happened[i]
    BY <1>4, <1>7
  <2> QED BY <1>0, <1>5, <2>1, <2>2 DEF RefusalsHold
<1>13. CancelEndsRecord'
  BY <1>0, <1>5 DEF CancelEndsRecord
<1>14. VerdictsFollowStarts'
  <2>1. Occurs("tool_started") => Occurs("tool_started")'
    BY <1>0, <1>1, Later
  <2>2. ASSUME NEW i \in DOMAIN happened', happened'[i].type = "verification_completed"
        PROVE  Occurs("tool_started")
    BY <1>2, <1>6, <2>2 DEF VerdictsFollowStarts
  <2> QED BY <1>0, <2>1, <2>2 DEF VerdictsFollowStarts
<1> QED BY <1>3, <1>8, <1>9, <1>10, <1>11, <1>12, <1>13, <1>14

-----------------------------------------------------------------------------
(* The steps that ask for nothing, start nothing and cancel nothing.       *)

LEMMA SideBySide ==
    ASSUME NEW e, NEW f
    PROVE  <<e>> \o <<f>> = <<e, f>> /\ <<e>> \o <<>> = <<e>> /\ <<>> \o <<f>> = <<f>> /\ <<>> \o <<>> = <<>>
<1> DEFINE S == {e, f}
           s == <<e>>
           t == <<f>>
           u == <<e, f>>
<1>1. /\ <<>> \in Seq(S) /\ s \in Seq(S) /\ Len(s) = 1 /\ s[1] = e /\ t \in Seq(S) /\ Len(t) = 1 /\ t[1] = f
      /\ u \in Seq(S) /\ Len(u) = 2 /\ u[1] = e /\ u[2] = f
  OBVIOUS
<1> HIDE DEF S, s, t, u
<1>2. Len(s \o t) = 2 /\ s \o t \in Seq(S) /\ (s \o t)[1] = e /\ (s \o t)[2] = f
  <2>1. Len(s \o t) = 2 /\ s \o t \in Seq(S)
    BY <1>1, ConcatProperties
  <2>2. \A i \in 1..2 : (s \o t)[i] = IF i <= 1 THEN s[i] ELSE t[i - 1]
    BY <1>1, ConcatProperties, SMTT(30)
  <2>3. (s \o t)[1] = s[1] /\ (s \o t)[2] = t[1]
    <3>1. 1 \in 1..2 /\ 2 \in 1..2 /\ 1 <= 1 /\ ~(2 <= 1) /\ 2 - 1 = 1
      OBVIOUS
    <3>2. /\ (s \o t)[1] = IF 1 <= 1 THEN s[1] ELSE t[1 - 1]
          /\ (s \o t)[2] = IF 2 <= 1 THEN s[2] ELSE t[2 - 1]
      BY <2>2, <3>1
    <3> QED BY <3>1, <3>2
  <2> QED BY <1>1, <2>1, <2>3
<1>3. \A i \in 1..Len(s \o t) : (s \o t)[i] = u[i]
  <2>1. 1..Len(s \o t) = {1, 2}
    BY <1>2
  <2> QED BY <1>1, <1>2, <2>1
<1>4. s \o t = u
  BY <1>1, <1>2, <1>3, SeqEqual
<1>5. s \o <<>> = s /\ <<>> \o t = t /\ <<>> \o <<>> = <<>>
  BY <1>1, ConcatEmptySeq
<1> QED BY <1>4, <1>5 DEF s, t, u

LEMMA QuietSequences ==
    ASSUME NEW e \in TraceEvents, NEW f \in TraceEvents,
           e.type \notin {"permission_required", "tool_started", "task_cancelled"},
           f.type \notin {"permission_required", "tool_started", "task_cancelled"},
           e.type = "verification_completed" => e.found \in Verdicts /\ Occurs("tool_started"),
           f.type = "verification_completed" => f.found \in Verdicts /\ Occurs("tool_started")
    PROVE  /\ <<>> \in Seq(TraceEvents) /\ <<e>> \in Seq(TraceEvents) /\ <<e, f>> \in Seq(TraceEvents)
           /\ QuietEvents(<<>>) /\ QuietEvents(<<e>>) /\ QuietEvents(<<e, f>>)
           /\ <<e>> \o <<f>> = <<e, f>> /\ <<e>> \o <<>> = <<e>> /\ <<>> \o <<f>> = <<f>> /\ <<>> \o <<>> = <<>>
<1>1. /\ DOMAIN <<>> = {} /\ DOMAIN <<e>> = {1} /\ <<e>>[1] = e
      /\ DOMAIN <<e, f>> = {1, 2} /\ <<e, f>>[1] = e /\ <<e, f>>[2] = f
  OBVIOUS
<1>2. <<>> \in Seq(TraceEvents) /\ <<e>> \in Seq(TraceEvents) /\ <<e, f>> \in Seq(TraceEvents)
  OBVIOUS
<1>3. <<e>> \o <<f>> = <<e, f>> /\ <<e>> \o <<>> = <<e>> /\ <<>> \o <<f>> = <<f>> /\ <<>> \o <<>> = <<>>
  BY SideBySide
<1>4. QuietEvents(<<>>) /\ QuietEvents(<<e>>) /\ QuietEvents(<<e, f>>)
  BY <1>1 DEF QuietEvents
<1> QED BY <1>2, <1>3, <1>4

LEMMA AgentAsksStep ==
    ASSUME TraceInv, NEW calls \in UNION {[1..n -> Tools] : n \in 1..MaxCalls}, AgentAsks(calls)
    PROVE  TraceInv'
<1> DEFINE es == [i \in DOMAIN calls |-> Entry("tool_requested", calls[i])]
<1>1. PICK n \in Nat : calls \in [1..n -> Tools]
  BY TraceAssumption
<1>2. "tool_requested" \in EventTypes
  BY DEF EventTypes
<1>3. \A i \in 1..n : es[i] \in TraceEvents /\ es[i].type = "tool_requested"
  BY <1>1, <1>2, EventsAreTyped
<1>4. es \in [1..n -> TraceEvents]
  BY <1>1, <1>3
<1> HIDE DEF es
<1>5. es \in Seq(TraceEvents) /\ QuietEvents(es)
  <2>1. \A i \in DOMAIN es : es[i].type = "tool_requested"
    BY <1>3, <1>4
  <2> QED BY <1>4, <2>1 DEF QuietEvents
<1>6. calls \in Seq(Tools)
  BY <1>1
<1> QED BY <1>5, <1>6, QuietStep DEF AgentAsks, es

LEMMA RefuseStep ==
    ASSUME TraceInv, Refuse
    PROVE  TraceInv'
<1> DEFINE e == Completed(Head(toCall), FALSE)
<1>1. toCall \in Seq(Tools) /\ toCall # <<>>
  BY DEF Refuse, TraceInv, TraceTypes
<1>2. Head(toCall) \in Tools /\ Tail(toCall) \in Seq(Tools) /\ FALSE \in BOOLEAN
  BY <1>1
<1>3. e \in TraceEvents /\ e.type = "tool_completed"
  BY <1>2, EventsAreTyped
<1>4. <<e>> \in Seq(TraceEvents) /\ QuietEvents(<<e>>)
  <2> HIDE DEF e
  <2> QED BY <1>3, QuietSequences
<1> QED BY <1>2, <1>4, QuietStep DEF Refuse

LEMMA ToolReturnsStep ==
    ASSUME TraceInv, NEW ok \in BOOLEAN, NEW verify \in BOOLEAN, ToolReturns(ok, verify)
    PROVE  TraceInv'
<1> DEFINE e == Completed(Head(toCall), ok)
           f == Entry("verification_started", Head(toCall))
           es == <<e>> \o IF verify THEN <<f>> ELSE <<>>
<1>1. toCall \in Seq(Tools) /\ toCall # <<>> /\ doing = "running" /\ Begun(Head(toCall)) /\ Record(es)
  BY DEF ToolReturns, TraceInv, TraceTypes, VerdictsFollowStarts
<1>2. Head(toCall) \in Tools /\ Tail(toCall) \in Seq(Tools)
  BY <1>1
<1>3. e \in TraceEvents /\ e.type = "tool_completed"
  BY <1>2, EventsAreTyped
<1>4. f \in TraceEvents /\ f.type = "verification_started"
  <2>1. "verification_started" \in EventTypes
    BY DEF EventTypes
  <2> QED BY <1>2, <2>1, EventsAreTyped
<1>5. es = <<e>> \o <<f>> \/ es = <<e>> \o <<>>
  OBVIOUS
<1> HIDE DEF e, f, es
<1>6. es \in Seq(TraceEvents) /\ QuietEvents(es)
  <2>1. <<e, f>> \in Seq(TraceEvents) /\ QuietEvents(<<e, f>>) /\ <<e>> \o <<f>> = <<e, f>>
    BY <1>3, <1>4, QuietSequences
  <2>2. <<e>> \in Seq(TraceEvents) /\ QuietEvents(<<e>>) /\ <<e>> \o <<>> = <<e>>
    BY <1>3, QuietSequences
  <2> QED BY <1>5, <2>1, <2>2
<1>7. UNCHANGED <<decided, mission, beforehand, refusals>>
  BY DEF ToolReturns
<1>8. CASE verify
  <2>1. doing' = "verifying" /\ toCall' = toCall
    BY <1>8 DEF ToolReturns
  <2> QED BY <1>1, <1>6, <1>7, <2>1, QuietStep
<1>9. CASE ~verify
  <2>1. doing' = "tools" /\ toCall' = Tail(toCall)
    BY <1>9 DEF ToolReturns
  <2> QED BY <1>1, <1>2, <1>6, <1>7, <2>1, QuietStep
<1> QED BY <1>8, <1>9

LEMMA VerifiedStep ==
    ASSUME TraceInv, NEW found \in Verdicts \cup {Absent}, Verified(found)
    PROVE  TraceInv'
<1> DEFINE e == VerifiedAs(Head(toCall), found)
           es == IF found = Absent THEN <<>> ELSE <<e>>
<1>1. toCall \in Seq(Tools) /\ toCall # <<>> /\ doing = "verifying" /\ Begun(Head(toCall)) /\ Record(es)
  BY DEF Verified, TraceInv, TraceTypes, VerdictsFollowStarts
<1>2. Head(toCall) \in Tools /\ Tail(toCall) \in Seq(Tools) /\ Occurs("tool_started")
  <2>1. Head(toCall) \in Tools /\ Tail(toCall) \in Seq(Tools)
    BY <1>1
  <2> QED BY <1>1, <2>1 DEF Begun, Occurs
<1>3. es \in Seq(TraceEvents) /\ QuietEvents(es)
  <2>1. CASE found = Absent
    <3>1. es = <<>> /\ DOMAIN es = {}
      BY <2>1
    <3> QED BY <3>1 DEF QuietEvents
  <2>2. CASE found # Absent
    <3>1. found \in Verdicts /\ es = <<e>>
      BY <2>2
    <3>2. e \in TraceEvents /\ e.type = "verification_completed" /\ e.found = found
      BY <1>2, <3>1, EventsAreTyped
    <3> HIDE DEF e, es
    <3> QED BY <1>2, <3>1, <3>2, QuietSequences
  <2> QED BY <2>1, <2>2
<1>4. UNCHANGED <<decided, mission, beforehand, refusals>> /\ doing' = "tools" /\ toCall' = Tail(toCall)
  BY DEF Verified
<1> HIDE DEF es
<1> QED BY <1>1, <1>2, <1>3, <1>4, QuietStep

LEMMA RoundEndsStep ==
    ASSUME TraceInv, RoundEnds
    PROVE  TraceInv'
<1>1. happened \in Seq(TraceEvents) /\ toCall \in Seq(Tools)
  BY DEF TraceInv, TraceTypes
<1>2. Record(<<>>)
  BY <1>1 DEF RoundEnds, Record
<1>3. <<>> \in Seq(TraceEvents) /\ QuietEvents(<<>>)
  <2>1. DOMAIN <<>> = {}
    OBVIOUS
  <2> QED BY <2>1 DEF QuietEvents
<1> QED BY <1>1, <1>2, <1>3, QuietStep DEF RoundEnds

LEMMA MissionStepEndsStep ==
    ASSUME TraceInv, NEW how \in StepEndings, MissionStepEnds(how)
    PROVE  TraceInv'
<1> DEFINE e == Entry(how, Absent)
<1>1. /\ how \in EventTypes
      /\ how \notin {"permission_required", "tool_started", "task_cancelled", "verification_completed"}
  BY DEF EventTypes, StepEndings
<1>2. e \in TraceEvents /\ e.type = how
  BY <1>1, EventsAreTyped
<1>3. <<e>> \in Seq(TraceEvents) /\ QuietEvents(<<e>>)
  <2> HIDE DEF e
  <2> QED BY <1>1, <1>2, QuietSequences
<1>4. toCall \in Seq(Tools)
  BY DEF TraceInv, TraceTypes
<1>5. Record(<<e>>) /\ UNCHANGED <<decided, mission, beforehand, toCall, doing>> /\ mission /\ doing = "agent"
  BY DEF MissionStepEnds
<1> HIDE DEF e
<1> QED BY <1>3, <1>4, <1>5, QuietStep

LEMMA RunEndsStep ==
    ASSUME TraceInv, NEW ok \in BOOLEAN, RunEnds(ok)
    PROVE  TraceInv'
<1> DEFINE how == IF ok THEN "mission_completed" ELSE "mission_failed"
           e == Entry(how, Absent)
           f == Entry("task_error", Absent)
           es == (IF mission THEN <<e>> ELSE <<>>) \o IF ok THEN <<>> ELSE <<f>>
<1>1. how \in {"mission_completed", "mission_failed"} /\ how \in EventTypes /\ "task_error" \in EventTypes
  BY DEF EventTypes
<1>2. e \in TraceEvents /\ e.type = how /\ f \in TraceEvents /\ f.type = "task_error"
  BY <1>1, EventsAreTyped
<1>3. es \in {<<e>> \o <<f>>, <<e>> \o <<>>, <<>> \o <<f>>, <<>> \o <<>>}
  OBVIOUS
<1>4. /\ Record(es) /\ UNCHANGED <<decided, mission, beforehand, refusals, toCall>>
      /\ doing = "agent" /\ doing' = "ended" /\ toCall \in Seq(Tools)
  BY DEF RunEnds, TraceInv, TraceTypes
<1> HIDE DEF how, e, f, es
<1>5. es \in Seq(TraceEvents) /\ QuietEvents(es)
  <2>1. /\ e.type \notin {"permission_required", "tool_started", "task_cancelled", "verification_completed"}
        /\ f.type \notin {"permission_required", "tool_started", "task_cancelled", "verification_completed"}
    BY <1>1, <1>2
  <2>2. es \in {<<>>, <<e>>, <<f>>, <<e, f>>}
    BY <1>2, <1>3, <2>1, QuietSequences
  <2>3. /\ <<>> \in Seq(TraceEvents) /\ <<e>> \in Seq(TraceEvents) /\ <<e, f>> \in Seq(TraceEvents)
        /\ QuietEvents(<<>>) /\ QuietEvents(<<e>>) /\ QuietEvents(<<e, f>>)
    BY <1>2, <2>1, QuietSequences
  <2>4. <<f>> \in Seq(TraceEvents) /\ QuietEvents(<<f>>)
    BY <1>2, <2>1, QuietSequences
  <2> QED BY <2>2, <2>3, <2>4
<1> QED BY <1>4, <1>5, QuietStep

\* The invariant behind the trace, on every run.
THEOREM TraceInvHolds == TraceSpec => []TraceInv
<1>1. TraceInit => TraceInv
  <2> SUFFICES ASSUME TraceInit PROVE TraceInv
    OBVIOUS
  <2>1. happened = <<>> /\ toCall = <<>> /\ decided = <<>> /\ doing = "agent"
    BY DEF TraceInit, NothingHappened
  <2>2. DOMAIN happened = {} /\ DOMAIN decided = {} /\ happened \in Seq(TraceEvents) /\ toCall \in Seq(Tools)
    BY <2>1
  <2> QED BY <2>1, <2>2 DEF TraceInv, TraceTypes, EveryPromptAnswered, AskedForCause, StartsArePermitted,
        ApprovalsAreUsed, RefusalsHold, CancelEndsRecord, VerdictsFollowStarts, Cancelled, Occurs, Prompts
<1>2. TraceInv /\ [TraceNext]_traceVars => TraceInv'
  <2> SUFFICES ASSUME TraceInv, [TraceNext]_traceVars PROVE TraceInv'
    OBVIOUS
  <2>1. ASSUME NEW calls \in UNION {[1..n -> Tools] : n \in 1..MaxCalls}, AgentAsks(calls) PROVE TraceInv'
    BY <2>1, AgentAsksStep
  <2>2. CASE Refuse
    BY <2>2, RefuseStep
  <2>3. CASE AskUser
    BY <2>3, AskUserStep
  <2>4. CASE Approve
    BY <2>4, ApproveStep
  <2>5. CASE Decline
    BY <2>5, DeclineStep
  <2>6. CASE StartTool
    BY <2>6, StartToolStep
  <2>7. ASSUME NEW ok \in BOOLEAN, NEW verify \in BOOLEAN, ToolReturns(ok, verify) PROVE TraceInv'
    BY <2>7, ToolReturnsStep
  <2>8. ASSUME NEW found \in {"SUCCESS", "PARTIAL_SUCCESS", "FAILED", "UNKNOWN", Absent}, Verified(found)
        PROVE  TraceInv'
    BY <2>8, VerifiedStep DEF Verdicts
  <2>9. CASE RoundEnds
    BY <2>9, RoundEndsStep
  <2>10. CASE CancelRun
    BY <2>10, CancelRunStep
  <2>11. ASSUME NEW how \in {"mission_step_completed", "mission_step_failed", "mission_step_skipped"},
                MissionStepEnds(how)
         PROVE  TraceInv'
    BY <2>11, MissionStepEndsStep DEF StepEndings
  <2>12. ASSUME NEW ok \in BOOLEAN, RunEnds(ok) PROVE TraceInv'
    BY <2>12, RunEndsStep
  <2>13. CASE UNCHANGED traceVars
    BY <2>13 DEF traceVars, TraceInv, TraceTypes, EveryPromptAnswered, AskedForCause, StartsArePermitted,
          ApprovalsAreUsed, RefusalsHold, CancelEndsRecord, VerdictsFollowStarts, Cancelled, Occurs, Prompts,
          Begun, FirstPrompt, MayRun
  <2> QED BY <2>1, <2>2, <2>3, <2>4, <2>5, <2>6, <2>7, <2>8, <2>9, <2>10, <2>11, <2>12, <2>13 DEF TraceNext
<1> QED BY <1>1, <1>2, PTL DEF TraceSpec

-----------------------------------------------------------------------------
(* The projection: its sentence and its lines.                             *)

\* What the outcome is read off is something that ran.
LEMMA OutcomeIs ==
    ASSUME TraceInv
    PROVE  /\ Outcome \in Verdicts \cup {Absent}
           /\ Outcome # Absent => Occurs("tool_started")
<1> DEFINE checks == {i \in DOMAIN happened : happened[i].type = "verification_completed"}
<1>1. Outcome = IF checks = {} THEN Absent ELSE happened[Max(checks)].found
  BY DEF Outcome
<1>2. ASSUME checks # {} PROVE happened[Max(checks)].found \in Verdicts /\ Occurs("tool_started")
  <2>1. Len(happened) \in Nat /\ checks \in SUBSET (1..Len(happened))
    BY DEF TraceInv, TraceTypes
  <2>2. Max(checks) \in checks
    <3> HIDE DEF checks
    <3> QED BY <1>2, <2>1, GreatestOf
  <2> QED BY <2>2 DEF TraceInv, TraceTypes, VerdictsFollowStarts
<1> HIDE DEF checks
<1> QED BY <1>1, <1>2

LEMMA ApprovalsTold ==
    ASSUME TraceInv, doing = "ended"
    PROVE  ApprovalsAreTrue
<1> USE DEF TraceInv
<1> SUFFICES ASSUME NEW i \in Prompts
             PROVE  /\ PermissionOutcome(happened[i].tool) = "ok" => "approved" \in AnswersOn(happened[i].tool)
                    /\ PermissionOutcome(happened[i].tool) = "denied" => AnswersOn(happened[i].tool) = {"refused"}
                    /\ PermissionOutcome(happened[i].tool) = "skipped" => Cancelled
                    /\ (FirstPrompt(i) /\ ~mission /\ ~Cancelled) =>
                        (PermissionOutcome(happened[i].tool) = "ok") = (decided[i] = "approved")
  BY DEF ApprovalsAreTrue
<1> DEFINE tool == happened[i].tool
<1>1. /\ i \in DOMAIN decided /\ decided[i] \in {"approved", "refused", "cancelled"}
      /\ ~MayRun(tool)
  BY DEF EveryPromptAnswered, AskedForCause
<1>2. /\ PermissionOutcome(tool) = "ok" <=> Begun(tool)
      /\ PermissionOutcome(tool) = "denied" <=> (~Begun(tool) /\ ~Cancelled)
      /\ PermissionOutcome(tool) = "skipped" => Cancelled
  BY DEF PermissionOutcome, Cancelled
<1>3. \A j \in DOMAIN decided : decided[j] = "approved" => Begun(happened[j].tool) \/ Cancelled
  BY DEF ApprovalsAreUsed
<1>4. \A j \in DOMAIN decided : decided[j] = "cancelled" => Cancelled
  BY DEF CancelEndsRecord
<1>5. ASSUME Begun(tool) PROVE "approved" \in AnswersOn(tool)
  BY <1>1, <1>5, StartedAfterPrompt DEF AnswersOn
<1>6. ASSUME ~Begun(tool), ~Cancelled PROVE AnswersOn(tool) = {"refused"}
  <2>1. \A j \in DOMAIN decided : happened[j].tool = tool => decided[j] = "refused"
    BY <1>3, <1>4, <1>6 DEF EveryPromptAnswered
  <2> HIDE DEF tool
  <2>2. happened[i].tool = tool
    BY DEF tool
  <2> QED BY <1>1, <2>1, <2>2 DEF AnswersOn
<1>7. ASSUME FirstPrompt(i), ~mission, ~Cancelled PROVE Begun(tool) <=> decided[i] = "approved"
  <2>1. decided[i] = "refused" => ~Begun(tool)
    BY <1>1, <1>7 DEF RefusalsHold
  <2> QED BY <1>1, <1>3, <1>4, <1>7, <2>1
<1>8. ((PermissionOutcome(tool) = "ok") <=> (decided[i] = "approved"))
        => (PermissionOutcome(tool) = "ok") = (decided[i] = "approved")
  OBVIOUS
<1> HIDE DEF tool
<1>9. happened[i].tool = tool
  BY DEF tool
<1> QED BY <1>2, <1>5, <1>6, <1>7, <1>8, <1>9

LEMMA SummaryTold ==
    ASSUME TraceInv, doing = "ended"
    PROVE  SummaryIsTrue
<1> USE DEF TraceInv
<1>1. \A i \in Prompts : i \in DOMAIN decided /\ ~MayRun(happened[i].tool)
  BY DEF EveryPromptAnswered, AskedForCause
<1>2. \A tool : PermissionOutcome(tool) = IF Begun(tool) THEN "ok" ELSE IF Cancelled THEN "skipped" ELSE "denied"
  BY DEF PermissionOutcome, Cancelled
<1>3. Marked("ok") # {} => Agreed
  <2>1. ASSUME NEW i \in Marked("ok") PROVE Agreed
    <3>1. i \in Prompts /\ Begun(happened[i].tool)
      BY <1>2, <2>1 DEF Marked
    <3> QED BY <1>1, <3>1, StartedAfterPrompt DEF Agreed
  <2> QED BY <2>1
<1>4. Agreed /\ ~Cancelled => Marked("ok") # {} /\ Occurs("tool_started")
  <2>1. ASSUME Agreed, ~Cancelled PROVE Marked("ok") # {} /\ Occurs("tool_started")
    <3>1. PICK i \in DOMAIN decided : decided[i] = "approved"
      BY <2>1 DEF Agreed
    <3>2. i \in Prompts /\ Begun(happened[i].tool)
      BY <2>1, <3>1 DEF ApprovalsAreUsed, EveryPromptAnswered
    <3>3. i \in Marked("ok")
      BY <1>2, <3>2 DEF Marked
    <3> QED BY <3>2, <3>3 DEF Begun, Occurs
  <2> QED BY <2>1
<1>5. Marked("denied") # {} /\ ~Occurs("tool_started") => ~Agreed /\ \E i \in DOMAIN decided : decided[i] = "refused"
  <2>1. ASSUME NEW i \in Marked("denied"), ~Occurs("tool_started")
        PROVE  ~Agreed /\ \E j \in DOMAIN decided : decided[j] = "refused"
    <3>1. i \in Prompts /\ ~Cancelled
      BY <1>2, <2>1 DEF Marked
    <3>2. ~Agreed
      BY <1>4, <2>1, <3>1
    <3>3. decided[i] = "refused"
      BY <1>1, <3>1, <3>2 DEF EveryPromptAnswered, CancelEndsRecord, Agreed
    <3> QED BY <1>1, <3>1, <3>2, <3>3
  <2> QED BY <2>1
<1>6. Marked("denied") = {} /\ ~Cancelled /\ ~Occurs("tool_started") => DOMAIN decided = {}
  <2>1. ASSUME ~Cancelled, ~Occurs("tool_started"), NEW i \in DOMAIN decided PROVE i \in Marked("denied")
    <3>1. i \in Prompts /\ ~Begun(happened[i].tool)
      BY <2>1 DEF EveryPromptAnswered, Begun, Occurs
    <3> QED BY <1>2, <2>1, <3>1 DEF Marked
  <2> QED BY <2>1
<1> DEFINE supplied == SelectSeq(ContextItems, LAMBDA item : Provided(item))
           did == IF Occurs("tool_started")
                  THEN IF Marked("ok") # {} THEN {"ran after you approved it"} ELSE {"ran"}
                  ELSE IF Marked("denied") # {} THEN {"stopped because you declined"} ELSE {}
           rest == (IF supplied = <<>> THEN {} ELSE {"gathered"}) \cup (IF Outcome = Absent THEN {} ELSE {Outcome})
<1>7. Summary = IF Cancelled THEN {"cancelled"}
                ELSE IF did = {} /\ supplied = <<>> THEN {"answered without any tools"}
                ELSE did \cup rest
  BY DEF Summary, Cancelled
<1>8. rest \subseteq {"gathered", "SUCCESS", "PARTIAL_SUCCESS", "FAILED", "UNKNOWN"}
  BY OutcomeIs DEF Verdicts
<1> HIDE DEF supplied, rest
<1>9. "ran after you approved it" \in Summary => Marked("ok") # {}
  BY <1>7, <1>8
<1>10. Marked("ok") # {} /\ ~Cancelled /\ Occurs("tool_started") => "ran after you approved it" \in Summary
  BY <1>7
<1>11. "stopped because you declined" \in Summary => Marked("denied") # {} /\ ~Occurs("tool_started")
  BY <1>7, <1>8
<1>12. "answered without any tools" \in Summary =>
         Marked("denied") = {} /\ ~Cancelled /\ ~Occurs("tool_started")
  BY <1>7, <1>8
<1> HIDE DEF did
<1> QED BY <1>3, <1>4, <1>5, <1>6, <1>9, <1>10, <1>11, <1>12, OutcomeIs DEF SummaryIsTrue

\* Sequences one after the other: one turn of it, given what it makes of fewer.
FlatTurn(seqs, f, i) == IF i = 1 THEN seqs[i] ELSE f[i - 1] \o seqs[i]

\* Laying sequences one after the other has a value for the first n of them.
LEMMA FlatHasValue ==
    ASSUME NEW seqs, NEW n \in Nat
    PROVE  \E f : f = [i \in 1..n |-> FlatTurn(seqs, f, i)]
<1> DEFINE P == {k \in 0..n : \E f : f = [i \in 1..k |-> FlatTurn(seqs, f, i)]}
<1>1. 0 \in P
  <2> DEFINE f == [i \in 1..0 |-> FlatTurn(seqs, seqs, i)]
  <2>1. \A i \in 1..0 : FlatTurn(seqs, f, i) = FlatTurn(seqs, seqs, i)
    OBVIOUS
  <2>2. f = [i \in 1..0 |-> FlatTurn(seqs, f, i)]
    BY <2>1
  <2> HIDE DEF f, P
  <2>3. \E g : g = [i \in 1..0 |-> FlatTurn(seqs, g, i)]
    BY <2>2
  <2>4. 0 \in 0..n
    OBVIOUS
  <2> QED BY <2>3, <2>4, Zenon DEF P
<1>2. ASSUME NEW m \in 1..n, m - 1 \in P PROVE m \in P
  <2>1. PICK g : g = [i \in 1..(m - 1) |-> FlatTurn(seqs, g, i)]
    BY <1>2
  <2> DEFINE f == [i \in 1..m |-> FlatTurn(seqs, g, i)]
  <2>2. ASSUME NEW i \in 1..(m - 1) PROVE f[i] = g[i]
    <3>1. i \in 1..m
      OBVIOUS
    <3>2. g[i] = FlatTurn(seqs, g, i)
      BY <2>1
    <3> QED BY <3>1, <3>2
  <2> HIDE DEF f
  <2>3. ASSUME NEW i \in 1..m PROVE FlatTurn(seqs, f, i) = FlatTurn(seqs, g, i)
    <3>1. i # 1 => i - 1 \in 1..(m - 1)
      OBVIOUS
    <3> QED BY <2>2, <3>1 DEF FlatTurn
  <2>4. f = [i \in 1..m |-> FlatTurn(seqs, f, i)]
    <3>1. f = [i \in 1..m |-> FlatTurn(seqs, g, i)]
      BY DEF f
    <3> QED BY <2>3, <3>1
  <2> QED BY <2>4
<1> HIDE DEF P
<1>3. \A k \in 0..n : k \in P
  BY <1>1, <1>2, UpTo
<1>4. n \in P
  BY <1>3
<1> QED BY <1>4 DEF P

\* Every element of the first k sequences has a place among what is laid out.
Laid(seqs, flat, k) == \A j \in 1..k : \A r \in DOMAIN seqs[j] : \E q \in DOMAIN flat : flat[q] = seqs[j][r]

\* What is at place q comes from the j-th sequence, behind all those before it.
ComesFrom(seqs, flat, j, q) ==
    /\ \E r \in DOMAIN seqs[j] : flat[q] = seqs[j][r]
    /\ \A i \in 1..(j - 1) : \A r \in DOMAIN seqs[i] : \E p \in DOMAIN flat : p < q /\ flat[p] = seqs[i][r]

\* So does each place, from one of the first k.
Stems(seqs, flat, k) == \A q \in DOMAIN flat : \E j \in 1..k : ComesFrom(seqs, flat, j, q)

\* Laying out one more keeps it so.
LEMMA OneMoreLaid ==
    ASSUME NEW S, NEW seqs, NEW flat \in Seq(S), NEW k \in Nat, seqs[k + 1] \in Seq(S),
           Laid(seqs, flat, k), Stems(seqs, flat, k)
    PROVE  LET more == flat \o seqs[k + 1] IN
           more \in Seq(S) /\ Laid(seqs, more, k + 1) /\ Stems(seqs, more, k + 1)
<1> DEFINE last == seqs[k + 1]
           more == flat \o last
           n == Len(flat)
           m == Len(last)
<1>1. /\ more \in Seq(S) /\ n \in Nat /\ m \in Nat /\ DOMAIN flat = 1..n /\ DOMAIN last = 1..m
      /\ DOMAIN more = 1..(n + m)
      /\ \A q \in 1..n : more[q] = flat[q]
      /\ \A r \in 1..m : more[n + r] = last[r]
  OBVIOUS
<1>2. \A q \in 1..n : q \in 1..(n + m)
  BY <1>1
<1>3. \A r \in 1..m : n + r \in 1..(n + m)
  BY <1>1
<1> HIDE DEF n, m, more
<1>4. \A j \in 1..(k + 1) : j \in 1..k \/ j = k + 1
  OBVIOUS
<1>5. Laid(seqs, more, k + 1)
  <2>1. ASSUME NEW j \in 1..k, NEW r \in DOMAIN seqs[j] PROVE \E q \in DOMAIN more : more[q] = seqs[j][r]
    <3>1. PICK q \in 1..n : flat[q] = seqs[j][r]
      BY <1>1 DEF Laid
    <3> QED BY <1>1, <1>2, <3>1
  <2>2. ASSUME NEW r \in DOMAIN last PROVE \E q \in DOMAIN more : more[q] = last[r]
    BY <1>1, <1>3
  <2> QED BY <1>4, <2>1, <2>2 DEF Laid
<1>6. Stems(seqs, more, k + 1)
  <2>1. ASSUME NEW q \in 1..n PROVE \E j \in 1..(k + 1) : ComesFrom(seqs, more, j, q)
    <3>1. PICK j \in 1..k : ComesFrom(seqs, flat, j, q)
      BY <1>1 DEF Stems
    <3>2. j \in 1..(k + 1)
      OBVIOUS
    <3>3. \E r \in DOMAIN seqs[j] : more[q] = seqs[j][r]
      BY <1>1, <3>1 DEF ComesFrom
    <3>4. ASSUME NEW i \in 1..(j - 1), NEW r \in DOMAIN seqs[i]
          PROVE  \E p \in DOMAIN more : p < q /\ more[p] = seqs[i][r]
      <4>1. PICK p \in 1..n : p < q /\ flat[p] = seqs[i][r]
        BY <1>1, <3>1 DEF ComesFrom
      <4> QED BY <1>1, <1>2, <4>1
    <3>5. ComesFrom(seqs, more, j, q)
      BY <3>3, <3>4 DEF ComesFrom
    <3> QED BY <3>2, <3>5
  <2>2. ASSUME NEW s \in 1..m PROVE ComesFrom(seqs, more, k + 1, n + s)
    <3>1. (k + 1) - 1 = k
      OBVIOUS
    <3>2. \E r \in DOMAIN seqs[k + 1] : more[n + s] = seqs[k + 1][r]
      BY <1>1
    <3>3. ASSUME NEW i \in 1..k, NEW r \in DOMAIN seqs[i]
          PROVE  \E p \in DOMAIN more : p < n + s /\ more[p] = seqs[i][r]
      <4>1. PICK p \in 1..n : flat[p] = seqs[i][r]
        BY <1>1 DEF Laid
      <4>2. p < n + s
        BY <1>1
      <4> QED BY <1>1, <1>2, <4>1, <4>2
    <3> QED BY <3>1, <3>2, <3>3 DEF ComesFrom
  <2>3. \A q \in DOMAIN more : q \in 1..n \/ \E s \in 1..m : q = n + s
    <3>1. \A q \in 1..(n + m) : q \in 1..n \/ (q - n \in 1..m /\ q = n + (q - n))
      BY <1>1
    <3> QED BY <1>1, <3>1
  <2>4. k + 1 \in 1..(k + 1)
    OBVIOUS
  <2> QED BY <2>1, <2>2, <2>3, <2>4 DEF Stems
<1> QED BY <1>1, <1>5, <1>6 DEF more

\* FlattenSeq lays the sequences out in their order.
LEMMA FlattenKeepsOrder ==
    ASSUME NEW S, NEW seqs \in Seq(Seq(S))
    PROVE  FlattenSeq(seqs) \in Seq(S) /\ Stems(seqs, FlattenSeq(seqs), Len(seqs))
<1> DEFINE n == Len(seqs)
           flatten == CHOOSE f : f = [i \in 1..n |-> FlatTurn(seqs, f, i)]
<1>1. n \in Nat /\ \A i \in 1..n : seqs[i] \in Seq(S)
  OBVIOUS
<1>2. CASE n = 0
  <2>1. FlattenSeq(seqs) = seqs /\ seqs = <<>>
    BY <1>2 DEF FlattenSeq
  <2>2. <<>> \in Seq(S) /\ DOMAIN <<>> = {}
    OBVIOUS
  <2> QED BY <2>1, <2>2 DEF Stems
<1>3. CASE n # 0
  <2>1. FlattenSeq(seqs) = flatten[n]
    BY <1>3 DEF FlattenSeq, FlatTurn
  <2> HIDE DEF n
  <2>2. flatten = [i \in 1..n |-> FlatTurn(seqs, flatten, i)]
    BY <1>1, FlatHasValue
  <2> HIDE DEF flatten
  <2> DEFINE Good(k) == flatten[k] \in Seq(S) /\ Laid(seqs, flatten[k], k) /\ Stems(seqs, flatten[k], k)
             P == {k \in 0..n : k # 0 => Good(k)}
  <2>3. Good(1)
    <3>1. 1 \in 1..n
      BY <1>1, <1>3
    <3>2. flatten[1] = seqs[1] /\ seqs[1] \in Seq(S)
      BY <1>1, <2>2, <3>1 DEF FlatTurn
    <3>3. \A j \in 1..1 : j = 1
      OBVIOUS
    <3>4. Laid(seqs, seqs[1], 1)
      BY <3>3 DEF Laid
    <3>5. Stems(seqs, seqs[1], 1)
      <4>1. 1 \in 1..1 /\ \A i \in 1..(1 - 1) : FALSE
        OBVIOUS
      <4>2. \A q \in DOMAIN seqs[1] : ComesFrom(seqs, seqs[1], 1, q)
        BY <4>1 DEF ComesFrom
      <4> QED BY <4>1, <4>2 DEF Stems
    <3> QED BY <3>2, <3>4, <3>5
  <2>4. ASSUME NEW k \in 1..n, k - 1 \in P PROVE k \in P
    <3>1. CASE k = 1
      BY <2>3, <3>1
    <3>2. CASE k # 1
      <4>1. k - 1 \in Nat /\ (k - 1) + 1 = k /\ k - 1 # 0 /\ k \in 0..n
        BY <1>1, <3>2
      <4>2. flatten[k] = flatten[k - 1] \o seqs[k] /\ seqs[k] \in Seq(S)
        BY <1>1, <2>2, <3>2 DEF FlatTurn
      <4>3. Good(k - 1)
        BY <2>4, <4>1
      <4>4. Good(k)
        BY <4>1, <4>2, <4>3, OneMoreLaid
      <4> HIDE DEF Good
      <4> QED BY <4>1, <4>4
    <3> QED BY <3>1, <3>2
  <2>5. 0 \in P
    BY <1>1
  <2> HIDE DEF P
  <2>6. \A k \in 0..n : k \in P
    BY <1>1, <2>4, <2>5, UpTo
  <2>7. n \in P
    BY <1>1, <2>6
  <2>8. Good(n)
    BY <1>3, <2>7 DEF P
  <2> QED BY <2>1, <2>8 DEF n
<1> QED BY <1>2, <1>3

\* The lines a trace may have, and those that do not say that a tool ran.
TracePhases == {"CONTEXT", "ACTION", "APPROVAL", "VERIFICATION", "OUTCOME", "MISSION"}
TraceLabels ==
    {"gathered", "requested", "required", "ran", "returned", "checking", "evidence", "not established",
     "cancelled", "failed"} \cup Verdicts \cup EventTypes
TraceMarks == {"info", "ok", "failed", "skipped", "waiting", "denied"}
TraceLines == [phase : TracePhases, label : TraceLabels, mark : TraceMarks, tool : Tools \cup {Absent}]
OtherLines == {line \in TraceLines : line.label # "ran"}

LEMMA LineIs ==
    ASSUME NEW section \in TracePhases, NEW label \in TraceLabels, NEW mark \in TraceMarks,
           NEW tool \in Tools \cup {Absent}
    PROVE  /\ Line(section, label, mark, tool) \in TraceLines
           /\ Line(section, label, mark, tool).phase = section /\ Line(section, label, mark, tool).label = label
           /\ Line(section, label, mark, tool).mark = mark /\ Line(section, label, mark, tool).tool = tool
           /\ label # "ran" => Line(section, label, mark, tool) \in OtherLines
BY DEF Line, TraceLines, OtherLines

LEMMA Repeated ==
    ASSUME NEW S, NEW x \in S
    PROVE  <<x>> \in Seq(S) /\ \A n \in Nat : [i \in 1..n |-> x] \in Seq(S)
OBVIOUS

\* The lines of an event: a tool is said to have run only where it started, and
\* the approval of one that has is shown where it was asked for.
LEMMA LinesAre ==
    ASSUME NEW e \in TraceEvents, e.type = "verification_completed" => e.found \in Verdicts
    PROVE  /\ Lines(e) \in Seq(TraceLines)
           /\ \A r \in DOMAIN Lines(e) : Lines(e)[r].label = "ran" =>
                e.type = "tool_started" /\ Lines(e)[r].tool = e.tool
           /\ e.type = "permission_required" /\ Begun(e.tool) =>
                \E r \in DOMAIN Lines(e) : /\ Lines(e)[r].phase = "APPROVAL" /\ Lines(e)[r].mark = "ok"
                                           /\ Lines(e)[r].tool = e.tool
<1>1. e.type \in EventTypes /\ e.tool \in Tools \cup {Absent}
  BY DEF TraceEvents
<1>2. ASSUME NEW line \in TraceLines
      PROVE  <<line>> \in Seq(TraceLines) /\ DOMAIN <<line>> = {1} /\ <<line>>[1] = line
  OBVIOUS
<1>3. ASSUME NEW line \in OtherLines PROVE <<line>> \in Seq(OtherLines)
  OBVIOUS
<1>4. \A s \in Seq(OtherLines) : s \in Seq(TraceLines) /\ \A r \in DOMAIN s : s[r].label # "ran"
  BY DEF OtherLines
<1>5. CASE e.type = "tool_started"
  <2> DEFINE line == Line("ACTION", "ran", "info", e.tool)
  <2>1. Lines(e) = <<line>>
    BY <1>5 DEF Lines
  <2>2. line \in TraceLines /\ line.tool = e.tool
    <3>1. "ACTION" \in TracePhases /\ "ran" \in TraceLabels /\ "info" \in TraceMarks
      BY DEF TracePhases, TraceLabels, TraceMarks
    <3> QED BY <1>1, <3>1, LineIs
  <2> HIDE DEF line
  <2> QED BY <1>2, <1>5, <2>1, <2>2
<1>6. CASE e.type = "permission_required"
  <2> DEFINE mark == PermissionOutcome(e.tool)
             shown == IF mark = "skipped" THEN "waiting" ELSE mark
             line == Line("APPROVAL", "required", shown, e.tool)
  <2>1. Lines(e) = <<line>>
    BY <1>6 DEF Lines
  <2>2. shown \in TraceMarks /\ (Begun(e.tool) => shown = "ok")
    BY DEF PermissionOutcome, TraceMarks
  <2> HIDE DEF mark, shown
  <2>3. "APPROVAL" \in TracePhases /\ "required" \in TraceLabels /\ "required" # "ran"
    BY DEF TracePhases, TraceLabels
  <2>4. /\ line \in OtherLines /\ line \in TraceLines /\ line.phase = "APPROVAL" /\ line.tool = e.tool
        /\ line.mark = shown
    BY <1>1, <2>2, <2>3, LineIs
  <2> HIDE DEF line
  <2>5. \A r \in DOMAIN Lines(e) : Lines(e)[r].label # "ran"
    BY <1>3, <1>4, <2>1, <2>4
  <2> QED BY <1>2, <1>6, <2>1, <2>2, <2>4, <2>5
<1>7. CASE e.type = "verification_completed"
  <2> DEFINE one == Line("VERIFICATION", "evidence", IF e.found = "FAILED" THEN "failed" ELSE "ok", e.tool)
             other == Line("VERIFICATION", "not established", "skipped", e.tool)
             last == Line("OUTCOME", e.found, CASE e.found = "SUCCESS" -> "ok" [] e.found = "FAILED" -> "failed"
                                                [] OTHER -> "skipped", e.tool)
             a == [i \in 1..StatementsOf(e.found) |-> one]
             b == [i \in 1..UnknownsOf(e.found) |-> other]
  <2>1. Lines(e) = a \o b \o <<last>>
    BY <1>7 DEF Lines
  <2>2. StatementsOf(e.found) \in Nat /\ UnknownsOf(e.found) \in Nat
    BY DEF StatementsOf, UnknownsOf
  <2>3. one \in OtherLines
    <3>1. "VERIFICATION" \in TracePhases /\ "evidence" \in TraceLabels /\ "failed" \in TraceMarks /\ "ok" \in TraceMarks
      BY DEF TracePhases, TraceLabels, TraceMarks
    <3> QED BY <1>1, <3>1, LineIs
  <2>4. other \in OtherLines
    <3>1. "VERIFICATION" \in TracePhases /\ "not established" \in TraceLabels /\ "skipped" \in TraceMarks
      BY DEF TracePhases, TraceLabels, TraceMarks
    <3> QED BY <1>1, <3>1, LineIs
  <2>5. last \in OtherLines
    <3>1. /\ "OUTCOME" \in TracePhases /\ e.found \in TraceLabels /\ e.found # "ran"
          /\ {"ok", "failed", "skipped"} \subseteq TraceMarks
      BY <1>7 DEF TracePhases, TraceLabels, TraceMarks, Verdicts
    <3> QED BY <1>1, <3>1, LineIs
  <2> HIDE DEF one, other, last
  <2>6. a \in Seq(OtherLines) /\ b \in Seq(OtherLines) /\ <<last>> \in Seq(OtherLines)
    BY <2>2, <2>3, <2>4, <2>5, Repeated
  <2> HIDE DEF a, b
  <2>7. a \o b \o <<last>> \in Seq(OtherLines)
    BY <2>6
  <2> QED BY <1>4, <1>7, <2>1, <2>7
<1>8. CASE e.type \notin {"tool_started", "permission_required", "verification_completed"}
  <2>1. /\ e.type \in TraceLabels /\ e.type # "ran"
        /\ {"ACTION", "VERIFICATION", "OUTCOME", "MISSION"} \subseteq TracePhases
        /\ {"requested", "returned", "checking", "cancelled", "failed"} \subseteq TraceLabels
        /\ {"info", "ok", "failed", "skipped"} \subseteq TraceMarks
    BY <1>1 DEF TracePhases, TraceLabels, TraceMarks, EventTypes, StepEndings
  <2>2. \/ Lines(e) = <<>>
        \/ \E section \in TracePhases, label \in TraceLabels \ {"ran"}, mark \in TraceMarks, tool \in {e.tool, Absent} :
              Lines(e) = <<Line(section, label, mark, tool)>>
    <3>1. CASE e.type = "tool_requested"
      <4>1. Lines(e) = <<Line("ACTION", "requested", "info", e.tool)>>
        BY <3>1 DEF Lines
      <4> QED BY <2>1, <4>1
    <3>2. CASE e.type = "tool_completed"
      <4> DEFINE mark == IF e.success THEN "ok" ELSE "failed"
      <4>1. Lines(e) = <<Line("ACTION", "returned", mark, e.tool)>>
        BY <3>2 DEF Lines
      <4>2. mark \in TraceMarks
        BY <2>1
      <4> HIDE DEF mark
      <4> QED BY <2>1, <4>1, <4>2
    <3>3. CASE e.type = "verification_started"
      <4>1. Lines(e) = <<Line("VERIFICATION", "checking", "info", e.tool)>>
        BY <3>3 DEF Lines
      <4> QED BY <2>1, <4>1
    <3>4. CASE e.type = "task_cancelled"
      <4>1. Lines(e) = <<Line("OUTCOME", "cancelled", "skipped", Absent)>>
        BY <3>4 DEF Lines
      <4> QED BY <2>1, <4>1
    <3>5. CASE e.type = "task_error"
      <4>1. Lines(e) = <<Line("OUTCOME", "failed", "failed", Absent)>>
        BY <3>5 DEF Lines
      <4> QED BY <2>1, <4>1
    <3>6. CASE e.type = "mission_cancelled"
      BY <3>6 DEF Lines
    <3>7. CASE e.type \in {"mission_step_failed", "mission_failed"}
      <4>1. Lines(e) = <<Line("MISSION", e.type, "failed", Absent)>>
        BY <3>7 DEF Lines
      <4> QED BY <2>1, <4>1
    <3>8. CASE e.type = "mission_step_skipped"
      <4>1. Lines(e) = <<Line("MISSION", e.type, "skipped", Absent)>>
        BY <3>8 DEF Lines
      <4> QED BY <2>1, <4>1
    <3>9. CASE e.type \in {"mission_completed", "mission_step_completed"}
      <4>1. Lines(e) = <<Line("MISSION", e.type, "ok", Absent)>>
        BY <3>9 DEF Lines
      <4> QED BY <2>1, <4>1
    <3>10. e.type \in {"tool_requested", "tool_completed", "verification_started", "task_cancelled", "task_error",
                      "mission_cancelled", "mission_step_failed", "mission_failed", "mission_step_skipped",
                      "mission_completed", "mission_step_completed"}
      BY <1>1, <1>8 DEF EventTypes, StepEndings
    <3> QED BY <3>1, <3>2, <3>3, <3>4, <3>5, <3>6, <3>7, <3>8, <3>9, <3>10
  <2>3. Lines(e) \in Seq(OtherLines)
    <3>1. <<>> \in Seq(OtherLines)
      OBVIOUS
    <3>2. \A section \in TracePhases, label \in TraceLabels \ {"ran"}, mark \in TraceMarks, tool \in {e.tool, Absent} :
            Line(section, label, mark, tool) \in OtherLines
      BY <1>1, LineIs
    <3> QED BY <1>3, <2>2, <3>1, <3>2
  <2> QED BY <1>4, <1>8, <2>3
<1> QED BY <1>5, <1>6, <1>7, <1>8

\* However much is cut off, an approval is shown before what it allowed.
LEMMA ApprovalShown ==
    ASSUME TraceInv
    PROVE  ApprovalComesFirst
<1> DEFINE seqs == [k \in DOMAIN happened |-> Lines(happened[k])]
           flat == FlattenSeq(seqs)
           head == IF ContextItems = <<>> THEN <<>> ELSE <<Line("CONTEXT", "gathered", "info", Absent)>>
           m == Len(head)
<1>1. /\ happened \in Seq(TraceEvents) /\ DOMAIN happened = 1..Len(happened) /\ Len(happened) \in Nat
      /\ \A k \in DOMAIN happened : happened[k] \in TraceEvents
      /\ \A k \in DOMAIN happened : happened[k].type = "verification_completed" => happened[k].found \in Verdicts
  BY DEF TraceInv, TraceTypes
<1>2. \A k \in 1..Len(happened) : seqs[k] = Lines(happened[k]) /\ Lines(happened[k]) \in Seq(TraceLines)
  BY <1>1, LinesAre
<1>3. seqs \in Seq(Seq(TraceLines)) /\ Len(seqs) = Len(happened)
  <2>1. seqs \in [1..Len(happened) -> Seq(TraceLines)]
    BY <1>1, <1>2
  <2> HIDE DEF seqs
  <2> QED BY <1>1, <2>1
<1>4. AllLines = head \o flat
  BY DEF AllLines
<1> HIDE DEF seqs
<1>5. flat \in Seq(TraceLines) /\ Stems(seqs, flat, Len(happened))
  BY <1>3, FlattenKeepsOrder
<1>6. head \in Seq(TraceLines) /\ \A q \in DOMAIN head : head[q].label # "ran"
  <2> DEFINE line == Line("CONTEXT", "gathered", "info", Absent)
  <2>1. line \in TraceLines /\ line.label # "ran"
    <3>1. "CONTEXT" \in TracePhases /\ "gathered" \in TraceLabels /\ "gathered" # "ran" /\ "info" \in TraceMarks
      BY DEF TracePhases, TraceLabels, TraceMarks
    <3> QED BY <3>1, LineIs
  <2>2. head = <<>> \/ head = <<line>>
    OBVIOUS
  <2> HIDE DEF line, head
  <2>3. <<line>> \in Seq(TraceLines) /\ DOMAIN <<line>> = {1} /\ <<line>>[1] = line
    BY <2>1
  <2>4. <<>> \in Seq(TraceLines) /\ DOMAIN <<>> = {}
    OBVIOUS
  <2> QED BY <2>1, <2>2, <2>3, <2>4
<1> HIDE DEF flat, head
<1>7. /\ AllLines \in Seq(TraceLines) /\ Len(AllLines) \in Nat /\ DOMAIN AllLines = 1..(m + Len(flat))
      /\ m \in Nat /\ Len(flat) \in Nat /\ DOMAIN flat = 1..Len(flat) /\ DOMAIN head = 1..m
      /\ Len(AllLines) = m + Len(flat)
      /\ \A q \in 1..m : AllLines[q] = head[q]
      /\ \A q \in 1..Len(flat) : AllLines[m + q] = flat[q]
  BY <1>4, <1>5, <1>6
<1> HIDE DEF m
<1>8. ASSUME NEW q \in 1..Len(flat), flat[q].label = "ran", ~MayRun(flat[q].tool)
      PROVE  \E p \in 1..Len(flat) : /\ p < q /\ flat[p].phase = "APPROVAL" /\ flat[p].mark = "ok"
                                     /\ flat[p].tool = flat[q].tool
  <2>1. PICK k \in 1..Len(happened) : ComesFrom(seqs, flat, k, q)
    BY <1>5, <1>7 DEF Stems
  <2>2. PICK r \in DOMAIN seqs[k] : flat[q] = seqs[k][r]
    BY <2>1 DEF ComesFrom
  <2>3. happened[k].type = "tool_started" /\ flat[q].tool = happened[k].tool
    BY <1>1, <1>2, <1>8, <2>2, LinesAre
  <2>4. PICK j \in DOMAIN decided : j < k /\ happened[j].tool = happened[k].tool
    BY <1>1, <1>8, <2>3 DEF TraceInv, StartsArePermitted
  <2>5. j \in Prompts /\ j \in 1..Len(happened) /\ happened[j].type = "permission_required"
    BY <1>1, <2>4 DEF TraceInv, EveryPromptAnswered, Prompts
  <2>6. Begun(happened[j].tool)
    BY <1>1, <2>3, <2>4 DEF Begun
  <2>7. PICK s \in DOMAIN Lines(happened[j]) :
          /\ Lines(happened[j])[s].phase = "APPROVAL" /\ Lines(happened[j])[s].mark = "ok"
          /\ Lines(happened[j])[s].tool = happened[j].tool
    BY <1>1, <2>5, <2>6, LinesAre
  <2>8. j \in 1..(k - 1) /\ seqs[j] = Lines(happened[j])
    BY <1>1, <1>2, <2>4, <2>5
  <2>9. PICK p \in DOMAIN flat : p < q /\ flat[p] = seqs[j][s]
    BY <2>1, <2>7, <2>8 DEF ComesFrom
  <2> QED BY <1>7, <2>3, <2>4, <2>7, <2>8, <2>9
<1>9. ASSUME NEW i \in DOMAIN Shown, Shown[i].label = "ran", LevelOf[Shown[i].tool] = "CONFIRM", beforehand = {}
      PROVE  \E j \in 1..(i - 1) : /\ Shown[j].phase = "APPROVAL" /\ Shown[j].tool = Shown[i].tool
                                    /\ Shown[j].mark = "ok"
  <2> DEFINE most == IF Len(AllLines) < MaxTraceItems THEN Len(AllLines) ELSE MaxTraceItems
  <2>1. most \in Nat /\ most <= Len(AllLines)
    BY <1>7, TraceAssumption
  <2>2. Shown = SubSeq(AllLines, 1, most)
    BY DEF Shown
  <2> HIDE DEF most
  <2>3. DOMAIN Shown = 1..most /\ \A q \in 1..most : Shown[q] = AllLines[q]
    BY <1>7, <2>1, <2>2
  <2>4. i \in 1..(m + Len(flat)) /\ Shown[i] = AllLines[i] /\ i \in 1..most
    BY <1>7, <2>1, <2>3
  <2>5. i \notin 1..m
    BY <1>6, <1>7, <1>9, <2>4
  <2>6. i - m \in 1..Len(flat) /\ i = m + (i - m)
    BY <1>7, <2>4, <2>5
  <2>7. flat[i - m] = Shown[i]
    BY <1>7, <2>4, <2>6
  <2>8. ~MayRun(Shown[i].tool)
    BY <1>9 DEF MayRun
  <2>9. PICK p \in 1..Len(flat) : /\ p < i - m /\ flat[p].phase = "APPROVAL" /\ flat[p].mark = "ok"
                                  /\ flat[p].tool = Shown[i].tool
    BY <1>8, <1>9, <2>6, <2>7, <2>8
  <2>10. m + p \in 1..(i - 1) /\ m + p \in 1..most
    BY <1>7, <2>1, <2>4, <2>6, <2>9
  <2>11. Shown[m + p] = flat[p]
    BY <1>7, <2>3, <2>9, <2>10
  <2> QED BY <2>9, <2>10, <2>11
<1> QED BY <1>9 DEF ApprovalComesFirst

\* The trace of a record tells no approval that nobody gave, leaves none out of
\* its sentence, and shows each before what it allowed, wherever it is cut.
THEOREM TraceHolds == TraceSpec => []TraceIsTrue
<1>1. TraceInv => TraceIsTrue
  BY ApprovalsTold, SummaryTold, ApprovalShown DEF TraceIsTrue
<1> QED BY <1>1, TraceInvHolds, PTL
-----------------------------------------------------------------------------
(* Files: the forest of the entries.                                       *)

\* What is above something that is above an entry is above the entry; of two
\* that are above it one is above the other; and on the way down from one of
\* them there is an entry inside it.
Upright(e) ==
    /\ \A d \in Above[e] : d \in Entries /\ Above[d] \subseteq Above[e]
    /\ \A c, d \in Above[e] : c \in Above[d] \/ d \in Above[c]
    /\ \A d \in Above[e] : d # e => \E c \in Above[e] : Parent[c] = d

\* What is above an entry: itself, and what is above the directory it is in.
LEMMA AboveIs ==
    ASSUME NEW e \in Entries
    PROVE  /\ e \in Above[e] /\ Above[e] \subseteq Entries /\ IsFiniteSet(Above[e])
           /\ Parent[e] \in Entries =>
                /\ Above[e] = {e} \cup Above[Parent[e]] /\ e \notin Above[Parent[e]]
                /\ Parent[e] \in Above[Parent[e]]
           /\ Parent[e] \notin Entries => Above[e] = {e}
<1>1. \A d \in Entries : d \in Above[d] /\ Above[d] \subseteq Entries
  BY FilesAssumption
<1>2. IsFiniteSet(Above[e])
  BY <1>1, FilesAssumption, FS_Subset
<1> QED BY <1>1, <1>2, FilesAssumption

\* It is a forest: were one entry not upright, none would be so of the lowest.
LEMMA ForestFacts == \A e \in Entries : Upright(e)
<1> DEFINE bad == {e \in Entries : ~Upright(e)}
           height == [e \in Entries |-> Cardinality(Above[e])]
           heights == {height[e] : e \in bad}
<1> SUFFICES ASSUME bad # {} PROVE FALSE
  OBVIOUS
<1>1. \A e \in Entries : height[e] = Cardinality(Above[e]) /\ height[e] \in Nat
  BY AboveIs, FS_CardinalityType
<1>2. \A e \in Entries : height[e] <= Cardinality(Entries) /\ Cardinality(Entries) \in Nat
  BY <1>1, AboveIs, FilesAssumption, FS_Subset, FS_CardinalityType
<1> HIDE DEF height
<1>3. heights \in SUBSET Nat /\ heights # {}
  BY <1>1
<1>4. \A k \in heights : k <= Cardinality(Entries)
  BY <1>2
<1>5. IsFiniteSet(heights)
  <2> HIDE DEF heights
  <2>1. Cardinality(Entries) \in Nat
    BY FilesAssumption, FS_CardinalityType
  <2> QED BY <1>3, <1>4, <2>1, FS_BoundedSetOfNaturals
<1>6. PICK n \in heights : \A k \in heights : n <= k
  <2> HIDE DEF heights
  <2> QED BY <1>3, <1>5, LeastOf
<1>7. PICK e \in bad : n = height[e]
  BY <1>6
<1>8. e \in Entries /\ ~Upright(e)
  BY <1>7
<1>9. CASE Parent[e] \notin Entries
  <2>1. Above[e] = {e}
    BY <1>8, <1>9, AboveIs
  <2> QED BY <1>8, <2>1 DEF Upright
<1>10. CASE Parent[e] \in Entries
  <2> DEFINE p == Parent[e]
  <2>1. Above[e] = {e} \cup Above[p] /\ e \notin Above[p] /\ p \in Above[p] /\ p \in Entries
    BY <1>8, <1>10, AboveIs
  <2>2. Cardinality(Above[e]) = Cardinality(Above[p]) + 1
    <3>1. IsFiniteSet(Above[p])
      BY <2>1, AboveIs
    <3>2. Above[e] = Above[p] \cup {e} /\ e \notin Above[p]
      BY <2>1
    <3> HIDE DEF bad, p
    <3> QED BY ONLY <3>1, <3>2, FS_AddElement
  <2>3. p \notin bad
    <3>1. p \in bad => height[e] <= height[p]
      BY <1>6, <1>7
    <3> HIDE DEF bad, p
    <3>2. height[p] = Cardinality(Above[p]) /\ height[p] \in Nat
      BY ONLY <1>1, <2>1
    <3>3. height[e] = Cardinality(Above[e])
      BY ONLY <1>1, <1>8
    <3>4. ~(height[e] <= height[p])
      BY ONLY <2>2, <3>2, <3>3
    <3> QED BY ONLY <3>1, <3>4
  <2>4. Upright(p)
    <3>1. ~(p \in Entries /\ ~Upright(p))
      BY <2>3
    <3> HIDE DEF bad
    <3> QED BY ONLY <2>1, <3>1
  <2> HIDE DEF p, bad
  <2>5. \A d \in Above[e] : d \in Entries /\ Above[d] \subseteq Above[e]
    BY <1>8, <2>1, <2>4 DEF Upright
  <2>6. \A c, d \in Above[e] : c \in Above[d] \/ d \in Above[c]
    BY <2>1, <2>4, <2>5 DEF Upright
  <2>7. \A d \in Above[e] : d # e => \E c \in Above[e] : Parent[c] = d
    <3>1. ASSUME NEW d \in Above[e], d # e, d # p PROVE \E c \in Above[e] : Parent[c] = d
      <4>1. PICK c \in Above[p] : Parent[c] = d
        BY <2>1, <2>4, <3>1 DEF Upright
      <4> QED BY <2>1, <4>1
    <3>2. Parent[e] = p /\ e \in Above[e]
      BY <2>1 DEF p
    <3> QED BY <3>1, <3>2
  <2> QED BY <1>8, <2>5, <2>6, <2>7 DEF Upright
<1> QED BY <1>9, <1>10

\* An entry is as deep in a directory as there are directories between them;
\* what is inside it is one deeper.
Depth(root, d) == Cardinality(Above[d] \ Above[root])

LEMMA Deeper ==
    ASSUME NEW root \in Entries, NEW d \in Entries, root \in Above[d],
           NEW c \in Entries, Parent[c] = d
    PROVE  /\ root \in Above[c] /\ Above[c] = {c} \cup Above[d] /\ c \notin Above[d]
           /\ Above[c] \ Above[root] = {c} \cup (Above[d] \ Above[root])
           /\ Depth(root, d) \in Nat /\ Depth(root, c) = Depth(root, d) + 1
<1>1. Above[c] = {c} \cup Above[d] /\ c \notin Above[d]
  BY AboveIs
<1>2. Above[root] \subseteq Above[d]
  BY ForestFacts DEF Upright
<1>3. Above[c] \ Above[root] = {c} \cup (Above[d] \ Above[root])
  BY <1>1, <1>2
<1>4. IsFiniteSet(Above[d] \ Above[root])
  BY AboveIs, FS_Subset
<1>5. Depth(root, c) = Depth(root, d) + 1 /\ Depth(root, d) \in Nat
  <2> DEFINE way == Above[d] \ Above[root]
  <2>1. Above[c] \ Above[root] = way \cup {c} /\ c \notin way
    BY <1>1, <1>3
  <2> HIDE DEF way
  <2>2. IsFiniteSet(way)
    BY <1>4 DEF way
  <2>3. Cardinality(way \cup {c}) = Cardinality(way) + 1 /\ Cardinality(way) \in Nat
    BY <2>1, <2>2, FS_AddElement, FS_CardinalityType
  <2> QED BY <2>1, <2>3 DEF Depth, way
<1> QED BY <1>1, <1>3, <1>5

\* What lies on the way to a directory is no deeper than it.
LEMMA OnTheWay ==
    ASSUME NEW root \in Entries, NEW e \in Entries, NEW c \in Above[e]
    PROVE  /\ c \in Entries /\ Above[c] \subseteq Above[e]
           /\ Depth(root, c) \in Nat /\ Depth(root, e) \in Nat /\ Depth(root, c) <= Depth(root, e)
<1>1. c \in Entries /\ Above[c] \subseteq Above[e]
  BY ForestFacts DEF Upright
<1>2. IsFiniteSet(Above[e] \ Above[root]) /\ (Above[c] \ Above[root]) \in SUBSET (Above[e] \ Above[root])
  BY <1>1, AboveIs, FS_Subset
<1> QED BY <1>1, <1>2, FS_Subset, FS_CardinalityType DEF Depth
-----------------------------------------------------------------------------
(* Files: lists and folds.                                                 *)

\* A sequence that has every element of a set once.
Lists(s, S) ==
    /\ s \in Seq(S)
    /\ \A i, j \in 1..Len(s) : s[i] = s[j] => i = j
    /\ \A e \in S : \E i \in 1..Len(s) : s[i] = e

\* It is a sequence over the set, and has each element at one place.
LEMMA ListFacts ==
    ASSUME NEW S, NEW s, Lists(s, S)
    PROVE  /\ s \in Seq(S) /\ Len(s) \in Nat /\ \A i \in 1..Len(s) : s[i] \in S
           /\ \A i, j \in 1..Len(s) : s[i] = s[j] => i = j
           /\ \A e \in S : \E i \in 1..Len(s) : s[i] = e
<1>1. s \in Seq(S)
  BY DEF Lists
<1>2. Len(s) \in Nat /\ \A i \in 1..Len(s) : s[i] \in S
  BY ONLY <1>1
<1>3. \A i, j \in 1..Len(s) : s[i] = s[j] => i = j
  BY DEF Lists
<1>4. \A e \in S : \E i \in 1..Len(s) : s[i] = e
  BY DEF Lists
<1> QED BY ONLY <1>1, <1>2, <1>3, <1>4

LEMMA AscendingFacts ==
    ASSUME NEW S \in SUBSET Nat, IsFiniteSet(S)
    PROVE  /\ Lists(Ascending(S), S)
           /\ \A i, j \in 1..Len(Ascending(S)) : i < j => Ascending(S)[i] < Ascending(S)[j]
<1> DEFINE before == {p \in S \X S : p[1] < p[2]}
           order == Sorted(S, before)
           n == Cardinality(S)
<1>1. \A i, j \in S : <<i, j>> \in before <=> i < j
  OBVIOUS
<1>2. \A i, j \in S : i \in Nat /\ j \in Nat
  OBVIOUS
<1>3. \A e \in S : {f \in S : <<f, e>> \in before} = {f \in S : f < e}
  BY <1>1
<1> HIDE DEF before
<1>4. Ascending(S) = order
  <2>1. \A r : (CHOOSE e \in S : Cardinality({f \in S : f < e}) = r - 1)
               = CHOOSE e \in S : Cardinality({f \in S : <<f, e>> \in before}) = r - 1
    BY <1>3
  <2>2. Ascending(S) = [r \in 1..n |-> CHOOSE e \in S : Cardinality({f \in S : f < e}) = r - 1]
    BY DEF Ascending
  <2>3. order = [r \in 1..n |-> CHOOSE e \in S : Cardinality({f \in S : <<f, e>> \in before}) = r - 1]
    BY DEF Sorted
  <2> HIDE DEF order, n
  <2> QED BY <2>1, <2>2, <2>3, Zenon
<1>5. /\ n \in Nat /\ order \in [1..n -> S]
      /\ \A i \in S : \E r \in 1..n : order[r] = i
      /\ \A q, r \in 1..n : q < r => <<order[q], order[r]>> \in before
  <2>1. \A i \in S : <<i, i>> \notin before
    BY <1>1, <1>2
  <2>2. \A i, j \in S : i # j => <<i, j>> \in before \/ <<j, i>> \in before
    BY <1>1, <1>2
  <2>3. \A i, j, k \in S : <<i, j>> \in before /\ <<j, k>> \in before => <<i, k>> \in before
    BY <1>1, <1>2
  <2> HIDE DEF order, n
  <2> QED BY <2>1, <2>2, <2>3, SortedFacts DEF order, n
<1> HIDE DEF order, n
<1>6. order \in Seq(S) /\ Len(order) = n
  BY <1>5
<1>7. \A q, r \in 1..n : q < r => order[q] < order[r]
  BY <1>1, <1>5
<1>8. \A q, r \in 1..n : order[q] = order[r] => q = r
  <2>1. ASSUME NEW q \in 1..n, NEW r \in 1..n, q # r PROVE order[q] # order[r]
    <3>1. q < r \/ r < q
      BY <2>1, <1>5
    <3>2. order[q] \in Nat /\ order[r] \in Nat
      BY <1>5
    <3> QED BY <1>7, <3>1, <3>2
  <2> QED BY <2>1
<1> QED BY <1>4, <1>5, <1>6, <1>7, <1>8 DEF Lists

\* The directory's own order, whatever it is, has every entry once.
LEMMA InAnyOrder ==
    ASSUME NEW S, IsFiniteSet(S), NEW s \in SetToSeqs(S)
    PROVE  Lists(s, S)
<1> DEFINE n == Cardinality(S)
<1>1. n \in Nat
  BY FS_CardinalityType
<1>2. s \in [1..n -> S] /\ \A i, j \in 1..n : i # j => s[i] # s[j]
  BY DEF SetToSeqs
<1> HIDE DEF n
<1>3. s \in Injection(1..n, S)
  BY <1>2, Fun_IsInj
<1>4. IsFiniteSet(1..n) /\ Cardinality(1..n) = n
  BY <1>1, FS_Interval
<1>5. s \in Surjection(1..n, S)
  BY <1>3, <1>4, FS_Injection DEF n
<1>6. \A e \in S : \E i \in 1..n : s[i] = e
  BY <1>5 DEF Surjection
<1>7. s \in Seq(S) /\ Len(s) = n
  BY <1>1, <1>2
<1> QED BY <1>2, <1>6, <1>7 DEF Lists

\* One turn of the fold, given what it says of fewer places.
AllTurn(w, s, depth, says, I) ==
    IF I = {} THEN w ELSE AfterChild(says[I \ {Max(I)}], s[Max(I)], depth)

\* The largest of the first m numbers, or some of them, leaves fewer.
LEMMA Largest ==
    ASSUME NEW m \in Nat \ {0}, NEW I \in SUBSET (1..m)
    PROVE  /\ m \in I => Max(I) = m
           /\ I # {} /\ m \notin I => I \in SUBSET (1..(m - 1))
<1>1. ASSUME m \in I PROVE Max(I) = m
  <2>1. m \in I /\ \A y \in I : m >= y
    BY <1>1
  <2>2. \A x \in I : (\A y \in I : x >= y) => x = m
    BY <1>1
  <2> QED BY <2>1, <2>2 DEF Max
<1>2. ASSUME m \notin I PROVE I \in SUBSET (1..(m - 1))
  BY <1>2
<1> QED BY <1>1, <1>2

\* The fold has a value on every set of the first n places.
LEMMA AllHasValue ==
    ASSUME NEW w, NEW s, NEW depth, NEW n \in Nat
    PROVE  \E f : f = [I \in SUBSET (1..n) |-> AllTurn(w, s, depth, f, I)]
<1> DEFINE P == {k \in 0..n : \E f : f = [I \in SUBSET (1..k) |-> AllTurn(w, s, depth, f, I)]}
<1>1. 0 \in P
  <2> DEFINE f == [I \in SUBSET (1..0) |-> w]
  <2>1. 1..0 = {}
    OBVIOUS
  <2>2. \A I \in SUBSET (1..0) : AllTurn(w, s, depth, f, I) = w
    BY <2>1 DEF AllTurn
  <2>3. f = [I \in SUBSET (1..0) |-> AllTurn(w, s, depth, f, I)]
    BY <2>2
  <2> HIDE DEF f
  <2> QED BY <2>3
<1>2. ASSUME NEW m \in 1..n, m - 1 \in P PROVE m \in P
  <2>1. PICK g : g = [I \in SUBSET (1..(m - 1)) |-> AllTurn(w, s, depth, g, I)]
    BY <1>2
  <2> DEFINE f == [I \in SUBSET (1..m) |-> AllTurn(w, s, depth, g, I)]
  <2>2. ASSUME NEW I \in SUBSET (1..m), I # {} PROVE I \ {Max(I)} \in SUBSET (1..(m - 1))
    <3>0. m \in Nat \ {0}
      OBVIOUS
    <3>1. CASE m \in I
      <4>1. Max(I) = m
        BY <3>0, <3>1, Largest
      <4>2. I \ {m} \in SUBSET (1..(m - 1))
        BY <3>0
      <4> QED BY <4>1, <4>2
    <3>2. CASE m \notin I
      <4>1. I \in SUBSET (1..(m - 1))
        BY <2>2, <3>0, <3>2, Largest
      <4> QED BY <4>1
    <3> QED BY <3>1, <3>2
  <2>3. ASSUME NEW I \in SUBSET (1..(m - 1)) PROVE f[I] = g[I]
    <3>1. I \in SUBSET (1..m)
      OBVIOUS
    <3>2. g[I] = AllTurn(w, s, depth, g, I)
      BY <2>1
    <3> QED BY <3>1, <3>2
  <2> HIDE DEF f
  <2>4. ASSUME NEW I \in SUBSET (1..m) PROVE AllTurn(w, s, depth, f, I) = AllTurn(w, s, depth, g, I)
    BY <2>2, <2>3 DEF AllTurn
  <2>5. f = [I \in SUBSET (1..m) |-> AllTurn(w, s, depth, f, I)]
    <3>1. f = [I \in SUBSET (1..m) |-> AllTurn(w, s, depth, g, I)]
      BY DEF f
    <3> QED BY <2>4, <3>1
  <2> QED BY <2>5
<1> HIDE DEF P
<1>3. \A k \in 0..n : k \in P
  BY <1>1, <1>2, UpTo
<1>4. n \in P
  BY <1>3
<1> QED BY <1>4 DEF P

\* What looking at children makes of a walk, it makes one child after the other.
StepByStep(h, w, s, depth) ==
    /\ h[0] = w /\ \A k \in 1..Len(s) : h[k] = AfterChild(h[k - 1], s[k], depth)
    /\ AfterAll(w, s, depth) = h[Len(s)]

LEMMA AfterAllIs ==
    ASSUME NEW S, NEW s \in Seq(S), NEW w, NEW depth
    PROVE  \E h : StepByStep(h, w, s, depth)
<1> DEFINE n == Len(s)
           says == CHOOSE f : f = [I \in SUBSET DOMAIN s |-> AllTurn(w, s, depth, f, I)]
           h == [k \in 0..n |-> says[1..k]]
<1>1. n \in Nat /\ DOMAIN s = 1..n
  OBVIOUS
<1>2. AfterAll(w, s, depth) = says[DOMAIN s]
  BY DEF AfterAll, FoldLeft, MapThenFoldSet, AllTurn
<1> HIDE DEF n
<1>3. says = [I \in SUBSET (1..n) |-> AllTurn(w, s, depth, says, I)]
  BY <1>1, AllHasValue
<1> HIDE DEF says
<1>4. h[0] = w
  <2>1. 1..0 = {} /\ 1..0 \in SUBSET (1..n)
    BY <1>1
  <2>2. says[1..0] = AllTurn(w, s, depth, says, 1..0)
    BY <1>3, <2>1
  <2> QED BY <1>1, <2>1, <2>2 DEF AllTurn
<1>5. ASSUME NEW k \in 1..n PROVE h[k] = AfterChild(h[k - 1], s[k], depth)
  <2>1. 1..k \in SUBSET (1..n) /\ k \in 1..k /\ 1..k # {} /\ k \in Nat \ {0} /\ k \in 0..n /\ k - 1 \in 0..n
    BY <1>1
  <2>2. Max(1..k) = k
    BY <2>1, Largest
  <2>3. (1..k) \ {k} = 1..(k - 1)
    BY <2>1
  <2>4. says[1..k] = AllTurn(w, s, depth, says, 1..k)
    BY <1>3, <2>1
  <2>5. says[1..k] = AfterChild(says[1..(k - 1)], s[k], depth)
    BY <2>1, <2>2, <2>3, <2>4 DEF AllTurn
  <2> QED BY <2>1, <2>5
<1>6. AfterAll(w, s, depth) = h[n]
  BY <1>1, <1>2
<1> HIDE DEF h
<1>7. StepByStep(h, w, s, depth)
  BY <1>4, <1>5, <1>6 DEF n, StepByStep
<1> QED BY <1>7
-----------------------------------------------------------------------------
(* Files: one child of a directory.                                        *)

Walks == [tool : {"search", "overview"}, stage : {"walk", "done"}, root : Entries,
          queue : Seq(Entries \X Nat), visited : Nat, found : Seq(Entries), protected : Nat,
          truncated : BOOLEAN, stop : BOOLEAN]

\* What a walk names of what it reaches, which directories it enters, and how
\* much it may name.
Wanted(w, e) ==
    IF w.tool = "search" THEN e \in Matching
    ELSE e \notin Secret /\ kind[e] # "other" /\ ~(kind[e] = "directory" /\ e \in Skipped)

Entered(w, c, depth) ==
    /\ kind[c] = "directory" /\ c \notin Skipped /\ depth + 1 <= limits.depth
    /\ w.tool = "overview" => c \notin Secret

Most(w) == IF w.tool = "search" THEN limits.matches ELSE limits.overview

\* What a child may change in a walk.
ChildIs(v, w, c, depth) ==
    /\ v \in Walks /\ v.tool = w.tool /\ v.root = w.root /\ v.stage = w.stage /\ v.visited = w.visited
    /\ w.truncated => v.truncated
    /\ \/ v.found = w.found /\ (v.stop <=> w.stop) /\ (Wanted(w, c) => w.stop)
       \/ v.found = Append(w.found, c) /\ ~w.stop /\ Wanted(w, c) /\ (v.stop <=> Len(w.found) + 1 >= Most(w))
    /\ \/ v.stop /\ v.queue = <<>> /\ v.truncated
       \/ ~v.stop /\ v.queue = Append(w.queue, <<c, depth + 1>>) /\ Entered(w, c, depth)
       \/ ~v.stop /\ v.queue = w.queue /\ (Entered(w, c, depth) => v.truncated)
    /\ v.truncated /\ ~w.truncated => v.stop \/ (w.tool = "search" /\ Len(w.queue) >= limits.queue)

LEMMA LimitsAre ==
    ASSUME limits \in Policies
    PROVE  /\ limits.entries \in Nat \ {0} /\ limits.matches \in Nat \ {0} /\ limits.depth \in Nat \ {0}
           /\ limits.visits \in Nat \ {0} /\ limits.queue \in Nat \ {0} /\ limits.overview \in Nat \ {0}
BY FilesAssumption

LEMMA WalkIs ==
    ASSUME NEW w \in Walks
    PROVE  /\ w.tool \in {"search", "overview"} /\ w.root \in Entries /\ w.visited \in Nat /\ w.protected \in Nat
           /\ w.queue \in Seq(Entries \X Nat) /\ w.found \in Seq(Entries)
           /\ w.truncated \in BOOLEAN /\ w.stop \in BOOLEAN
           /\ Len(w.queue) \in Nat /\ Len(w.found) \in Nat
           /\ DOMAIN w.queue = 1..Len(w.queue) /\ DOMAIN w.found = 1..Len(w.found)
           /\ \A i \in 1..Len(w.queue) : w.queue[i][1] \in Entries /\ w.queue[i][2] \in Nat
           /\ \A k \in 1..Len(w.found) : w.found[k] \in Entries
<1>1. w.queue \in Seq(Entries \X Nat) /\ w.found \in Seq(Entries)
  BY DEF Walks
<1>2. \A i \in 1..Len(w.queue) : w.queue[i] \in Entries \X Nat
  BY <1>1
<1> QED BY <1>1, <1>2 DEF Walks

LEMMA SearchChildIs ==
    ASSUME limits \in Policies, NEW w \in Walks, w.tool = "search", NEW c \in Entries, NEW depth \in Nat,
           w.stop => w.queue = <<>> /\ w.truncated
    PROVE  ChildIs(SearchChild(w, c, depth), w, c, depth)
<1> DEFINE v == SearchChild(w, c, depth)
           found == IF c \in Matching THEN Append(w.found, c) ELSE w.found
           full == c \in Matching /\ Len(found) >= limits.matches
           enter == kind[c] = "directory" /\ depth + 1 <= limits.depth /\ c \notin Skipped
           queue == IF enter /\ Len(w.queue) < limits.queue
                    THEN Append(w.queue, <<c, depth + 1>>) ELSE w.queue
           cut == w.truncated \/ Len(w.queue) >= limits.queue
<1> SUFFICES ChildIs(v, w, c, depth)
  OBVIOUS
<1>1. /\ w.stop => v = w
      /\ ~w.stop /\ full => v = [w EXCEPT !.found = found, !.truncated = TRUE, !.queue = <<>>, !.stop = TRUE]
      /\ ~w.stop /\ ~full => v = [w EXCEPT !.found = found, !.queue = queue, !.truncated = cut]
  BY WalkIs DEF SearchChild
<1>2. found \in Seq(Entries) /\ queue \in Seq(Entries \X Nat) /\ cut \in BOOLEAN /\ <<>> \in Seq(Entries \X Nat)
  <2>1. <<c, depth + 1>> \in Entries \X Nat
    OBVIOUS
  <2>2. w.found \in Seq(Entries) /\ w.queue \in Seq(Entries \X Nat) /\ w.truncated \in BOOLEAN
    BY WalkIs
  <2> HIDE DEF enter
  <2> QED BY <2>1, <2>2
<1>3. /\ c \in Matching => found = Append(w.found, c) /\ Len(found) = Len(w.found) + 1
      /\ c \notin Matching => found = w.found
  BY WalkIs
<1>4. enter <=> Entered(w, c, depth)
  BY DEF Entered
<1>5. Len(w.queue) < limits.queue <=> ~(Len(w.queue) >= limits.queue)
  BY WalkIs, LimitsAre
<1>6. Most(w) = limits.matches /\ (Wanted(w, c) <=> c \in Matching)
  BY DEF Most, Wanted
<1>7. CASE w.stop
  <2>1. v = w
    BY <1>1, <1>7
  <2> HIDE DEF v
  <2> QED BY <1>7, <2>1 DEF ChildIs
<1>8. CASE ~w.stop /\ full
  <2>1. v = [w EXCEPT !.found = found, !.truncated = TRUE, !.queue = <<>>, !.stop = TRUE]
    BY <1>1, <1>8
  <2>2. c \in Matching /\ Len(w.found) + 1 >= Most(w)
    BY <1>3, <1>6, <1>8
  <2> HIDE DEF v, found, full, enter, queue, cut
  <2>3. /\ v \in Walks /\ v.tool = w.tool /\ v.root = w.root /\ v.stage = w.stage /\ v.visited = w.visited
        /\ v.found = found /\ v.truncated /\ v.queue = <<>> /\ v.stop
    BY <2>1, <1>2 DEF Walks
  <2> QED BY <1>3, <1>6, <1>8, <2>2, <2>3 DEF ChildIs
<1>9. CASE ~w.stop /\ ~full
  <2>1. v = [w EXCEPT !.found = found, !.queue = queue, !.truncated = cut]
    BY <1>1, <1>9
  <2>2. c \in Matching => ~(Len(w.found) + 1 >= Most(w))
    BY <1>3, <1>6, <1>9
  <2>3. \/ enter /\ queue = Append(w.queue, <<c, depth + 1>>)
        \/ queue = w.queue /\ (enter => cut)
    BY <1>5
  <2>4. (w.truncated => cut) /\ (cut /\ ~w.truncated => Len(w.queue) >= limits.queue)
    OBVIOUS
  <2> HIDE DEF v, found, full, enter, queue, cut
  <2>5. /\ v \in Walks /\ v.tool = w.tool /\ v.root = w.root /\ v.stage = w.stage /\ v.visited = w.visited
        /\ v.found = found /\ (v.truncated <=> cut) /\ v.queue = queue /\ v.stop = w.stop
    BY <2>1, <1>2 DEF Walks
  <2> QED BY <1>3, <1>4, <1>6, <1>9, <2>2, <2>3, <2>4, <2>5 DEF ChildIs
<1> QED BY <1>7, <1>8, <1>9

LEMMA OverviewChildIs ==
    ASSUME limits \in Policies, NEW w \in Walks, w.tool = "overview", NEW c \in Entries, NEW depth \in Nat,
           w.stop => w.queue = <<>> /\ w.truncated
    PROVE  ChildIs(OverviewChild(w, c, depth), w, c, depth)
<1> DEFINE v == OverviewChild(w, c, depth)
           shown == c \notin Secret /\ kind[c] # "other" /\ ~(kind[c] = "directory" /\ c \in Skipped)
           structure == Append(w.found, c)
           full == Len(structure) >= limits.overview
           enter == kind[c] = "directory" /\ depth < limits.depth
           queue == IF enter THEN Append(w.queue, <<c, depth + 1>>) ELSE w.queue
           protected == IF c \in Secret THEN w.protected + 1 ELSE w.protected
<1> SUFFICES ChildIs(v, w, c, depth)
  OBVIOUS
<1>1. /\ w.stop => v = w
      /\ ~w.stop /\ ~shown => v = [w EXCEPT !.protected = protected]
      /\ ~w.stop /\ shown /\ full =>
           v = [w EXCEPT !.found = structure, !.truncated = TRUE, !.queue = <<>>, !.stop = TRUE]
      /\ ~w.stop /\ shown /\ ~full => v = [w EXCEPT !.found = structure, !.queue = queue]
  BY WalkIs DEF OverviewChild
<1>2. /\ structure \in Seq(Entries) /\ queue \in Seq(Entries \X Nat) /\ protected \in Nat
      /\ <<>> \in Seq(Entries \X Nat) /\ Len(structure) = Len(w.found) + 1
  <2>1. <<c, depth + 1>> \in Entries \X Nat
    OBVIOUS
  <2>2. w.found \in Seq(Entries) /\ w.queue \in Seq(Entries \X Nat) /\ w.protected \in Nat
    BY WalkIs
  <2> HIDE DEF enter
  <2> QED BY <2>1, <2>2
<1>3. Entered(w, c, depth) <=> shown /\ enter
  BY LimitsAre DEF Entered
<1>4. Most(w) = limits.overview /\ (Wanted(w, c) <=> shown)
  BY DEF Most, Wanted
<1>5. CASE w.stop
  <2>1. v = w
    BY <1>1, <1>5
  <2> HIDE DEF v
  <2> QED BY <1>5, <2>1 DEF ChildIs
<1>6. CASE ~w.stop /\ ~shown
  <2>1. v = [w EXCEPT !.protected = protected]
    BY <1>1, <1>6
  <2> HIDE DEF v, shown, structure, full, enter, queue, protected
  <2>2. /\ v \in Walks /\ v.tool = w.tool /\ v.root = w.root /\ v.stage = w.stage /\ v.visited = w.visited
        /\ v.found = w.found /\ v.truncated = w.truncated /\ v.queue = w.queue /\ v.stop = w.stop
    BY <2>1, <1>2 DEF Walks
  <2> QED BY <1>3, <1>4, <1>6, <2>2 DEF ChildIs
<1>7. CASE ~w.stop /\ shown /\ full
  <2>1. v = [w EXCEPT !.found = structure, !.truncated = TRUE, !.queue = <<>>, !.stop = TRUE]
    BY <1>1, <1>7
  <2>2. Len(w.found) + 1 >= Most(w)
    BY <1>2, <1>4, <1>7
  <2>3. structure = Append(w.found, c)
    OBVIOUS
  <2> HIDE DEF v, shown, structure, full, enter, queue, protected
  <2>4. /\ v \in Walks /\ v.tool = w.tool /\ v.root = w.root /\ v.stage = w.stage /\ v.visited = w.visited
        /\ v.found = structure /\ v.truncated /\ v.queue = <<>> /\ v.stop
    BY <2>1, <1>2 DEF Walks
  <2> QED BY <1>4, <1>7, <2>2, <2>3, <2>4 DEF ChildIs
<1>8. CASE ~w.stop /\ shown /\ ~full
  <2>1. v = [w EXCEPT !.found = structure, !.queue = queue]
    BY <1>1, <1>8
  <2>2. ~(Len(w.found) + 1 >= Most(w))
    BY <1>2, <1>4, <1>8
  <2>3. structure = Append(w.found, c) /\ queue = IF enter THEN Append(w.queue, <<c, depth + 1>>) ELSE w.queue
    OBVIOUS
  <2> HIDE DEF v, shown, structure, full, enter, queue, protected
  <2>4. /\ v \in Walks /\ v.tool = w.tool /\ v.root = w.root /\ v.stage = w.stage /\ v.visited = w.visited
        /\ v.found = structure /\ v.truncated = w.truncated /\ v.queue = queue /\ v.stop = w.stop
    BY <2>1, <1>2 DEF Walks
  <2> QED BY <1>3, <1>4, <1>8, <2>2, <2>3, <2>4 DEF ChildIs
<1> QED BY <1>5, <1>6, <1>7, <1>8

LEMMA AfterChildIs ==
    ASSUME limits \in Policies, NEW w \in Walks, NEW c \in Entries, NEW depth \in Nat,
           w.stop => w.queue = <<>> /\ w.truncated
    PROVE  ChildIs(AfterChild(w, c, depth), w, c, depth)
BY WalkIs, SearchChildIs, OverviewChildIs DEF AfterChild
-----------------------------------------------------------------------------
(* Files: what a walk keeps.                                               *)

\* Whatever happens to the disk: nothing is named twice, and no directory that
\* waits is above another one or above the directory of what was named.
Orderly(w) ==
    /\ w \in Walks
    /\ \A j, k \in 1..Len(w.found) : w.found[j] = w.found[k] => j = k
    /\ \A i, j \in 1..Len(w.queue) : i # j => w.queue[i][1] \notin Above[w.queue[j][1]]
    /\ \A k \in 1..Len(w.found) :
        /\ Parent[w.found[k]] \in Entries
        /\ \A i \in 1..Len(w.queue) : w.queue[i][1] \notin Above[Parent[w.found[k]]]
        /\ w.tool = "overview" => w.found[k] \notin Secret
    /\ Len(w.found) <= Most(w)
    /\ ~w.stop => Len(w.found) < Most(w)
    /\ w.stop => w.queue = <<>> /\ w.truncated

\* While the children of d are looked at, those left are nowhere yet.
Aside(w, d, left) ==
    /\ \A i \in 1..Len(w.queue) :
        /\ w.queue[i][1] \notin Above[d]
        /\ d \in Above[w.queue[i][1]] => Parent[w.queue[i][1]] = d /\ w.queue[i][1] \notin left
    /\ \A k \in 1..Len(w.found) :
        d \in Above[Parent[w.found[k]]] => Parent[w.found[k]] = d /\ w.found[k] \notin left

Directories == {d \in Entries : kind[d] = "directory"}

\* While the disk is still: what waits and what is named is in reach, and what
\* is to be named is named, in a directory that waits, in what is left to look
\* at, or the walk says that it was cut, for a reason.
Sound(w, left) ==
    /\ \A i \in 1..Len(w.queue) :
        /\ InReach(w, w.queue[i][1]) /\ There(w.queue[i][1]) /\ kind[w.queue[i][1]] = "directory"
        /\ w.queue[i][2] = Depth(w.root, w.queue[i][1])
    /\ \A k \in 1..Len(w.found) : w.found[k] \in Reached(w) /\ Wanted(w, w.found[k])
    /\ ~w.truncated => \A e \in Reached(w) : Wanted(w, e) =>
        \/ \E k \in 1..Len(w.found) : w.found[k] = e
        \/ \E i \in 1..Len(w.queue) : w.queue[i][1] \in Above[Parent[e]]
        \/ \E c \in left : c \in Above[e]
    /\ w.tool = "search" /\ w.truncated =>
        \/ Len(w.found) = limits.matches
        \/ w.visited > limits.visits
        \/ limits.queue < Cardinality(Directories)

\* Where the elements of an extended walk are from.
LEMMA ChildPlaces ==
    ASSUME NEW w \in Walks, NEW c \in Entries, NEW depth \in Nat, NEW v, ChildIs(v, w, c, depth)
    PROVE  /\ \A i \in 1..Len(v.queue) :
               \/ i \in 1..Len(w.queue) /\ v.queue[i] = w.queue[i]
               \/ /\ i = Len(w.queue) + 1 /\ v.queue[i] = <<c, depth + 1>>
                  /\ v.queue = Append(w.queue, <<c, depth + 1>>)
           /\ \A k \in 1..Len(v.found) :
               \/ k \in 1..Len(w.found) /\ v.found[k] = w.found[k]
               \/ k = Len(w.found) + 1 /\ v.found[k] = c /\ v.found = Append(w.found, c)
           /\ Len(w.found) \in Nat /\ Len(v.found) \in {Len(w.found), Len(w.found) + 1}
           /\ v.found = Append(w.found, c) => Len(v.found) = Len(w.found) + 1 /\ v.found[Len(w.found) + 1] = c
           /\ \A k \in 1..Len(w.found) : k \in 1..Len(v.found) /\ v.found[k] = w.found[k]
           /\ v.queue # <<>> => \A i \in 1..Len(w.queue) : i \in 1..Len(v.queue) /\ v.queue[i] = w.queue[i]
<1> DEFINE item == <<c, depth + 1>>
           more == Append(w.queue, item)
           named == Append(w.found, c)
<1>1. item \in Entries \X Nat
  OBVIOUS
<1>2. w.queue \in Seq(Entries \X Nat) /\ w.found \in Seq(Entries)
  BY WalkIs
<1> HIDE DEF item
<1>3. /\ Len(more) = Len(w.queue) + 1 /\ more[Len(w.queue) + 1] = item
      /\ \A i \in 1..Len(w.queue) : more[i] = w.queue[i]
  BY <1>1, <1>2
<1>4. /\ Len(named) = Len(w.found) + 1 /\ named[Len(w.found) + 1] = c
      /\ \A k \in 1..Len(w.found) : named[k] = w.found[k]
  BY <1>2
<1>5. Len(w.queue) \in Nat /\ Len(w.found) \in Nat /\ Len(<<>>) = 0
  BY <1>2
<1>6. v.queue = <<>> \/ v.queue = more \/ v.queue = w.queue
  BY DEF ChildIs, item
<1>7. v.found = w.found \/ v.found = named
  BY DEF ChildIs
<1> HIDE DEF more, named
<1>8. \A i \in 1..Len(v.queue) :
        \/ i \in 1..Len(w.queue) /\ v.queue[i] = w.queue[i]
        \/ i = Len(w.queue) + 1 /\ v.queue[i] = item /\ v.queue = more
  BY <1>3, <1>5, <1>6
<1>9. \A k \in 1..Len(v.found) :
        \/ k \in 1..Len(w.found) /\ v.found[k] = w.found[k]
        \/ k = Len(w.found) + 1 /\ v.found[k] = c /\ v.found = named
  BY <1>4, <1>5, <1>7
<1>10. /\ Len(v.found) \in {Len(w.found), Len(w.found) + 1}
       /\ \A k \in 1..Len(w.found) : k \in 1..Len(v.found) /\ v.found[k] = w.found[k]
  BY <1>4, <1>5, <1>7
<1>11. v.queue # <<>> => \A i \in 1..Len(w.queue) : i \in 1..Len(v.queue) /\ v.queue[i] = w.queue[i]
  BY <1>3, <1>5, <1>6
<1> QED BY <1>4, <1>5, <1>8, <1>9, <1>10, <1>11 DEF item, more, named

\* A child of d is above none of those that wait or were named, nor they above it.
LEMMA ChildIsApart ==
    ASSUME NEW w, Orderly(w), NEW d \in Entries, NEW left, Aside(w, d, left),
           NEW c \in left, c \in Entries, Parent[c] = d
    PROVE  /\ Above[c] = {c} \cup Above[d] /\ c \notin Above[d] /\ d \in Above[c]
           /\ \A i \in 1..Len(w.queue) :
               c \notin Above[w.queue[i][1]] /\ w.queue[i][1] \notin Above[c] /\ w.queue[i][1] \in Entries
           /\ \A k \in 1..Len(w.found) :
               w.found[k] # c /\ c \notin Above[Parent[w.found[k]]]
<1>1. Above[c] = {c} \cup Above[d] /\ c \notin Above[d] /\ d \in Above[d]
  BY AboveIs
<1>2. \A i \in 1..Len(w.queue) : w.queue[i][1] \in Entries
  BY WalkIs DEF Orderly
<1>3. \A e \in Entries : c \in Above[e] => d \in Above[e]
  BY <1>1, ForestFacts DEF Upright
<1>4. ASSUME NEW i \in 1..Len(w.queue)
      PROVE  c \notin Above[w.queue[i][1]] /\ w.queue[i][1] \notin Above[c]
  <2> DEFINE q == w.queue[i][1]
  <2>1. q \in Entries /\ q \notin Above[d] /\ (d \in Above[q] => Parent[q] = d /\ q \notin left)
    BY <1>2 DEF Aside
  <2> HIDE DEF q
  <2>2. q # c
    BY <1>1, <2>1
  <2>3. c \notin Above[q]
    <3>1. ASSUME c \in Above[q] PROVE FALSE
      <4>1. Parent[q] = d
        BY <1>3, <2>1, <3>1
      <4>2. Above[q] = {q} \cup Above[d]
        BY <2>1, <4>1, AboveIs
      <4> QED BY <1>1, <2>2, <3>1, <4>2
    <3> QED BY <3>1
  <2> QED BY <1>1, <2>1, <2>2, <2>3 DEF q
<1>5. ASSUME NEW k \in 1..Len(w.found)
      PROVE  w.found[k] # c /\ c \notin Above[Parent[w.found[k]]]
  <2>1. Parent[w.found[k]] \in Entries
    BY DEF Orderly
  <2>2. d \in Above[Parent[w.found[k]]] => Parent[w.found[k]] = d /\ w.found[k] \notin left
    BY DEF Aside
  <2> QED BY <1>1, <1>3, <2>1, <2>2
<1> QED BY <1>1, <1>2, <1>4, <1>5

LEMMA ChildOrderly ==
    ASSUME limits \in Policies, NEW w, Orderly(w), NEW d \in Entries, NEW left, Aside(w, d, left),
           NEW c \in left, c \in Entries, Parent[c] = d, NEW depth \in Nat,
           NEW v, ChildIs(v, w, c, depth)
    PROVE  Orderly(v) /\ Aside(v, d, left \ {c})
<1>1. w \in Walks /\ v \in Walks
  BY DEF Orderly, ChildIs
<1>2. /\ \A i \in 1..Len(v.queue) :
           \/ i \in 1..Len(w.queue) /\ v.queue[i][1] = w.queue[i][1]
           \/ i = Len(w.queue) + 1 /\ v.queue[i][1] = c
      /\ \A k \in 1..Len(v.found) :
           \/ k \in 1..Len(w.found) /\ v.found[k] = w.found[k]
           \/ k = Len(w.found) + 1 /\ v.found[k] = c /\ v.found = Append(w.found, c)
      /\ Len(w.found) \in Nat /\ Len(v.found) \in {Len(w.found), Len(w.found) + 1}
      /\ v.found = Append(w.found, c) => Len(v.found) = Len(w.found) + 1
  <2>1. /\ \A i \in 1..Len(v.queue) :
             \/ i \in 1..Len(w.queue) /\ v.queue[i] = w.queue[i]
             \/ i = Len(w.queue) + 1 /\ v.queue[i] = <<c, depth + 1>>
        /\ \A k \in 1..Len(v.found) :
             \/ k \in 1..Len(w.found) /\ v.found[k] = w.found[k]
             \/ k = Len(w.found) + 1 /\ v.found[k] = c /\ v.found = Append(w.found, c)
        /\ Len(w.found) \in Nat /\ Len(v.found) \in {Len(w.found), Len(w.found) + 1}
        /\ v.found = Append(w.found, c) => Len(v.found) = Len(w.found) + 1
    BY <1>1, ChildPlaces
  <2>2. <<c, depth + 1>>[1] = c
    OBVIOUS
  <2> QED BY ONLY <2>1, <2>2
<1>3. /\ Above[c] = {c} \cup Above[d] /\ c \notin Above[d] /\ d \in Above[c]
      /\ \A i \in 1..Len(w.queue) :
          c \notin Above[w.queue[i][1]] /\ w.queue[i][1] \notin Above[c] /\ w.queue[i][1] \in Entries
      /\ \A k \in 1..Len(w.found) : w.found[k] # c /\ c \notin Above[Parent[w.found[k]]]
  BY ChildIsApart
<1>4. \A j, k \in 1..Len(v.found) : v.found[j] = v.found[k] => j = k
  <2>1. \A j, k \in 1..Len(w.found) : w.found[j] = w.found[k] => j = k
    BY DEF Orderly
  <2>2. ASSUME NEW j \in 1..Len(v.found), NEW k \in 1..Len(v.found), v.found[j] = v.found[k] PROVE j = k
    <3>1. \/ j \in 1..Len(w.found) /\ v.found[j] = w.found[j]
          \/ j = Len(w.found) + 1 /\ v.found[j] = c
      BY ONLY <1>2
    <3>2. \/ k \in 1..Len(w.found) /\ v.found[k] = w.found[k]
          \/ k = Len(w.found) + 1 /\ v.found[k] = c
      BY ONLY <1>2
    <3>3. \A i \in 1..Len(w.found) : w.found[i] # c
      BY ONLY <1>3
    <3> QED BY ONLY <2>1, <2>2, <3>1, <3>2, <3>3
  <2> QED BY ONLY <2>2
<1>5. \A i, j \in 1..Len(v.queue) : i # j => v.queue[i][1] \notin Above[v.queue[j][1]]
  <2>1. \A i, j \in 1..Len(w.queue) : i # j => w.queue[i][1] \notin Above[w.queue[j][1]]
    BY DEF Orderly
  <2>2. \A i \in 1..Len(w.queue) : c \notin Above[w.queue[i][1]] /\ w.queue[i][1] \notin Above[c]
    BY ONLY <1>3
  <2>3. ASSUME NEW i \in 1..Len(v.queue), NEW j \in 1..Len(v.queue), i # j
        PROVE  v.queue[i][1] \notin Above[v.queue[j][1]]
    <3>1. \/ i \in 1..Len(w.queue) /\ v.queue[i][1] = w.queue[i][1]
          \/ i = Len(w.queue) + 1 /\ v.queue[i][1] = c
      BY ONLY <1>2
    <3>2. \/ j \in 1..Len(w.queue) /\ v.queue[j][1] = w.queue[j][1]
          \/ j = Len(w.queue) + 1 /\ v.queue[j][1] = c
      BY ONLY <1>2
    <3> QED BY ONLY <2>1, <2>2, <2>3, <3>1, <3>2
  <2> QED BY ONLY <2>3
<1>6. \A k \in 1..Len(v.found) : Parent[v.found[k]] \in Entries
  BY <1>2 DEF Orderly
<1>7. \A k \in 1..Len(v.found), i \in 1..Len(v.queue) : v.queue[i][1] \notin Above[Parent[v.found[k]]]
  <2>1. \A i \in 1..Len(v.queue) : v.queue[i][1] \notin Above[d]
    BY <1>2, <1>3 DEF Aside
  <2>2. ASSUME NEW k \in 1..Len(w.found), NEW i \in 1..Len(v.queue)
        PROVE  v.queue[i][1] \notin Above[Parent[w.found[k]]]
    <3>1. \A j \in 1..Len(w.queue) : w.queue[j][1] \notin Above[Parent[w.found[k]]]
      BY DEF Orderly
    <3>2. c \notin Above[Parent[w.found[k]]]
      BY <1>3
    <3>3. (i \in 1..Len(w.queue) /\ v.queue[i][1] = w.queue[i][1]) \/ v.queue[i][1] = c
      BY <1>2
    <3> QED BY <3>1, <3>2, <3>3
  <2> QED BY <1>2, <2>1, <2>2
<1>8. v.tool = "overview" => \A k \in 1..Len(v.found) : v.found[k] \notin Secret
  <2>1. ASSUME v.tool = "overview", NEW k \in 1..Len(v.found) PROVE v.found[k] \notin Secret
    <3>1. w.tool = "overview" /\ w.tool # "search"
      BY <2>1 DEF ChildIs
    <3>2. CASE k \in 1..Len(w.found) /\ v.found[k] = w.found[k]
      BY <3>1, <3>2 DEF Orderly
    <3>3. CASE k = Len(w.found) + 1 /\ v.found[k] = c /\ v.found = Append(w.found, c)
      <4>1. v.found # w.found
        BY <1>2, <3>3
      <4>2. Wanted(w, c)
        BY <4>1 DEF ChildIs
      <4> QED BY <3>1, <3>3, <4>2 DEF Wanted
    <3> QED BY <1>2, <3>2, <3>3
  <2> QED BY <2>1
<1>9. Most(v) = Most(w) /\ Most(v) \in Nat \ {0}
  BY LimitsAre DEF Most, ChildIs
<1>10. Len(v.found) <= Most(v) /\ (~v.stop => Len(v.found) < Most(v))
  <2>1. Len(w.found) <= Most(w) /\ (~w.stop => Len(w.found) < Most(w))
    BY DEF Orderly
  <2>2. \/ v.found = w.found /\ (v.stop <=> w.stop)
        \/ v.found = Append(w.found, c) /\ ~w.stop /\ (v.stop <=> Len(w.found) + 1 >= Most(w))
    BY DEF ChildIs
  <2> QED BY <1>2, <1>9, <2>1, <2>2
<1>11. v.stop => v.queue = <<>> /\ v.truncated
  BY DEF ChildIs
<1>12. Aside(v, d, left \ {c})
  <2>1. \A i \in 1..Len(v.queue) :
         /\ v.queue[i][1] \notin Above[d]
         /\ d \in Above[v.queue[i][1]] => Parent[v.queue[i][1]] = d /\ v.queue[i][1] \notin left \ {c}
    BY <1>2, <1>3 DEF Aside
  <2>2. \A k \in 1..Len(v.found) :
         d \in Above[Parent[v.found[k]]] => Parent[v.found[k]] = d /\ v.found[k] \notin left \ {c}
    BY <1>2 DEF Aside
  <2> QED BY <2>1, <2>2 DEF Aside
<1> QED BY <1>1, <1>4, <1>5, <1>6, <1>7, <1>8, <1>10, <1>11, <1>12 DEF Orderly

\* A child that is entered is in reach, and one deeper.
LEMMA EnteredIsInReach ==
    ASSUME NEW w, w.root \in Entries, NEW d \in Entries \ Unreadable, InReach(w, d), NEW c \in Entries,
           Parent[c] = d, Entered(w, c, Depth(w.root, d))
    PROVE  InReach(w, c) /\ Depth(w.root, c) = Depth(w.root, d) + 1
<1>1. /\ w.root \in Above[c] /\ Depth(w.root, c) = Depth(w.root, d) + 1
      /\ Above[c] \ Above[w.root] = {c} \cup (Above[d] \ Above[w.root])
  BY Deeper DEF InReach
<1>2. Cardinality(Above[c] \ Above[w.root]) <= limits.depth
  BY <1>1 DEF Entered, Depth
<1>3. \A p \in Above[c] \ Above[w.root] :
        /\ kind[p] = "directory" /\ p \notin Skipped /\ (w.tool = "overview" => p \notin Secret)
        /\ Parent[p] \notin Unreadable
  BY <1>1 DEF Entered, InReach
<1> QED BY <1>1, <1>2, <1>3 DEF InReach

\* What lies between a directory in reach and the root is entered.
LEMMA InReachIsEntered ==
    ASSUME limits \in Policies, NEW w, w.root \in Entries, NEW e \in Entries, InReach(w, e),
           NEW d \in Entries, w.root \in Above[d], NEW c \in Above[e], Parent[c] = d
    PROVE  Entered(w, c, Depth(w.root, d))
<1>1. c \in Entries /\ Depth(w.root, c) <= Depth(w.root, e)
      /\ Depth(w.root, c) \in Nat /\ Depth(w.root, e) \in Nat
  BY OnTheWay
<1>2. Depth(w.root, c) = Depth(w.root, d) + 1 /\ Depth(w.root, d) \in Nat /\ c \notin Above[d]
  BY <1>1, Deeper
<1>3. Above[w.root] \subseteq Above[d]
  BY ForestFacts DEF Upright
<1>4. c \in Above[e] \ Above[w.root]
  BY <1>2, <1>3
<1>5. Depth(w.root, e) <= limits.depth
  BY DEF InReach, Depth
<1>6. Depth(w.root, d) + 1 <= limits.depth
  BY <1>1, <1>2, <1>5, LimitsAre
<1> QED BY <1>4, <1>6 DEF InReach, Entered

\* The directories that wait are different ones, and there is one more.
LEMMA QueueIsShort ==
    ASSUME NEW w, Orderly(w), NEW d \in Directories, NEW left, Aside(w, d, left),
           \A i \in 1..Len(w.queue) : kind[w.queue[i][1]] = "directory"
    PROVE  Len(w.queue) < Cardinality(Directories)
<1> DEFINE n == Len(w.queue)
           others == Directories \ {d}
           f == [i \in 1..n |-> w.queue[i][1]]
<1>1. w \in Walks /\ n \in Nat
  BY WalkIs DEF Orderly
<1>2. d \in Entries /\ d \in Above[d]
  BY AboveIs DEF Directories
<1>3. \A i \in 1..n : w.queue[i][1] \in Entries /\ w.queue[i][1] \in Above[w.queue[i][1]]
  BY <1>1, WalkIs, AboveIs
<1>4. \A i \in 1..n : f[i] = w.queue[i][1] /\ f[i] \in others
  BY <1>2, <1>3 DEF Directories, Aside
<1>5. \A i, j \in 1..n : f[i] = f[j] => i = j
  BY <1>3, <1>4 DEF Orderly
<1>6. f \in [1..n -> others]
  <2> HIDE DEF n, others
  <2> QED BY <1>4
<1>7. IsFiniteSet(Directories)
  BY FilesAssumption, FS_Subset DEF Directories
<1>8. IsFiniteSet(others) /\ Cardinality(others) = Cardinality(Directories) - 1 /\ Cardinality(Directories) \in Nat
  BY <1>7, FS_RemoveElement, FS_CardinalityType
<1> HIDE DEF f, others
<1>9. f \in Injection(1..n, others)
  BY <1>5, <1>6, Fun_IsInj
<1>10. Cardinality(1..n) <= Cardinality(others)
  BY <1>8, <1>9, FS_Injection
<1>11. Cardinality(1..n) = n
  BY <1>1, FS_Interval
<1> HIDE DEF n
<1>12. n < Cardinality(Directories)
  BY <1>1, <1>8, <1>10, <1>11
<1> QED BY <1>12 DEF n

LEMMA ReachedIs ==
    ASSUME NEW w, NEW e
    PROVE  e \in Reached(w) <=> /\ e \in Entries /\ There(e) /\ Parent[e] \in Entries \ Unreadable
                                /\ InReach(w, Parent[e])
BY DEF Reached

\* A child of a directory in reach keeps the walk sound.
LEMMA ChildSound ==
    ASSUME limits \in Policies, NEW w, Orderly(w), NEW d \in Directories, NEW left, Aside(w, d, left),
           Sound(w, left), InReach(w, d),
           NEW c \in left, c \in Entries, Parent[c] = d, There(c), d \notin Unreadable,
           NEW v, ChildIs(v, w, c, Depth(w.root, d))
    PROVE  Sound(v, left \ {c})
<1> DEFINE depth == Depth(w.root, d)
<1>1. w \in Walks /\ v \in Walks /\ w.root \in Entries /\ d \in Entries /\ w.root \in Above[d]
      /\ v.tool = w.tool /\ v.root = w.root /\ v.visited = w.visited /\ ChildIs(v, w, c, depth)
  BY WalkIs DEF Orderly, ChildIs, Directories, InReach
<1>2. Depth(w.root, c) = depth + 1 /\ depth \in Nat
  BY <1>1, Deeper
<1> HIDE DEF depth
<1>3. /\ \A i \in 1..Len(v.queue) :
           \/ i \in 1..Len(w.queue) /\ v.queue[i] = w.queue[i]
           \/ /\ i = Len(w.queue) + 1 /\ v.queue[i] = <<c, depth + 1>>
              /\ v.queue = Append(w.queue, <<c, depth + 1>>)
      /\ \A k \in 1..Len(v.found) :
           \/ k \in 1..Len(w.found) /\ v.found[k] = w.found[k]
           \/ k = Len(w.found) + 1 /\ v.found[k] = c /\ v.found = Append(w.found, c)
      /\ Len(w.found) \in Nat /\ Len(v.found) \in {Len(w.found), Len(w.found) + 1}
      /\ v.found = Append(w.found, c) => Len(v.found) = Len(w.found) + 1 /\ v.found[Len(w.found) + 1] = c
      /\ \A k \in 1..Len(w.found) : k \in 1..Len(v.found) /\ v.found[k] = w.found[k]
      /\ v.queue # <<>> => \A i \in 1..Len(w.queue) : i \in 1..Len(v.queue) /\ v.queue[i] = w.queue[i]
  BY <1>1, <1>2, ChildPlaces
<1>4. \A e : /\ InReach(v, e) <=> InReach(w, e)
             /\ e \in Reached(v) <=> e \in Reached(w)
             /\ Wanted(v, e) <=> Wanted(w, e)
  <2>1. \A e : InReach(v, e) <=> InReach(w, e)
    BY <1>1 DEF InReach
  <2>2. \A e : e \in Reached(v) <=> e \in Reached(w)
    BY <2>1, ReachedIs
  <2>3. \A e : Wanted(v, e) <=> Wanted(w, e)
    BY <1>1 DEF Wanted
  <2> QED BY <2>1, <2>2, <2>3
<1>5. ASSUME NEW i \in 1..Len(v.queue)
      PROVE  /\ InReach(v, v.queue[i][1]) /\ There(v.queue[i][1]) /\ kind[v.queue[i][1]] = "directory"
             /\ v.queue[i][2] = Depth(v.root, v.queue[i][1])
  <2>1. CASE i \in 1..Len(w.queue) /\ v.queue[i] = w.queue[i]
    BY <1>1, <1>4, <2>1 DEF Sound
  <2>2. CASE v.queue[i] = <<c, depth + 1>> /\ i = Len(w.queue) + 1 /\ v.queue = Append(w.queue, <<c, depth + 1>>)
    <3>1. Entered(w, c, depth)
      <4>1. v.queue # w.queue /\ v.queue # <<>>
        <5>1. Len(w.queue) \in Nat /\ w.queue \in Seq(Entries \X Nat)
          BY <1>1, WalkIs
        <5>2. <<c, depth + 1>> \in Entries \X Nat
          BY <1>2
        <5> HIDE DEF ChildIs
        <5>3. Len(v.queue) = Len(w.queue) + 1
          BY <2>2, <5>1, <5>2
        <5> QED BY <5>1, <5>3
      <4> QED BY <1>1, <4>1 DEF ChildIs
    <3>2. InReach(w, c) /\ kind[c] = "directory"
      BY <1>1, <3>1, EnteredIsInReach DEF depth, Entered
    <3>3. v.queue[i][1] = c /\ v.queue[i][2] = depth + 1
      BY <2>2
    <3> QED BY <1>1, <1>2, <1>4, <3>2, <3>3
  <2> QED BY <1>3, <2>1, <2>2
<1>6. ASSUME NEW k \in 1..Len(v.found)
      PROVE  v.found[k] \in Reached(v) /\ Wanted(v, v.found[k])
  <2>1. CASE k \in 1..Len(w.found) /\ v.found[k] = w.found[k]
    BY <1>4, <2>1 DEF Sound
  <2>2. CASE k = Len(w.found) + 1 /\ v.found[k] = c /\ v.found = Append(w.found, c)
    <3>1. v.found # w.found
      BY <1>3, <2>2
    <3>2. Wanted(w, c)
      BY <1>1, <3>1 DEF ChildIs
    <3>3. c \in Reached(w)
      BY <1>1, ReachedIs
    <3> QED BY <1>4, <2>2, <3>2, <3>3
  <2> QED BY <1>3, <2>1, <2>2
<1>7. ASSUME ~v.truncated, NEW e \in Reached(v), Wanted(v, e)
      PROVE  \/ \E k \in 1..Len(v.found) : v.found[k] = e
             \/ \E i \in 1..Len(v.queue) : v.queue[i][1] \in Above[Parent[e]]
             \/ \E b \in left \ {c} : b \in Above[e]
  <2>1. ~w.truncated /\ ~w.stop /\ ~v.stop
    BY <1>1, <1>7 DEF ChildIs, Orderly
  <2>2. v.queue = Append(w.queue, <<c, depth + 1>>) \/ (v.queue = w.queue /\ ~Entered(w, c, depth))
    BY <1>1, <1>7, <2>1 DEF ChildIs
  <2>3. \A i \in 1..Len(w.queue) : i \in 1..Len(v.queue) /\ v.queue[i] = w.queue[i]
    BY <1>3, <2>2, <2>1
  <2>4. e \in Reached(w) /\ Wanted(w, e)
    BY <1>4, <1>7
  <2>5. CASE \E k \in 1..Len(w.found) : w.found[k] = e
    BY <1>3, <2>5
  <2>6. CASE \E i \in 1..Len(w.queue) : w.queue[i][1] \in Above[Parent[e]]
    BY <2>3, <2>6
  <2>7. CASE \E b \in left : b \in Above[e]
    <3>1. PICK b \in left : b \in Above[e]
      BY <2>7
    <3>2. CASE b # c
      BY <3>1, <3>2
    <3>3. CASE b = c /\ c = e
      <4>1. v.found = Append(w.found, c)
        BY <1>1, <2>1, <2>4, <3>3 DEF ChildIs
      <4>2. Len(w.found) + 1 \in 1..Len(v.found) /\ v.found[Len(w.found) + 1] = c
        BY <1>3, <4>1
      <4> QED BY <3>3, <4>2
    <3>4. CASE b = c /\ c # e
      <4>1. e \in Entries /\ Parent[e] \in Entries /\ InReach(w, Parent[e])
        BY <2>4, ReachedIs
      <4>2. c \in Above[Parent[e]]
        BY <3>1, <3>4, <4>1, AboveIs
      <4>3. Entered(w, c, depth)
        BY <1>1, <4>1, <4>2, InReachIsEntered DEF depth
      <4>4. v.queue = Append(w.queue, <<c, depth + 1>>)
        BY <2>2, <4>3
      <4>5. Len(w.queue) + 1 \in 1..Len(v.queue) /\ v.queue[Len(w.queue) + 1] = <<c, depth + 1>>
        <5>1. Len(w.queue) \in Nat /\ w.queue \in Seq(Entries \X Nat)
          BY <1>1, WalkIs
        <5>2. <<c, depth + 1>> \in Entries \X Nat
          BY <1>2
        <5> QED BY <4>4, <5>1, <5>2
      <4>6. v.queue[Len(w.queue) + 1][1] = c
        BY <4>5
      <4> QED BY <4>2, <4>5, <4>6
    <3> QED BY <3>2, <3>3, <3>4
  <2> QED BY <2>1, <2>4, <2>5, <2>6, <2>7 DEF Sound
<1>8. ASSUME v.tool = "search", v.truncated
      PROVE  \/ Len(v.found) = limits.matches
             \/ v.visited > limits.visits
             \/ limits.queue < Cardinality(Directories)
  <2>1. CASE w.truncated /\ v.found = w.found
    BY <1>1, <1>8, <2>1 DEF Sound
  <2>2. CASE w.truncated /\ v.found # w.found
    <3>1. ~w.stop
      BY <1>1, <2>2 DEF ChildIs
    <3>2. Most(w) = limits.matches
      BY <1>1, <1>8 DEF Most
    <3>3. Len(w.found) < limits.matches
      BY <3>1, <3>2 DEF Orderly
    <3>4. ~(Len(w.found) = limits.matches)
      BY <1>3, <3>3, LimitsAre
    <3> QED BY <1>1, <1>8, <2>2, <3>4 DEF Sound
  <2>3. CASE ~w.truncated /\ v.stop
    <3>1. ~w.stop
      BY <2>3 DEF Orderly
    <3>2. v.found = Append(w.found, c) /\ Len(w.found) + 1 >= Most(w)
      BY <1>1, <2>3, <3>1 DEF ChildIs
    <3>3. Most(w) = limits.matches /\ Len(w.found) < Most(w)
      BY <1>1, <1>8, <3>1 DEF Most, Orderly
    <3> QED BY <1>3, <3>2, <3>3, LimitsAre
  <2>4. CASE ~w.truncated /\ ~v.stop
    <3>1. Len(w.queue) >= limits.queue
      BY <1>1, <1>8, <2>4 DEF ChildIs
    <3>2. Len(w.queue) < Cardinality(Directories)
      BY QueueIsShort DEF Sound
    <3>3. Len(w.queue) \in Nat /\ Cardinality(Directories) \in Nat
      <4>1. IsFiniteSet(Directories)
        BY FilesAssumption, FS_Subset DEF Directories
      <4> QED BY <1>1, <4>1, WalkIs, FS_CardinalityType
    <3> QED BY <3>1, <3>2, <3>3, LimitsAre
  <2> QED BY <2>1, <2>2, <2>3, <2>4
<1> QED BY <1>5, <1>6, <1>7, <1>8 DEF Sound
-----------------------------------------------------------------------------
(* Files: one directory.                                                   *)

\* Looking at the children of d, one after the other.
LEMMA ChildrenKeep ==
    ASSUME limits \in Policies, NEW w, Orderly(w), NEW d \in Entries, NEW S, Aside(w, d, S),
           NEW s, Lists(s, S), \A c \in S : c \in Entries /\ Parent[c] = d, NEW depth \in Nat
    PROVE  LET v == AfterAll(w, s, depth)
           IN  /\ Orderly(v) /\ v.tool = w.tool /\ v.root = w.root /\ v.stage = w.stage
               /\ Sound(w, S) /\ InReach(w, d) /\ d \in Directories /\ (\A c \in S : There(c))
                  /\ (S # {} => d \notin Unreadable) /\ depth = Depth(w.root, d)
                    => Sound(v, {})
<1> DEFINE n == Len(s)
           left == [k \in 0..n |-> {s[i] : i \in (k + 1)..n}]
           calmly == /\ Sound(w, S) /\ InReach(w, d) /\ d \in Directories /\ (\A c \in S : There(c))
                     /\ (S # {} => d \notin Unreadable) /\ depth = Depth(w.root, d)
<1>1. /\ s \in Seq(S) /\ n \in Nat /\ \A i \in 1..n : s[i] \in S
      /\ \A i, j \in 1..n : s[i] = s[j] => i = j
      /\ \A e \in S : \E i \in 1..n : s[i] = e
  <2>1. Lists(s, S)
    OBVIOUS
  <2> QED BY ONLY <2>1, ListFacts
<1>2. PICK h : /\ h[0] = w /\ \A k \in 1..n : h[k] = AfterChild(h[k - 1], s[k], depth)
               /\ AfterAll(w, s, depth) = h[n]
  <2>1. \E h : StepByStep(h, w, s, depth)
    <3>1. s \in Seq(S)
      BY <1>1
    <3> HIDE DEF n, left, calmly
    <3> QED BY ONLY <3>1, AfterAllIs
  <2> QED BY <2>1 DEF StepByStep
<1>3. left[0] = S /\ left[n] = {}
  <2> HIDE DEF n
  <2>1. left[0] = {s[i] : i \in 1..n} /\ left[n] = {s[i] : i \in (n + 1)..n}
    BY <1>1
  <2>2. (n + 1)..n = {}
    BY <1>1
  <2> QED BY <1>1, <2>1, <2>2
<1>4. ASSUME NEW k \in 1..n PROVE s[k] \in left[k - 1] /\ left[k] = left[k - 1] \ {s[k]}
  <2> HIDE DEF n
  <2>1. k - 1 \in 0..n /\ k \in 0..n /\ (k - 1) + 1 = k /\ k \in k..n /\ k..n \subseteq 1..n
    BY <1>1
  <2>2. left[k - 1] = {s[i] : i \in k..n} /\ left[k] = {s[i] : i \in (k + 1)..n}
    BY <2>1
  <2>3. \A i \in 1..n : i \in (k + 1)..n <=> i \in k..n /\ i # k
    BY <1>1
  <2>4. (k + 1)..n \subseteq k..n
    BY <1>1
  <2> HIDE DEF left
  <2>5. s[k] \in left[k - 1]
    BY <2>1, <2>2
  <2>6. \A x \in left[k] : x \in left[k - 1] /\ x # s[k]
    BY <1>1, <2>1, <2>2, <2>3, <2>4
  <2>7. \A x \in left[k - 1] : x # s[k] => x \in left[k]
    BY <1>1, <2>1, <2>2, <2>3
  <2> QED BY <2>5, <2>6, <2>7
<1> HIDE DEF n, left, calmly
<1> DEFINE P == {k \in 0..n : /\ Orderly(h[k]) /\ Aside(h[k], d, left[k])
                              /\ h[k].tool = w.tool /\ h[k].root = w.root /\ h[k].stage = w.stage
                              /\ calmly => Sound(h[k], left[k])}
<1>5. 0 \in P
  BY <1>1, <1>2, <1>3 DEF calmly
<1>6. ASSUME NEW k \in 1..n, k - 1 \in P PROVE k \in P
  <2> DEFINE u == h[k - 1]
             v == h[k]
             c == s[k]
  <2>1. /\ Orderly(u) /\ Aside(u, d, left[k - 1]) /\ u.tool = w.tool /\ u.root = w.root /\ u.stage = w.stage
        /\ calmly => Sound(u, left[k - 1])
    BY <1>6
  <2>2. v = AfterChild(u, c, depth)
    BY <1>2
  <2>3. c \in left[k - 1] /\ left[k] = left[k - 1] \ {c} /\ c \in S
    BY <1>1, <1>4
  <2> HIDE DEF u, v, c, P
  <2>4. c \in Entries /\ Parent[c] = d
    BY <2>3
  <2>5. ChildIs(v, u, c, depth)
    BY <2>1, <2>2, <2>4, AfterChildIs DEF Orderly
  <2>6. Orderly(v) /\ Aside(v, d, left[k])
    BY <2>1, <2>3, <2>4, <2>5, ChildOrderly
  <2>7. ASSUME calmly PROVE Sound(v, left[k])
    <3>1. There(c) /\ d \in Directories /\ InReach(u, d) /\ depth = Depth(u.root, d) /\ d \notin Unreadable
      BY <2>1, <2>3, <2>7 DEF calmly, InReach
    <3>2. ChildIs(v, u, c, Depth(u.root, d))
      BY <2>5, <3>1
    <3> QED BY <2>1, <2>3, <2>4, <2>7, <3>1, <3>2, ChildSound
  <2>8. v.tool = w.tool /\ v.root = w.root /\ v.stage = w.stage
    BY <2>1, <2>5 DEF ChildIs
  <2>9. k \in 0..n
    BY <1>1
  <2> QED BY <2>6, <2>7, <2>8, <2>9 DEF P, v
<1> HIDE DEF P
<1>7. n \in P
  <2>1. \A k \in 0..n : k \in P
    BY <1>1, <1>5, <1>6, UpTo
  <2> QED BY <1>1, <2>1
<1> QED BY <1>2, <1>3, <1>7 DEF P, calmly

\* On the way down to an entry there is one inside each directory above it.
LEMMA WayDown ==
    ASSUME NEW e \in Entries, There(e), Parent[e] \in Entries, NEW d \in Above[Parent[e]]
    PROVE  \E c \in Inside(d) : c \in Above[e]
<1>1. Above[e] = {e} \cup Above[Parent[e]] /\ e \notin Above[Parent[e]] /\ Above[e] \subseteq Entries
  BY AboveIs
<1>2. Upright(e)
  BY ForestFacts
<1>3. PICK c \in Above[e] : Parent[c] = d
  BY <1>1, <1>2 DEF Upright
<1>4. There(c)
  <2>1. Above[c] \subseteq Above[e]
    BY <1>2 DEF Upright
  <2>2. c # e => e \notin Above[c]
    <3>1. c # e => c \in Above[Parent[e]]
      BY <1>1
    <3>2. \A b \in Above[Parent[e]] : Above[b] \subseteq Above[Parent[e]]
      BY ForestFacts DEF Upright
    <3> QED BY <1>1, <3>1, <3>2
  <2>3. \A b \in Above[c] : kind[b] # Gone /\ (b # c => kind[b] = "directory")
    <3>1. \A b \in Above[e] : kind[b] # Gone /\ (b # e => kind[b] = "directory")
      BY DEF There
    <3> QED BY <2>1, <2>2, <3>1
  <2> QED BY <2>3 DEF There
<1> QED BY <1>1, <1>3, <1>4 DEF Inside

\* So nothing in reach is below a directory that cannot be listed.
LEMMA ClosedHoldsNothing ==
    ASSUME NEW w, w.root \in Entries, NEW e \in Reached(w), NEW d \in Above[Parent[e]], w.root \in Above[d]
    PROVE  d \notin Unreadable
<1>1. e \in Entries /\ Parent[e] \in Entries \ Unreadable /\ InReach(w, Parent[e])
  BY ReachedIs
<1>2. CASE d = Parent[e]
  BY <1>1, <1>2
<1>3. CASE d # Parent[e]
  <2>1. PICK c \in Above[Parent[e]] : Parent[c] = d
    BY <1>1, <1>3, ForestFacts DEF Upright
  <2>2. c \in Entries /\ c \notin Above[d] /\ d \in Entries /\ d \in Above[c]
    BY <1>1, <2>1, AboveIs
  <2>3. Above[w.root] \subseteq Above[d]
    BY <2>2, ForestFacts DEF Upright
  <2> QED BY <1>1, <2>1, <2>2, <2>3 DEF InReach
<1> QED BY <1>2, <1>3

\* The walk at the next directory, before its children.
Turns(v, w, d, depth) ==
    /\ w.queue # <<>> /\ d = Head(w.queue)[1] /\ depth = Head(w.queue)[2]
    /\ v \in Walks /\ v.queue = Tail(w.queue) /\ v.visited = w.visited + 1 /\ v.tool = w.tool /\ v.root = w.root
    /\ v.stage = w.stage /\ v.found = w.found /\ v.truncated = w.truncated /\ v.stop = w.stop

LEMMA NextDirectory ==
    ASSUME limits \in Policies, NEW w, Orderly(w), NEW v, NEW d, NEW depth, Turns(v, w, d, depth),
           NEW S \in SUBSET Inside(d)
    PROVE  /\ d \in Entries /\ depth \in Nat /\ Orderly(v) /\ Aside(v, d, S)
           /\ Sound(w, {}) => /\ InReach(v, d) /\ There(d) /\ d \in Directories
                              /\ depth = Depth(v.root, d)
                              /\ S = Scanned(d) => Sound(v, S)
<1> DEFINE n == Len(w.queue)
<1>1. w \in Walks
  BY DEF Orderly
<1>2. v \in Walks /\ v.queue = Tail(w.queue) /\ v.visited = w.visited + 1 /\ v.tool = w.tool /\ v.root = w.root
      /\ v.stage = w.stage /\ v.found = w.found /\ v.truncated = w.truncated /\ v.stop = w.stop
      /\ w.queue # <<>> /\ d = Head(w.queue)[1] /\ depth = Head(w.queue)[2]
  BY DEF Turns
<1>3. /\ n \in Nat \ {0} /\ w.queue \in Seq(Entries \X Nat) /\ Head(w.queue) = w.queue[1] /\ 1 \in 1..n
      /\ Tail(w.queue) \in Seq(Entries \X Nat) /\ Len(Tail(w.queue)) = n - 1
      /\ \A i \in 1..(n - 1) : Tail(w.queue)[i] = w.queue[i + 1]
  <2>1. w.queue \in Seq(Entries \X Nat)
    BY <1>1, WalkIs
  <2> QED BY <1>2, <2>1
<1>4. d \in Entries /\ depth \in Nat /\ depth = w.queue[1][2] /\ d = w.queue[1][1]
  BY <1>1, <1>2, <1>3, WalkIs
<1> HIDE DEF n
<1>5. /\ Len(v.queue) = n - 1
      /\ \A i \in 1..Len(v.queue) : i + 1 \in 1..n /\ i + 1 # 1 /\ v.queue[i] = w.queue[i + 1]
      /\ \A i \in 1..n : i # 1 => i - 1 \in 1..Len(v.queue) /\ v.queue[i - 1] = w.queue[i]
  <2>1. Len(v.queue) = n - 1
    BY <1>3, <1>2
  <2>2. \A i \in 1..(n - 1) : i + 1 \in 1..n /\ i + 1 # 1 /\ v.queue[i] = w.queue[i + 1]
    BY <1>3, <1>2
  <2>3. \A i \in 1..n : i # 1 => i - 1 \in 1..(n - 1) /\ (i - 1) + 1 = i
    <3>1. n \in Nat
      BY <1>3
    <3> QED BY <3>1
  <2>4. \A i \in 1..n : i # 1 => v.queue[i - 1] = w.queue[i]
    BY <2>2, <2>3
  <2> QED BY <2>1, <2>2, <2>3, <2>4
<1>6. Orderly(v)
  <2>1. \A i, j \in 1..Len(v.queue) : i # j => v.queue[i][1] \notin Above[v.queue[j][1]]
    <3>1. ASSUME NEW i \in 1..Len(v.queue), NEW j \in 1..Len(v.queue), i # j
          PROVE  v.queue[i][1] \notin Above[v.queue[j][1]]
      <4>1. i + 1 \in 1..n /\ j + 1 \in 1..n /\ i + 1 # j + 1
        BY <1>3, <1>5, <3>1
      <4>2. w.queue[i + 1][1] \notin Above[w.queue[j + 1][1]]
        BY <4>1 DEF Orderly, n
      <4> QED BY <1>5, <4>2
    <3> QED BY <3>1
  <2>2. \A k \in 1..Len(v.found), i \in 1..Len(v.queue) : v.queue[i][1] \notin Above[Parent[v.found[k]]]
    BY <1>2, <1>5 DEF Orderly, n
  <2>3. v.stop => v.queue = <<>> /\ v.truncated
    BY <1>2 DEF Orderly
  <2>4. Most(v) = Most(w)
    BY <1>2 DEF Most
  <2> QED BY <1>2, <2>1, <2>2, <2>3, <2>4 DEF Orderly
<1>7. Aside(v, d, S)
  <2>1. \A i \in 1..Len(v.queue) : v.queue[i][1] \notin Above[d] /\ d \notin Above[v.queue[i][1]]
    <3>1. \A i, j \in 1..n : i # j => w.queue[i][1] \notin Above[w.queue[j][1]]
      BY DEF Orderly, n
    <3>2. ASSUME NEW i \in 1..Len(v.queue)
          PROVE  v.queue[i][1] \notin Above[d] /\ d \notin Above[v.queue[i][1]]
      <4>1. i + 1 \in 1..n /\ i + 1 # 1 /\ v.queue[i] = w.queue[i + 1] /\ 1 \in 1..n
        BY <1>3, <1>5
      <4>2. w.queue[i + 1][1] \notin Above[w.queue[1][1]] /\ w.queue[1][1] \notin Above[w.queue[i + 1][1]]
        BY <3>1, <4>1
      <4> QED BY <1>4, <4>1, <4>2
    <3> QED BY <3>2
  <2>2. \A k \in 1..Len(v.found) : d \notin Above[Parent[v.found[k]]]
    BY <1>3, <1>4, <1>2 DEF Orderly, n
  <2> QED BY <2>1, <2>2 DEF Aside
<1>8. ASSUME Sound(w, {})
      PROVE  /\ InReach(v, d) /\ There(d) /\ d \in Directories
             /\ depth = Depth(v.root, d)
             /\ S = Scanned(d) => Sound(v, S)
  <2>1. \A e : /\ InReach(v, e) <=> InReach(w, e)
               /\ e \in Reached(v) <=> e \in Reached(w)
               /\ Wanted(v, e) <=> Wanted(w, e)
    <3>1. \A e : InReach(v, e) <=> InReach(w, e)
      BY <1>2 DEF InReach
    <3>2. \A e : e \in Reached(v) <=> e \in Reached(w)
      BY <3>1, ReachedIs
    <3>3. \A e : Wanted(v, e) <=> Wanted(w, e)
      BY <1>2 DEF Wanted
    <3> QED BY <3>1, <3>2, <3>3
  <2>2. \A i \in 1..n : /\ InReach(w, w.queue[i][1]) /\ There(w.queue[i][1]) /\ kind[w.queue[i][1]] = "directory"
                        /\ w.queue[i][2] = Depth(w.root, w.queue[i][1])
    BY <1>8 DEF Sound, n
  <2>3. InReach(v, d) /\ There(d) /\ d \in Directories /\ depth = Depth(v.root, d)
    BY <1>3, <1>4, <1>2, <2>1, <2>2 DEF Directories
  <2>4. ASSUME S = Scanned(d) PROVE Sound(v, S)
    <3>1. \A i \in 1..Len(v.queue) :
            /\ InReach(v, v.queue[i][1]) /\ There(v.queue[i][1]) /\ kind[v.queue[i][1]] = "directory"
            /\ v.queue[i][2] = Depth(v.root, v.queue[i][1])
      BY <1>2, <1>5, <2>1, <2>2
    <3>2. \A k \in 1..Len(v.found) : v.found[k] \in Reached(v) /\ Wanted(v, v.found[k])
      BY <1>2, <1>8, <2>1 DEF Sound
    <3>3. ASSUME ~v.truncated, NEW e \in Reached(v), Wanted(v, e)
          PROVE  \/ \E k \in 1..Len(v.found) : v.found[k] = e
                 \/ \E i \in 1..Len(v.queue) : v.queue[i][1] \in Above[Parent[e]]
                 \/ \E c \in S : c \in Above[e]
      <4>1. ~w.truncated /\ e \in Reached(w) /\ Wanted(w, e)
        BY <1>2, <2>1, <3>3
      <4>2. CASE \E k \in 1..Len(w.found) : w.found[k] = e
        BY <1>2, <4>2
      <4>3. CASE \E i \in 1..n : w.queue[i][1] \in Above[Parent[e]]
        <5>1. PICK i \in 1..n : w.queue[i][1] \in Above[Parent[e]]
          BY <4>3
        <5>2. CASE i # 1
          BY <1>5, <5>1, <5>2
        <5>3. CASE i = 1
          <6>1. d \in Above[Parent[e]] /\ e \in Entries /\ There(e) /\ Parent[e] \in Entries
            BY <1>4, <4>1, <5>1, <5>3, ReachedIs
          <6>2. w.root \in Entries /\ w.root \in Above[d]
            BY <1>1, <2>1, <2>3, WalkIs DEF InReach
          <6>3. S = Inside(d)
            BY <2>3, <2>4, <4>1, <6>1, <6>2, ClosedHoldsNothing DEF Scanned
          <6> QED BY <6>1, <6>3, WayDown
        <5> QED BY <5>2, <5>3
      <4> QED BY <1>8, <4>1, <4>2, <4>3 DEF Sound, n
    <3>4. v.tool = "search" /\ v.truncated =>
            \/ Len(v.found) = limits.matches
            \/ v.visited > limits.visits
            \/ limits.queue < Cardinality(Directories)
      <4>1. w.visited \in Nat
        BY <1>1, WalkIs
      <4> QED BY <1>2, <1>8, <4>1, LimitsAre DEF Sound
    <3> QED BY <3>1, <3>2, <3>3, <3>4 DEF Sound
  <2> QED BY <2>3, <2>4
<1> QED BY <1>4, <1>2, <1>6, <1>7, <1>8
-----------------------------------------------------------------------------
(***************************************************************************)
(* Files, for any forest, policy and names: the file tools answer with     *)
(* what the disk holds.                                                    *)
(***************************************************************************)

NoAnswers == [tool : {Gone, "search", "overview", "list", "read", "repository"}, stage : {"idle", "refused"}]
Reads == [tool : {"read"}, stage : {"checked", "done"}, root : Entries, size : Nat, content : Nat]
Listings == [tool : {"list"}, stage : {"done"}, root : Entries, found : Seq(Entries), truncated : BOOLEAN]
Repositories == [tool : {"repository"}, stage : {"done"}, root : Entries, found : Seq(Entries)]

FilesTypes ==
    /\ limits \in Policies /\ calm \in BOOLEAN
    /\ kind \in [Entries -> EntryKinds \cup {Gone}] /\ size \in [Entries -> Nat]
    /\ job \in NoAnswers \cup Walks \cup Reads \cup Listings \cup Repositories

WalkIsRight ==
    job \in Walks => /\ Orderly(job) /\ (calm => Sound(job, {})) /\ IsAllowedPath(job.root)
                     /\ job.stage = "done" => job.queue = <<>>

ReadIsRight ==
    job \in Reads => /\ IsAllowedPath(job.root) /\ job.root \notin Secret /\ job.size <= MaxBytes
                     /\ calm => size[job.root] = job.size
                     /\ job.stage = "done" /\ calm => job.content = job.size

\* What keeps the answers right: each walk is orderly and, while the disk is
\* still, sound; a file that is read was checked; the others answer at once.
FilesInv == FilesTypes /\ WalkIsRight /\ ReadIsRight /\ ListingIsExact /\ OnlyWhatIsAllowed

LEMMA JobIs ==
    ASSUME FilesTypes
    PROVE  /\ job \in NoAnswers => job.stage \in {"idle", "refused"}
           /\ job \in Walks => job.tool \in {"search", "overview"} /\ job.stage \in {"walk", "done"}
           /\ job \in Reads => job.tool = "read" /\ job.stage \in {"checked", "done"}
           /\ job \in Listings => job.tool = "list" /\ job.stage = "done"
           /\ job \in Repositories => job.tool = "repository" /\ job.stage = "done"
           /\ job \in NoAnswers \/ job \in Walks \/ job \in Reads \/ job \in Listings \/ job \in Repositories
BY DEF FilesTypes, NoAnswers, Walks, Reads, Listings, Repositories

\* The same after a step.
LEMMA NextJobIs ==
    ASSUME FilesTypes'
    PROVE  /\ job' \in NoAnswers => job'.stage \in {"idle", "refused"}
           /\ job' \in Walks => job'.tool \in {"search", "overview"} /\ job'.stage \in {"walk", "done"}
           /\ job' \in Reads => job'.tool = "read" /\ job'.stage \in {"checked", "done"}
           /\ job' \in Listings => job'.tool = "list" /\ job'.stage = "done"
           /\ job' \in Repositories => job'.tool = "repository" /\ job'.stage = "done"
BY DEF FilesTypes, NoAnswers, Walks, Reads, Listings, Repositories

\* What a resolved path is.
LEMMA ResolvedIs ==
    ASSUME NEW path \in Entries, NEW wanted, ResolveSafePath(path, wanted) # Gone
    PROVE  LET e == ResolveSafePath(path, wanted)
           IN  e \in Entries /\ There(e) /\ IsAllowedPath(e) /\ kind[e] = wanted
BY FilesAssumption DEF ResolveSafePath

\* A step that refuses.
LEMMA RefusedIsRight ==
    ASSUME FilesInv, NEW tool \in {"search", "overview", "list", "read", "repository"}, RefusePath(tool),
           calm' \in BOOLEAN, UNCHANGED <<limits, kind, size>>
    PROVE  FilesInv'
<1>1. job' \in NoAnswers /\ job'.stage = "refused"
  BY DEF RefusePath, NoAnswers
<1>2. FilesTypes'
  BY <1>1 DEF FilesInv, FilesTypes
<1>3. job' \notin Walks /\ job' \notin Reads
  BY <1>1, <1>2, NextJobIs
<1>4. ListingIsExact' /\ OnlyWhatIsAllowed'
  BY <1>1 DEF ListingIsExact, OnlyWhatIsAllowed
<1> QED BY <1>2, <1>3, <1>4 DEF FilesInv, WalkIsRight, ReadIsRight

LEMMA FilesBegin == FilesInit => FilesInv
<1> SUFFICES ASSUME FilesInit PROVE FilesInv
  OBVIOUS
<1>1. job \in NoAnswers /\ job.stage = "idle"
  BY DEF FilesInit, NoJob, NoAnswers
<1>2. FilesTypes
  <2>1. size \in [Entries -> Nat]
    BY FilesAssumption DEF FilesInit
  <2>2. kind \in [Entries -> EntryKinds \cup {Gone}]
    BY FilesAssumption DEF FilesInit
  <2> QED BY <1>1, <2>1, <2>2 DEF FilesInit, FilesTypes
<1>3. job \notin Walks /\ job \notin Reads
  BY <1>1, <1>2, JobIs
<1>4. ListingIsExact /\ OnlyWhatIsAllowed
  BY <1>1 DEF ListingIsExact, OnlyWhatIsAllowed
<1> QED BY <1>2, <1>3, <1>4 DEF FilesInv, WalkIsRight, ReadIsRight

\* The first of a list, however cut.
LEMMA FirstOfFacts ==
    ASSUME NEW S, NEW s \in Seq(S), NEW n \in Nat
    PROVE  LET t == FirstOf(n, s)
           IN  /\ t \in Seq(S) /\ Len(t) = (IF Len(s) < n THEN Len(s) ELSE n) /\ Len(s) \in Nat
               /\ \A i \in 1..Len(t) : i \in 1..Len(s) /\ t[i] = s[i]
<1> DEFINE m == IF Len(s) < n THEN Len(s) ELSE n
<1>1. m \in 0..Len(s) /\ m \in Nat /\ Len(s) \in Nat
  OBVIOUS
<1>2. FirstOf(n, s) = SubSeq(s, 1, m)
  BY DEF FirstOf
<1> HIDE DEF m
<1>3. /\ SubSeq(s, 1, m) \in Seq(S) /\ Len(SubSeq(s, 1, m)) = m
      /\ \A i \in 1..m : i \in 1..Len(s) /\ SubSeq(s, 1, m)[i] = s[i]
  BY <1>1
<1> QED BY <1>1, <1>2, <1>3 DEF m

\* One list after another: the folders, then the rest.
Joined(all, s, A, B) ==
    /\ Lists(all, A \cup B) /\ Len(s) \in Nat
    /\ \A i \in 1..Len(s) : all[i] = s[i] /\ s[i] \in A
    /\ \A i \in 1..Len(all) : i \notin 1..Len(s) => all[i] \in B

LEMMA BothFacts ==
    ASSUME NEW A, NEW B, NEW s, Lists(s, A), NEW t, Lists(t, B), A \cap B = {}
    PROVE  Joined(s \o t, s, A, B)
<1>1. s \in Seq(A) /\ t \in Seq(B)
  BY DEF Lists
<1> DEFINE all == s \o t
           m == Len(s)
           n == Len(t)
<1>2. m \in Nat /\ n \in Nat /\ (\A i \in 1..m : s[i] \in A) /\ (\A i \in 1..n : t[i] \in B)
  BY <1>1
<1>3. /\ Len(all) = m + n /\ \A i \in 1..m : all[i] = s[i]
      /\ \A i \in 1..n : all[m + i] = t[i]
  BY <1>1
<1>4. s \in Seq(A \cup B) /\ t \in Seq(A \cup B)
  <2>1. \A i \in 1..m : s[i] \in A \cup B
    BY <1>2
  <2>2. \A i \in 1..n : t[i] \in A \cup B
    BY <1>2
  <2>3. s = [i \in 1..m |-> s[i]] /\ t = [i \in 1..n |-> t[i]]
    BY <1>1
  <2> HIDE DEF m, n
  <2>4. s \in [1..m -> A \cup B] /\ t \in [1..n -> A \cup B]
    BY <2>1, <2>2, <2>3
  <2> QED BY <1>2, <2>4
<1>5. all \in Seq(A \cup B)
  BY <1>4
<1> HIDE DEF all
<1>6. \A i \in 1..(m + n) : i \notin 1..m => i - m \in 1..n /\ all[i] = t[i - m]
  <2>1. \A i \in 1..(m + n) : i \notin 1..m => i - m \in 1..n /\ m + (i - m) = i
    BY <1>2
  <2> HIDE DEF m, n
  <2> QED BY <1>3, <2>1
<1> HIDE DEF m, n
<1>7. \A i, j \in 1..(m + n) : all[i] = all[j] => i = j
  <2>1. ASSUME NEW i \in 1..(m + n), NEW j \in 1..(m + n), all[i] = all[j] PROVE i = j
    <3>1. CASE i \in 1..m /\ j \in 1..m
      BY <1>3, <2>1, <3>1 DEF Lists, m
    <3>2. CASE i \in 1..m /\ j \notin 1..m
      BY <1>2, <1>3, <1>6, <2>1, <3>2
    <3>3. CASE i \notin 1..m /\ j \in 1..m
      BY <1>2, <1>3, <1>6, <2>1, <3>3
    <3>4. CASE i \notin 1..m /\ j \notin 1..m
      <4>1. i - m \in 1..n /\ j - m \in 1..n /\ t[i - m] = t[j - m]
        BY <1>6, <2>1, <3>4
      <4>2. i - m = j - m
        BY <4>1 DEF Lists, n
      <4> QED BY <1>2, <4>2
    <3> QED BY <3>1, <3>2, <3>3, <3>4
  <2> QED BY <2>1
<1>8. \A e \in A \cup B : \E i \in 1..(m + n) : all[i] = e
  <2>1. ASSUME NEW e \in A PROVE \E i \in 1..(m + n) : all[i] = e
    <3>1. PICK i \in 1..m : s[i] = e
      BY DEF Lists, m
    <3>2. i \in 1..(m + n) /\ all[i] = e
      BY <1>2, <1>3, <3>1
    <3> QED BY <3>2
  <2>2. ASSUME NEW e \in B PROVE \E i \in 1..(m + n) : all[i] = e
    <3>1. PICK i \in 1..n : t[i] = e
      BY DEF Lists, n
    <3>2. m + i \in 1..(m + n) /\ all[m + i] = e
      BY <1>2, <1>3, <3>1
    <3> QED BY <3>2
  <2> QED BY <2>1, <2>2
<1>9. \A i \in 1..Len(all) : i \notin 1..m => all[i] \in B
  BY <1>2, <1>3, <1>6
<1>10. Lists(all, A \cup B)
  BY <1>3, <1>5, <1>7, <1>8 DEF Lists
<1> QED BY <1>2, <1>3, <1>9, <1>10 DEF all, m, n, Joined

LEMMA ListDirectoryKeeps ==
    ASSUME FilesInv, NEW path \in Entries, ListDirectory(path)
    PROVE  FilesInv'
<1> DEFINE d == ResolveSafePath(path, "directory")
           folders == {e \in Inside(d) : kind[Target[e]] = "directory"}
           rest == Inside(d) \ folders
           s == Ascending(folders)
           others == Ascending(rest)
           all == s \o others
           n == limits.entries
           shown == FirstOf(n, all)
<1>1. /\ calm' = TRUE /\ UNCHANGED <<limits, kind, size>>
      /\ d = Gone \/ d \in Unreadable => RefusePath("list")
  BY DEF ListDirectory
<1>2. CASE d = Gone \/ d \in Unreadable
  BY <1>1, <1>2, RefusedIsRight
<1>3. CASE d # Gone /\ d \notin Unreadable
  <2>1. job' = [tool |-> "list", stage |-> "done", root |-> d, found |-> shown, truncated |-> Len(all) > n]
    BY <1>3 DEF ListDirectory
  <2>2. d \in Entries /\ IsAllowedPath(d)
    BY <1>3, ResolvedIs
  <2> HIDE DEF d
  <2>3. /\ IsFiniteSet(folders) /\ folders \in SUBSET Nat
        /\ IsFiniteSet(rest) /\ rest \in SUBSET Nat
        /\ Inside(d) = folders \cup rest /\ folders \cap rest = {} /\ Inside(d) \subseteq Entries
    <3>1. Inside(d) \in SUBSET Entries
      BY DEF Inside
    <3>2. folders \in SUBSET Entries /\ rest \in SUBSET Entries
      BY <3>1
    <3> HIDE DEF folders, rest
    <3>3. folders \in SUBSET Nat /\ rest \in SUBSET Nat /\ IsFiniteSet(folders) /\ IsFiniteSet(rest)
      BY <3>2, FilesAssumption, FS_Subset
    <3> QED BY <3>1, <3>3 DEF folders, rest
  <2>4. /\ \A e \in folders : kind[Target[e]] = "directory"
        /\ \A e \in rest : kind[Target[e]] # "directory"
    OBVIOUS
  <2> HIDE DEF folders, rest
  <2> DEFINE m == Len(s)
  <2>5. /\ Lists(s, folders) /\ Lists(others, rest)
        /\ \A i, j \in 1..m : i < j => s[i] < s[j]
    BY <2>3, AscendingFacts
  <2> HIDE DEF s, others
  <2>6. /\ Lists(all, folders \cup rest) /\ m \in Nat
        /\ \A i \in 1..m : all[i] = s[i] /\ s[i] \in folders
        /\ \A i \in 1..Len(all) : i \notin 1..m => all[i] \in rest
    <3>1. folders \cap rest = {} /\ Lists(s, folders) /\ Lists(others, rest)
      BY <2>3, <2>5
    <3> HIDE DEF all, m
    <3>2. Joined(s \o others, s, folders, rest)
      BY ONLY <3>1, BothFacts
    <3> QED BY <3>2 DEF all, m, Joined
  <2> HIDE DEF all, m
  <2>7. all \in Seq(Inside(d)) /\ Len(all) \in Nat /\ n \in Nat \ {0}
    BY <2>3, <2>6, LimitsAre DEF Lists, FilesInv, FilesTypes
  <2>8. /\ shown \in Seq(Inside(d)) /\ Len(shown) = (IF Len(all) < n THEN Len(all) ELSE n)
        /\ \A i \in 1..Len(shown) : i \in 1..Len(all) /\ shown[i] = all[i]
    BY <2>7, FirstOfFacts
  <2> HIDE DEF n, shown
  <2>9. shown \in Seq(Entries)
    <3>1. Inside(d) \subseteq Entries /\ Len(shown) \in Nat /\ shown \in [1..Len(shown) -> Inside(d)]
      BY <2>3, <2>8
    <3>2. shown \in [1..Len(shown) -> Entries]
      BY <3>1
    <3> QED BY <3>1, <3>2
  <2>10. job' \in Listings /\ job'.tool = "list" /\ job'.stage = "done" /\ job'.root = d /\ job'.found = shown
         /\ (job'.truncated <=> Len(all) > n)
    <3> DEFINE cut == Len(all) > n
    <3>1. cut \in BOOLEAN
      BY <2>7
    <3>2. job' = [tool |-> "list", stage |-> "done", root |-> d, found |-> shown, truncated |-> cut]
      BY <2>1
    <3> HIDE DEF cut
    <3> QED BY <2>2, <2>9, <3>1, <3>2 DEF Listings, cut
  <2>11. FilesTypes'
    BY <1>1, <2>10 DEF FilesInv, FilesTypes
  <2>12. job' \notin Walks /\ job' \notin Reads
    BY <2>10, <2>11, NextJobIs
  <2>13. Found' = {shown[i] : i \in 1..Len(shown)}
    <3>1. DOMAIN shown = 1..Len(shown)
      BY <2>9
    <3> QED BY <2>10, <3>1 DEF Found, ToSet
  <2>14. Found' \subseteq Inside(d) /\ Len(shown) <= n
    BY <2>7, <2>8, <2>13
  <2>15. ASSUME NEW f \in Inside(d), f \notin Found'
         PROVE  \E k \in 1..Len(all) : all[k] = f /\ \A i \in 1..Len(shown) : i < k
    <3>1. PICK k \in 1..Len(all) : all[k] = f
      BY <2>3, <2>6 DEF Lists
    <3>2. k \notin 1..Len(shown)
      BY <2>8, <2>13, <2>15, <3>1
    <3>3. \A i \in 1..Len(shown) : i < k
      BY <2>7, <2>8, <3>2
    <3> QED BY <3>1, <3>3
  <2>16. Len(all) > n <=> Found' # Inside(d)
    <3>1. ASSUME Len(all) > n PROVE Found' # Inside(d)
      <4>1. n + 1 \in 1..Len(all) /\ Len(shown) = n
        BY <2>7, <2>8, <3>1
      <4>2. all[n + 1] \in Inside(d)
        BY <2>7, <4>1
      <4>3. \A i \in 1..Len(shown) : shown[i] # all[n + 1]
        BY <2>6, <2>7, <2>8, <4>1 DEF Lists
      <4>4. all[n + 1] \notin Found'
        BY <2>13, <4>3
      <4> QED BY <4>2, <4>4
    <3>2. ASSUME ~(Len(all) > n) PROVE Found' = Inside(d)
      <4>1. Len(shown) = Len(all)
        BY <2>7, <2>8, <3>2
      <4>2. ASSUME NEW f \in Inside(d), f \notin Found' PROVE FALSE
        <5>1. PICK k \in 1..Len(all) : all[k] = f /\ \A i \in 1..Len(shown) : i < k
          BY <2>15, <4>2
        <5>2. k < k
          BY <4>1, <5>1
        <5> QED BY <2>7, <5>2
      <4> QED BY <2>14, <4>2
    <3> QED BY <3>1, <3>2
  <2>17. ASSUME NEW e \in Found', NEW f \in Inside(d) \ Found', kind[Target[f]] = "directory"
         PROVE  kind[Target[e]] = "directory" /\ e < f
    <3>1. PICK k \in 1..Len(all) : all[k] = f /\ \A i \in 1..Len(shown) : i < k
      BY <2>15
    <3>2. PICK i \in 1..Len(shown) : shown[i] = e
      BY <2>13
    <3>3. k \in 1..m
      BY <2>4, <2>6, <2>17, <3>1
    <3>4. i \in 1..Len(all) /\ i \in 1..m /\ i < k /\ all[i] = e
      BY <2>6, <2>7, <2>8, <3>1, <3>2, <3>3
    <3>5. e = s[i] /\ f = s[k] /\ e \in folders
      BY <2>6, <3>1, <3>3, <3>4
    <3>6. s[i] < s[k]
      BY <2>5, <3>3, <3>4 DEF s, m
    <3> QED BY <2>4, <3>5, <3>6
  <2>18. Inside(job.root)' = Inside(d)
    BY <1>1, <2>10 DEF Inside, There
  <2>19. ListingIsExact'
    BY <1>1, <1>3, <2>10, <2>14, <2>16, <2>17, <2>18 DEF ListingIsExact, n
  <2>20. OnlyWhatIsAllowed'
    BY <2>2, <2>10 DEF OnlyWhatIsAllowed, IsAllowedPath
  <2> QED BY <2>11, <2>12, <2>19, <2>20 DEF FilesInv, WalkIsRight, ReadIsRight
<1> QED BY <1>2, <1>3

\* A walk that was made right is so after the step.
LEMMA WalkAfter ==
    ASSUME UNCHANGED <<limits, kind>>, NEW w, job' = w, Orderly(w), calm' => Sound(w, {}),
           IsAllowedPath(w.root), w.stage = "done" => w.queue = <<>>
    PROVE  WalkIsRight'
<1>1. Orderly(job)'
  BY DEF Orderly, Most
<1>2. calm' => Sound(job, {})'
  <2> SUFFICES ASSUME calm' PROVE Sound(job, {})'
    OBVIOUS
  <2>1. Sound(w, {}) /\ job' = w /\ limits' = limits /\ kind' = kind
    OBVIOUS
  <2>2. \A e : There(e)' <=> There(e)
    BY <2>1 DEF There
  <2>3. \A e : InReach(job, e)' <=> InReach(w, e)
    BY <2>1 DEF InReach
  <2>4. \A e : (e \in Reached(job)') <=> e \in Reached(w)
    BY <2>1, <2>2, <2>3 DEF Reached
  <2>5. \A e : Wanted(job, e)' <=> Wanted(w, e)
    BY <2>1 DEF Wanted
  <2>6. Directories' = Directories
    BY <2>1 DEF Directories
  <2> QED BY <2>1, <2>2, <2>3, <2>4, <2>5, <2>6 DEF Sound
<1>3. IsAllowedPath(job.root)'
  BY DEF IsAllowedPath
<1> QED BY <1>1, <1>2, <1>3 DEF WalkIsRight

LEMMA BeginWalkKeeps ==
    ASSUME FilesInv, NEW path \in Entries, NEW tool \in {"search", "overview"}, BeginWalk(tool, path)
    PROVE  FilesInv'
<1> DEFINE d == ResolveSafePath(path, "directory")
           w == Walking(tool, d)
<1>1. calm' = TRUE /\ UNCHANGED <<limits, kind, size>> /\ (d = Gone => RefusePath(tool))
      /\ (d # Gone => job' = w)
  BY DEF BeginWalk
<1>2. CASE d = Gone
  BY <1>1, <1>2, RefusedIsRight
<1>3. CASE d # Gone
  <2>1. d \in Entries /\ There(d) /\ IsAllowedPath(d) /\ kind[d] = "directory"
    BY <1>3, ResolvedIs
  <2> DEFINE first == <<d, 0>>
  <2>2. w = [tool |-> tool, stage |-> "walk", root |-> d, queue |-> <<first>>, visited |-> 0,
             found |-> <<>>, protected |-> 0, truncated |-> FALSE, stop |-> FALSE]
    BY DEF Walking
  <2>3. first \in Entries \X Nat /\ first[1] = d /\ first[2] = 0
    BY <2>1
  <2> HIDE DEF d, first, w
  <2>4. /\ <<first>> \in Seq(Entries \X Nat) /\ Len(<<first>>) = 1 /\ <<first>>[1] = first
        /\ <<>> \in Seq(Entries) /\ Len(<<>>) = 0
    BY <2>3
  <2>5. w \in Walks /\ w.tool = tool /\ w.stage = "walk" /\ w.root = d /\ w.queue = <<first>> /\ w.found = <<>>
        /\ ~w.truncated /\ ~w.stop
    BY <2>1, <2>2, <2>4 DEF Walks
  <2>6. \A i \in 1..Len(w.queue) : i = 1 /\ w.queue[i][1] = d /\ w.queue[i][2] = 0
    BY <2>3, <2>4, <2>5
  <2>7. 1..Len(w.found) = {} /\ Len(w.found) = 0
    BY <2>4, <2>5
  <2>8. Orderly(w)
    <3>1. Most(w) \in Nat \ {0}
      BY LimitsAre DEF Most, FilesInv, FilesTypes
    <3> QED BY <2>5, <2>6, <2>7, <3>1 DEF Orderly
  <2>9. Sound(w, {})
    <3>1. d \in Above[d] /\ Above[d] \ Above[d] = {}
      BY <2>1, AboveIs
    <3>2. Depth(d, d) = 0
      BY <3>1, FS_EmptySet DEF Depth
    <3>3. limits.depth \in Nat \ {0}
      BY LimitsAre DEF FilesInv, FilesTypes
    <3>4. InReach(w, d)
      BY <2>5, <3>1, <3>2, <3>3 DEF InReach, Depth
    <3>5. \A i \in 1..Len(w.queue) :
            /\ InReach(w, w.queue[i][1]) /\ There(w.queue[i][1]) /\ kind[w.queue[i][1]] = "directory"
            /\ w.queue[i][2] = Depth(w.root, w.queue[i][1])
      BY <2>1, <2>5, <2>6, <3>2, <3>4
    <3>6. \A e \in Reached(w) : \E i \in 1..Len(w.queue) : w.queue[i][1] \in Above[Parent[e]]
      <4>1. \A e \in Reached(w) : d \in Above[Parent[e]]
        BY <2>5, ReachedIs DEF InReach
      <4>2. 1 \in 1..Len(w.queue) /\ w.queue[1][1] = d
        BY <2>3, <2>4, <2>5
      <4> QED BY <4>1, <4>2
    <3> QED BY <2>5, <2>7, <3>5, <3>6 DEF Sound
  <2>10. WalkIsRight'
    BY <1>1, <1>3, <2>1, <2>5, <2>8, <2>9, WalkAfter
  <2>11. FilesTypes'
    BY <1>1, <1>3, <2>5 DEF FilesInv, FilesTypes
  <2>12. job' \notin Reads
    BY <1>1, <1>3, <2>5, <2>11, NextJobIs
  <2>13. ListingIsExact' /\ OnlyWhatIsAllowed'
    BY <1>1, <1>3, <2>5 DEF ListingIsExact, OnlyWhatIsAllowed
  <2> QED BY <2>10, <2>11, <2>12, <2>13 DEF FilesInv, ReadIsRight
<1> QED BY <1>2, <1>3

LEMMA WalkDirectoryKeeps ==
    ASSUME FilesInv, WalkDirectory
    PROVE  FilesInv'
<1> DEFINE d == Head(job.queue)[1]
           depth == Head(job.queue)[2]
           next == [job EXCEPT !.queue = Tail(@), !.visited = @ + 1]
           inside == Scanned(d)
           over == job.tool = "search" /\ next.visited > limits.visits
           last == [next EXCEPT !.queue = <<>>, !.truncated = TRUE]
<1>1. /\ job.stage = "walk" /\ job.queue # <<>> /\ UNCHANGED <<limits, kind, size, calm>>
      /\ over => job' = last
      /\ ~over => \E children \in IF job.tool = "search" THEN SetToSeqs(inside) ELSE {Ascending(inside)} :
                      job' = AfterAll(next, children, depth)
  BY DEF WalkDirectory
<1>2. job \in Walks
  BY <1>1, JobIs DEF FilesInv
<1>3. Orderly(job) /\ (calm => Sound(job, {})) /\ IsAllowedPath(job.root) /\ limits \in Policies
  BY <1>2 DEF FilesInv, WalkIsRight, FilesTypes
<1>4. inside \in SUBSET Inside(d) /\ (inside # {} => d \notin Unreadable)
  BY DEF Scanned
<1> HIDE DEF inside
<1>5. next = [job EXCEPT !.queue = Tail(@), !.visited = @ + 1]
  OBVIOUS
<1> HIDE DEF next
<1> HIDE DEF d, depth
<1>6. /\ next \in Walks /\ next.queue = Tail(job.queue) /\ next.visited = job.visited + 1 /\ next.tool = job.tool
      /\ next.root = job.root /\ next.stage = job.stage /\ next.found = job.found
      /\ next.truncated = job.truncated /\ next.stop = job.stop
  <2>1. job.visited + 1 \in Nat /\ Tail(job.queue) \in Seq(Entries \X Nat)
    BY <1>1, <1>2, WalkIs
  <2> QED BY <1>2, <1>5, <2>1 DEF Walks
<1>7. /\ d \in Entries /\ depth \in Nat /\ Orderly(next) /\ Aside(next, d, inside)
      /\ calm => /\ InReach(next, d) /\ There(d) /\ d \in Directories /\ depth = Depth(next.root, d)
                 /\ inside = Scanned(d) => Sound(next, inside)
  <2>1. Turns(next, job, d, depth) /\ limits \in Policies /\ Orderly(job)
    BY <1>1, <1>3, <1>6 DEF Turns, d, depth
  <2>2. /\ d \in Entries /\ depth \in Nat /\ Orderly(next) /\ Aside(next, d, inside)
        /\ Sound(job, {}) => /\ InReach(next, d) /\ There(d) /\ d \in Directories
                             /\ depth = Depth(next.root, d)
                             /\ inside = Scanned(d) => Sound(next, inside)
    BY ONLY <1>4, <2>1, NextDirectory
  <2> QED BY <1>3, <2>2
<1>8. calm => Sound(next, inside)
  BY <1>6, <1>7 DEF inside
<1>9. \E w : job' = w /\ Orderly(w) /\ (calm => Sound(w, {})) /\ w.root = job.root /\ w.stage = "walk"
  <2>1. CASE over
    <3>1. next \in Walks
      BY <1>6, <1>7 DEF Orderly
    <3>2. <<>> \in Seq(Entries \X Nat) /\ Len(<<>>) = 0
      OBVIOUS
    <3>3. /\ last \in Walks /\ last.queue = <<>> /\ last.truncated /\ last.found = next.found /\ last.tool = next.tool
          /\ last.stop = next.stop /\ last.root = next.root /\ last.stage = next.stage /\ last.visited = next.visited
      BY <3>1, <3>2 DEF Walks
    <3>4. last.tool = "search" /\ last.visited > limits.visits /\ job' = last
      BY <1>1, <1>6, <1>7, <2>1, <3>3
    <3> HIDE DEF last, over
    <3>5. 1..Len(last.queue) = {}
      BY <3>2, <3>3
    <3>6. Orderly(last)
      BY <1>6, <1>7, <3>3, <3>5 DEF Orderly, Most
    <3>7. calm => Sound(last, {})
      <4>1. \A e : e \in Reached(last) <=> e \in Reached(next)
        BY <3>3 DEF Reached, InReach
      <4>2. calm => \A k \in 1..Len(last.found) : last.found[k] \in Reached(last) /\ Wanted(last, last.found[k])
        BY <1>8, <3>3, <4>1 DEF Sound, Wanted
      <4> QED BY <3>3, <3>4, <3>5, <4>2 DEF Sound
    <3> QED BY <1>1, <1>6, <1>7, <3>3, <3>4, <3>6, <3>7
  <2>2. CASE ~over
    <3>1. PICK children \in IF job.tool = "search" THEN SetToSeqs(inside) ELSE {Ascending(inside)} :
            job' = AfterAll(next, children, depth)
      BY <1>1, <2>2
    <3>2. inside \in SUBSET Entries /\ inside \in SUBSET Nat /\ IsFiniteSet(inside)
          /\ \A c \in inside : c \in Entries /\ Parent[c] = d /\ There(c)
      <4>1. inside \in SUBSET Entries /\ \A c \in inside : c \in Entries /\ Parent[c] = d /\ There(c)
        BY <1>4 DEF Inside
      <4> QED BY <4>1, FilesAssumption, FS_Subset
    <3>3. Lists(children, inside)
      BY <3>1, <3>2, InAnyOrder, AscendingFacts
    <3> DEFINE w == AfterAll(next, children, depth)
    <3>4. /\ Orderly(w) /\ w.root = next.root /\ w.stage = next.stage
          /\ Sound(next, inside) /\ InReach(next, d) /\ d \in Directories /\ (\A c \in inside : There(c))
             /\ (inside # {} => d \notin Unreadable) /\ depth = Depth(next.root, d)
               => Sound(w, {})
      <4>1. /\ limits \in Policies /\ Orderly(next) /\ d \in Entries /\ depth \in Nat /\ Aside(next, d, inside)
            /\ Lists(children, inside) /\ \A c \in inside : c \in Entries /\ Parent[c] = d
        BY <1>3, <1>6, <1>7, <3>2, <3>3
      <4> HIDE DEF w
      <4>2. LET v == AfterAll(next, children, depth)
            IN  /\ Orderly(v) /\ v.tool = next.tool /\ v.root = next.root /\ v.stage = next.stage
                /\ Sound(next, inside) /\ InReach(next, d) /\ d \in Directories /\ (\A c \in inside : There(c))
                   /\ (inside # {} => d \notin Unreadable) /\ depth = Depth(next.root, d)
                     => Sound(v, {})
        BY ONLY <4>1, ChildrenKeep
      <4> QED BY <4>2 DEF w
    <3>5. calm => Sound(w, {})
      BY <1>4, <1>6, <1>7, <1>8, <3>2, <3>4
    <3> QED BY <1>1, <1>6, <1>7, <3>1, <3>4, <3>5
  <2> QED BY <2>1, <2>2
<1>10. WalkIsRight' /\ job' \in Walks /\ job'.stage = "walk"
  BY <1>1, <1>3, <1>9, WalkAfter DEF Orderly
<1>11. FilesTypes'
  BY <1>1, <1>10 DEF FilesInv, FilesTypes
<1>12. job' \notin Reads
  BY <1>10, <1>11, NextJobIs
<1>13. ListingIsExact' /\ OnlyWhatIsAllowed'
  BY <1>10 DEF ListingIsExact, OnlyWhatIsAllowed
<1> QED BY <1>10, <1>11, <1>12, <1>13 DEF FilesInv, ReadIsRight

LEMMA EndWalkKeeps ==
    ASSUME FilesInv, EndWalk
    PROVE  FilesInv'
<1>1. job.stage = "walk" /\ job.queue = <<>> /\ job' = [job EXCEPT !.stage = "done"]
      /\ UNCHANGED <<limits, kind, size, calm>>
  BY DEF EndWalk
<1>2. job \in Walks
  BY <1>1, JobIs DEF FilesInv
<1>3. Orderly(job) /\ (calm => Sound(job, {})) /\ IsAllowedPath(job.root)
  BY <1>2 DEF FilesInv, WalkIsRight
<1> DEFINE w == [job EXCEPT !.stage = "done"]
<1>4. /\ w \in Walks /\ w.stage = "done" /\ w.tool = job.tool /\ w.root = job.root /\ w.queue = job.queue
      /\ w.visited = job.visited /\ w.found = job.found /\ w.truncated = job.truncated /\ w.stop = job.stop
  BY <1>2 DEF Walks
<1>5. job' = w
  BY <1>1
<1> HIDE DEF w
<1>6. Orderly(w)
  BY <1>3, <1>4 DEF Orderly, Most
<1>7. calm => Sound(w, {})
  <2>1. \A e : InReach(w, e) <=> InReach(job, e)
    BY <1>4 DEF InReach
  <2>2. \A e : e \in Reached(w) <=> e \in Reached(job)
    BY <2>1, ReachedIs
  <2>3. \A e : Wanted(w, e) <=> Wanted(job, e)
    BY <1>4 DEF Wanted
  <2> QED BY <1>3, <1>4, <2>1, <2>2, <2>3 DEF Sound
<1>8. WalkIsRight'
  BY <1>1, <1>3, <1>4, <1>5, <1>6, <1>7, WalkAfter
<1>9. FilesTypes'
  BY <1>1, <1>4, <1>5 DEF FilesInv, FilesTypes
<1>10. job' \notin Reads /\ job'.tool \in {"search", "overview"}
  BY <1>4, <1>5, <1>9, NextJobIs
<1>11. ListingIsExact' /\ OnlyWhatIsAllowed'
  BY <1>3, <1>4, <1>5, <1>10 DEF ListingIsExact, OnlyWhatIsAllowed, IsAllowedPath
<1> QED BY <1>8, <1>9, <1>10, <1>11 DEF FilesInv, ReadIsRight

LEMMA CheckFileKeeps ==
    ASSUME FilesInv, NEW path \in Entries, CheckFile(path)
    PROVE  FilesInv'
<1> DEFINE f == ResolveSafePath(path, "file")
<1>1. /\ calm' = TRUE /\ UNCHANGED <<limits, kind, size>>
      /\ \/ RefusePath("read")
         \/ /\ f # Gone /\ f \notin Secret /\ ~(size[f] > MaxBytes)
            /\ job' = [tool |-> "read", stage |-> "checked", root |-> f, size |-> size[f], content |-> 0]
  BY DEF CheckFile
<1>2. CASE RefusePath("read")
  BY <1>1, <1>2, RefusedIsRight
<1>3. CASE f # Gone /\ f \notin Secret /\ ~(size[f] > MaxBytes)
           /\ job' = [tool |-> "read", stage |-> "checked", root |-> f, size |-> size[f], content |-> 0]
  <2>1. f \in Entries /\ IsAllowedPath(f)
    BY <1>3, ResolvedIs
  <2> HIDE DEF f
  <2>2. size[f] \in Nat /\ size[f] <= MaxBytes
    <3>1. size[f] \in Nat
      BY <2>1 DEF FilesInv, FilesTypes
    <3>2. MaxBytes \in Nat
      BY FilesAssumption
    <3> QED BY <1>3, <3>1, <3>2
  <2>3. job' \in Reads /\ job'.stage = "checked" /\ job'.root = f /\ job'.size = size[f]
    BY <1>3, <2>1, <2>2 DEF Reads
  <2>4. FilesTypes'
    BY <1>1, <2>3 DEF FilesInv, FilesTypes
  <2>5. job' \notin Walks
    BY <2>3, <2>4, NextJobIs
  <2>6. ReadIsRight'
    BY <1>1, <1>3, <2>1, <2>2, <2>3 DEF ReadIsRight, IsAllowedPath
  <2>7. ListingIsExact' /\ OnlyWhatIsAllowed'
    BY <2>3 DEF ListingIsExact, OnlyWhatIsAllowed
  <2> QED BY <2>4, <2>5, <2>6, <2>7 DEF FilesInv, WalkIsRight
<1> QED BY <1>1, <1>2, <1>3

LEMMA ReadFileKeeps ==
    ASSUME FilesInv, ReadFile
    PROVE  FilesInv'
<1>1. /\ job.stage = "checked" /\ UNCHANGED <<limits, kind, size, calm>>
      /\ RefusePath("read") \/ job' = [job EXCEPT !.stage = "done", !.content = size[job.root]]
  BY DEF ReadFile
<1>2. CASE RefusePath("read")
  <2>1. calm' \in BOOLEAN
    BY <1>1 DEF FilesInv, FilesTypes
  <2> QED BY <1>1, <1>2, <2>1, RefusedIsRight
<1>3. CASE job' = [job EXCEPT !.stage = "done", !.content = size[job.root]]
  <2>1. job \in Reads
    BY <1>1, JobIs DEF FilesInv
  <2>2. /\ IsAllowedPath(job.root) /\ job.root \notin Secret /\ job.size <= MaxBytes
        /\ calm => size[job.root] = job.size
    BY <2>1 DEF FilesInv, ReadIsRight
  <2>3. size[job.root] \in Nat
    BY <2>1 DEF Reads, FilesInv, FilesTypes
  <2>4. job' \in Reads /\ job'.stage = "done" /\ job'.root = job.root /\ job'.size = job.size
        /\ job'.content = size[job.root]
    BY <1>3, <2>1, <2>3 DEF Reads
  <2>5. FilesTypes'
    BY <1>1, <2>4 DEF FilesInv, FilesTypes
  <2>6. job' \notin Walks /\ job'.tool = "read"
    BY <2>4, <2>5, NextJobIs
  <2>7. ReadIsRight'
    BY <1>1, <2>2, <2>4 DEF ReadIsRight, IsAllowedPath
  <2>8. ListingIsExact' /\ OnlyWhatIsAllowed'
    BY <1>1, <2>2, <2>4, <2>6 DEF ListingIsExact, OnlyWhatIsAllowed, IsAllowedPath
  <2> QED BY <2>5, <2>6, <2>7, <2>8 DEF FilesInv, WalkIsRight
<1> QED BY <1>1, <1>2, <1>3

\* Of the directories above one that hold a repository, one is the nearest.
LEMMA NearestIs ==
    ASSUME NEW d \in Entries, NEW held, held \in SUBSET Above[d], held # {}
    PROVE  \E r \in held : \A s \in held : s \in Above[r]
<1> DEFINE height == [e \in Entries |-> Cardinality(Above[e])]
           n == Cardinality(Above[d])
           heights == {height[e] : e \in held}
<1>1. \A e \in Entries : height[e] = Cardinality(Above[e]) /\ IsFiniteSet(Above[e]) /\ e \in Above[e]
  BY AboveIs
<1>2. n \in Nat /\ held \in SUBSET Entries /\ \A e \in held : Above[e] \subseteq Above[d]
  BY <1>1, AboveIs, ForestFacts, FS_CardinalityType DEF Upright
<1> HIDE DEF height
<1>3. ASSUME NEW e \in held PROVE height[e] \in 1..n
  <2>1. e \in Entries /\ Above[e] \in SUBSET Above[d] /\ IsFiniteSet(Above[d]) /\ e \in Above[e]
    BY <1>1, <1>2
  <2>2. Cardinality(Above[e]) <= n
    BY <2>1, FS_Subset
  <2>3. Cardinality(Above[e]) \in Nat /\ Cardinality(Above[e]) # 0
    BY <1>1, <2>1, FS_CardinalityType, FS_EmptySet
  <2> HIDE DEF n
  <2> QED BY <1>1, <1>2, <2>1, <2>2, <2>3
<1>4. heights \in SUBSET (1..n) /\ heights # {}
  BY <1>3
<1>5. PICK x \in heights : \A y \in heights : y <= x
  <2> HIDE DEF heights, n
  <2> QED BY <1>2, <1>4, LatestOf
<1>6. PICK r \in held : x = height[r]
  BY <1>5
<1>7. ASSUME NEW s \in held PROVE s \in Above[r]
  <2>1. s \in Entries /\ r \in Entries /\ s \in Above[d] /\ r \in Above[d] /\ height[s] <= height[r]
    BY <1>2, <1>5, <1>6
  <2>2. s \in Above[r] \/ r \in Above[s]
    BY <2>1, ForestFacts DEF Upright
  <2>3. CASE r \in Above[s]
    <3>1. Above[r] \in SUBSET Above[s] /\ IsFiniteSet(Above[s])
      BY <1>1, <2>1, <2>3, ForestFacts DEF Upright
    <3>2. Cardinality(Above[r]) <= Cardinality(Above[s])
          /\ (Cardinality(Above[s]) = Cardinality(Above[r]) => Above[s] = Above[r])
      BY <3>1, FS_Subset
    <3>3. Cardinality(Above[r]) \in Nat /\ Cardinality(Above[s]) \in Nat
          /\ Cardinality(Above[s]) <= Cardinality(Above[r])
      BY <1>1, <2>1, FS_CardinalityType
    <3>4. Above[s] = Above[r]
      BY <3>2, <3>3
    <3> QED BY <1>1, <2>1, <3>4
  <2> QED BY <2>2, <2>3
<1> QED BY <1>7

LEMMA RepositoryRootKeeps ==
    ASSUME FilesInv, NEW path \in Entries, RepositoryRoot(path)
    PROVE  FilesInv'
<1> DEFINE d == ResolveSafePath(path, "directory")
           held == Above[d] \cap Repository
           near == CHOOSE r \in held : \A s \in held : s \in Above[r]
<1>1. /\ calm' = TRUE /\ UNCHANGED <<limits, kind, size>>
      /\ \/ RefusePath("repository")
         \/ /\ d # Gone /\ held # {} /\ IsAllowedPath(near)
            /\ job' = [tool |-> "repository", stage |-> "done", root |-> d, found |-> <<near>>]
  BY DEF RepositoryRoot
<1>2. CASE RefusePath("repository")
  BY <1>1, <1>2, RefusedIsRight
<1>3. CASE d # Gone /\ held # {} /\ IsAllowedPath(near)
           /\ job' = [tool |-> "repository", stage |-> "done", root |-> d, found |-> <<near>>]
  <2>1. d \in Entries /\ IsAllowedPath(d)
    BY <1>3, ResolvedIs
  <2> HIDE DEF d
  <2>2. held \in SUBSET Above[d] /\ held \in SUBSET Repository
    OBVIOUS
  <2> HIDE DEF held
  <2>3. near \in held
    <3>1. \E r \in held : \A s \in held : s \in Above[r]
      BY <1>3, <2>1, <2>2, NearestIs
    <3> QED BY <3>1
  <2> HIDE DEF near
  <2>4. near \in Entries /\ near \in Above[d] /\ near \in Repository
    BY <2>1, <2>2, <2>3, AboveIs
  <2>5. <<near>> \in Seq(Entries) /\ ToSet(<<near>>) = {near}
    BY <2>4 DEF ToSet
  <2>6. job' \in Repositories /\ job'.stage = "done" /\ job'.root = d /\ job'.found = <<near>>
        /\ job'.tool = "repository"
    BY <1>3, <2>1, <2>5 DEF Repositories
  <2>7. FilesTypes'
    BY <1>1, <2>6 DEF FilesInv, FilesTypes
  <2>8. job' \notin Walks /\ job' \notin Reads
    BY <2>6, <2>7, NextJobIs
  <2>9. ListingIsExact'
    BY <2>6 DEF ListingIsExact
  <2>10. Found' = {near}
    BY <2>5, <2>6 DEF Found
  <2>11. OnlyWhatIsAllowed'
    BY <1>3, <2>1, <2>4, <2>6, <2>10 DEF OnlyWhatIsAllowed, IsAllowedPath
  <2> QED BY <2>7, <2>8, <2>9, <2>11 DEF FilesInv, WalkIsRight, ReadIsRight
<1> QED BY <1>1, <1>2, <1>3

LEMMA DiskChangesKeeps ==
    ASSUME FilesInv, DiskChanges
    PROVE  FilesInv'
<1>1. job.stage \in {"walk", "checked"} /\ calm' = FALSE /\ UNCHANGED <<limits, job>>
  BY DEF DiskChanges
<1>2. kind' \in [Entries -> EntryKinds \cup {Gone}] /\ size' \in [Entries -> Nat]
  <2>1. MaxBytes + 1 \in Nat
    BY FilesAssumption
  <2> QED BY <2>1 DEF DiskChanges, FilesInv, FilesTypes
<1>3. FilesTypes'
  BY <1>1, <1>2 DEF FilesInv, FilesTypes
<1>4. WalkIsRight'
  BY <1>1 DEF FilesInv, WalkIsRight, Orderly, Most, IsAllowedPath
<1>5. ReadIsRight'
  BY <1>1 DEF FilesInv, ReadIsRight, IsAllowedPath
<1>6. ListingIsExact' /\ OnlyWhatIsAllowed'
  BY <1>1 DEF ListingIsExact, OnlyWhatIsAllowed
<1> QED BY <1>3, <1>4, <1>5, <1>6 DEF FilesInv

LEMMA FilesStep == FilesInv /\ [FilesNext]_filesVars => FilesInv'
<1> SUFFICES ASSUME FilesInv, [FilesNext]_filesVars PROVE FilesInv'
  OBVIOUS
<1>1. CASE UNCHANGED filesVars
  <2>1. UNCHANGED <<limits, kind, size, job, calm>>
    BY <1>1 DEF filesVars
  <2>2. FilesTypes'
    BY <2>1 DEF FilesInv, FilesTypes
  <2>3. WalkIsRight'
    <3>1. CASE job \in Walks
      <4>1. Orderly(job) /\ (calm => Sound(job, {})) /\ IsAllowedPath(job.root)
            /\ (job.stage = "done" => job.queue = <<>>)
        BY <3>1 DEF FilesInv, WalkIsRight
      <4> QED BY <2>1, <4>1, WalkAfter
    <3>2. CASE job \notin Walks
      BY <2>1, <3>2 DEF WalkIsRight, Walks
    <3> QED BY <3>1, <3>2
  <2>4. ReadIsRight'
    BY <2>1 DEF FilesInv, ReadIsRight, IsAllowedPath, Reads
  <2>5. ListingIsExact'
    <3>1. Found' = Found /\ Inside(job.root)' = Inside(job.root)
      BY <2>1 DEF Found, Inside, There
    <3> QED BY <2>1, <3>1 DEF FilesInv, ListingIsExact
  <2>6. OnlyWhatIsAllowed'
    BY <2>1 DEF FilesInv, OnlyWhatIsAllowed, IsAllowedPath, Found
  <2> QED BY <2>2, <2>3, <2>4, <2>5, <2>6 DEF FilesInv
<1>2. ASSUME NEW path \in Entries, ListDirectory(path) PROVE FilesInv'
  BY <1>2, ListDirectoryKeeps
<1>3. ASSUME NEW path \in Entries, CheckFile(path) PROVE FilesInv'
  BY <1>3, CheckFileKeeps
<1>4. ASSUME NEW path \in Entries, RepositoryRoot(path) PROVE FilesInv'
  BY <1>4, RepositoryRootKeeps
<1>5. ASSUME NEW path \in Entries, NEW tool \in {"search", "overview"}, BeginWalk(tool, path) PROVE FilesInv'
  BY <1>5, BeginWalkKeeps
<1>6. CASE WalkDirectory
  BY <1>6, WalkDirectoryKeeps
<1>7. CASE EndWalk
  BY <1>7, EndWalkKeeps
<1>8. CASE ReadFile
  BY <1>8, ReadFileKeeps
<1>9. CASE DiskChanges
  BY <1>9, DiskChangesKeeps
<1> QED BY <1>1, <1>2, <1>3, <1>4, <1>5, <1>6, <1>7, <1>8, <1>9 DEF FilesNext

\* The invariant behind the answers of the file tools.
THEOREM FilesInvHolds == FilesSpec => []FilesInv
BY FilesBegin, FilesStep, PTL DEF FilesSpec

\* A walk that has ended is complete, or says that it was cut, and why.
LEMMA WalkAnswers ==
    ASSUME FilesInv
    PROVE  SearchIsComplete /\ OverviewIsComplete
<1> SUFFICES ASSUME job.stage = "done", job.tool \in {"search", "overview"}
             PROVE  SearchIsComplete /\ OverviewIsComplete
  BY DEF SearchIsComplete, OverviewIsComplete
<1>1. job \in Walks
  BY JobIs DEF FilesInv
<1>2. Orderly(job) /\ (calm => Sound(job, {})) /\ job.queue = <<>> /\ limits \in Policies
  BY <1>1 DEF FilesInv, WalkIsRight, FilesTypes
<1>3. /\ Found = {job.found[k] : k \in 1..Len(job.found)} /\ DOMAIN job.found = 1..Len(job.found)
      /\ 1..Len(job.queue) = {}
  <2>1. DOMAIN job.found = 1..Len(job.found)
    BY <1>1, WalkIs
  <2>2. Len(<<>>) = 0 /\ 1..0 = {}
    OBVIOUS
  <2> QED BY <1>2, <2>1, <2>2 DEF Found, ToSet
<1>4. IsInjective(job.found) /\ Len(job.found) <= Most(job)
  BY <1>2, <1>3 DEF Orderly, IsInjective
<1>5. calm => \A e \in Found : e \in Reached(job) /\ Wanted(job, e)
  BY <1>2, <1>3 DEF Sound
<1>6. calm /\ ~job.truncated => \A e \in Reached(job) : Wanted(job, e) => e \in Found
  <2>1. ASSUME calm, ~job.truncated, NEW e \in Reached(job), Wanted(job, e) PROVE e \in Found
    <3>1. \/ \E k \in 1..Len(job.found) : job.found[k] = e
          \/ \E i \in 1..Len(job.queue) : job.queue[i][1] \in Above[Parent[e]]
          \/ \E c \in {} : c \in Above[e]
      BY <1>2, <2>1 DEF Sound
    <3> QED BY <1>3, <3>1
  <2> QED BY <2>1
<1>7. SearchIsComplete
  <2> SUFFICES ASSUME job.tool = "search" PROVE SearchIsComplete
    BY DEF SearchIsComplete
  <2>1. \A e : Wanted(job, e) <=> e \in Matching
    BY DEF Wanted
  <2>2. calm => Found \subseteq Reached(job) \cap Matching
    BY <1>5, <2>1
  <2>3. calm /\ ~job.truncated => Found = Reached(job) \cap Matching
    BY <1>6, <2>1, <2>2
  <2>4. calm /\ job.truncated =>
          \/ Len(job.found) = limits.matches
          \/ job.visited > limits.visits
          \/ limits.queue < Cardinality({d \in Entries : kind[d] = "directory"})
    BY <1>2 DEF Sound, Directories
  <2> QED BY <1>4, <2>2, <2>3, <2>4 DEF SearchIsComplete, Most
<1>8. OverviewIsComplete
  <2> SUFFICES ASSUME job.tool = "overview" PROVE OverviewIsComplete
    BY DEF OverviewIsComplete
  <2> DEFINE shown == {e \in Reached(job) : e \notin Secret /\ kind[e] # "other"
                                            /\ ~(kind[e] = "directory" /\ e \in Skipped)}
  <2>1. \A e : e \in shown <=> e \in Reached(job) /\ Wanted(job, e)
    BY DEF Wanted
  <2> HIDE DEF shown
  <2>2. Found \cap Secret = {}
    BY <1>2, <1>3 DEF Orderly
  <2>3. calm => Found \subseteq shown
    BY <1>5, <2>1
  <2>4. calm /\ ~job.truncated => Found = shown
    BY <1>6, <2>1, <2>3
  <2>5. Len(job.found) <= limits.overview
    BY <1>4 DEF Most
  <2> QED BY <1>4, <2>2, <2>3, <2>4, <2>5 DEF OverviewIsComplete, shown
<1> QED BY <1>7, <1>8

\* Whatever the disk and its changes, every answer of a file tool is one the
\* disk held within the policy, and says so when it was cut short.
THEOREM FilesHold == FilesSpec => []FilesAreRight
<1>1. FilesInv => FilesAreRight
  BY WalkAnswers DEF FilesInv, FilesAreRight
<1> QED BY <1>1, FilesInvHolds, PTL
=============================================================================

---------------------------- MODULE MissionProofs ----------------------------
(***************************************************************************)
(* Theorems about Mission for any plans, permissions and limits.  Induction *)
(* needs to know where the mission stands (Standing), which step is under  *)
(* way (UnderWay), how often each was tried (Tried), and that a turn of    *)
(* the loop is a try or a skip of some step (TurnsAreCounted).  Then, about *)
(* MissionPanel, that what the browser shows and what is on its way to it  *)
(* make up what the record says (HearsAll).                                *)
(***************************************************************************)
EXTENDS MissionPanel, FiniteSetTheorems, SequenceTheorems, WellFoundedInduction, TLAPS

InLoop == {"loop", "stepping", "waiting"}

\* The status of the mission and of its record where the coroutine stands.
Standing ==
    /\ place \in {"opening", "planning"} => plan = <<>> /\ iterations = 0 /\ attempt < MaxAttempts /\ halted = "none"
    /\ place = "opening" => mission = "none"
    /\ place = "planning" => mission = "PLANNING"
    /\ place \in InLoop => mission = "RUNNING"
    /\ place = "summarising" => mission = "COMPLETED"
    /\ place = "closing" => mission \in {"COMPLETED", "FAILED"}
    /\ place # "done" => rec \notin {"completed", "error"}
    /\ sessions = "unclosed" => place = "done" /\ rec = "error"

\* A step is running or waiting for approval just while its run is under way.
UnderWay ==
    /\ place \in {"stepping", "waiting"} => cur \in Steps /\ stat[cur] \in {"RUNNING", "WAITING_APPROVAL"}
    /\ \A i \in Steps : stat[i] \in {"RUNNING", "WAITING_APPROVAL"} =>
                            place \in {"stepping", "waiting"} /\ i = cur
    /\ place = "waiting" => results < CallsPerStep

\* The tries of a step are its retries and, once it has begun, the first.
Tried ==
    \A i \in Steps :
        /\ Len(runs[i]) <= retries[i] + (IF stat[i] \in {"PENDING", "SKIPPED"} THEN 0 ELSE 1)
        /\ Permission[plan[i].tool] # "SAFE" => retries[i] = 0

\* What a step used of the loop's turns: its tries, and one when it is skipped.
Used(i) == Len(runs[i]) + (IF stat[i] = "SKIPPED" THEN 1 ELSE 0)
Turns == {x \in Steps \X (1..(MaxRetries + 1)) : x[2] <= Used(x[1])}

TurnsAreCounted ==
    /\ place \in InLoop => Len(plan) <= MaxSteps /\ ValidPlan(plan) /\ halted = "none"
    /\ place \in InLoop => iterations = Cardinality(Turns)
    /\ halted # "max_loop_iterations"

MissionInv ==
    /\ MissionTypes /\ Standing /\ UnderWay /\ Tried /\ TurnsAreCounted
    /\ StepsFollowDependencies /\ NoStepIsForgotten /\ RecordFollowsMission

-----------------------------------------------------------------------------
(* Turns.                                                                  *)

\* A set of numbers has a least one: the segments below its members are ordered.
LEMMA LeastOf ==
    ASSUME NEW S \in SUBSET Nat, IsFiniteSet(S), S # {}
    PROVE  \E m \in S : \A k \in S : m <= k
<1> DEFINE Below(m) == {k \in S : k < m}
           Segments == {Below(m) : m \in S}
<1>1. IsWellFoundedOn(StrictSubsetOrdering(S), FiniteSubsetsOf(S))
  BY FS_StrictSubsetOrderingWellFounded
<1>2. Segments \subseteq FiniteSubsetsOf(S)
  BY FS_Subset DEF FiniteSubsetsOf
<1>3. Segments # {}
  OBVIOUS
<1>4. PICK s \in Segments : \A t \in Segments : ~(<<t, s>> \in StrictSubsetOrdering(S))
  <2> HIDE DEF Segments
  <2> QED BY <1>1, <1>2, <1>3, WFMin
<1>5. PICK m \in S : s = Below(m)
  BY <1>4
<1>6. ASSUME NEW k \in S, k < m PROVE FALSE
  <2>1. Below(k) \subseteq Below(m) /\ k \in Below(m) /\ k \notin Below(k)
    <3>1. k \in Nat /\ m \in Nat /\ \A j \in S : j \in Nat
      OBVIOUS
    <3>2. \A j \in S : j < k => j < m
      BY <1>6, <3>1
    <3>3. ~(k < k)
      BY <3>1
    <3> QED BY <1>6, <3>2, <3>3
  <2>2. <<Below(k), Below(m)>> \in StrictSubsetOrdering(S)
    BY <2>1 DEF StrictSubsetOrdering
  <2> QED BY <1>4, <1>5, <2>2
<1> QED BY <1>6

\* Where the mission's types stand, so do the types of what Turns counts.
LEMMA UsedIsNat ==
    ASSUME MissionTypes
    PROVE  /\ \A i \in Steps : Used(i) \in Nat /\ Len(runs[i]) \in Nat
           /\ plan \in Seq(Range(plan)) /\ Steps = 1..Len(plan) /\ Len(plan) \in Nat
<1>1. plan \in Seq(Range(plan))
  BY PlansAssumption DEF MissionTypes
<1>2. Steps = 1..Len(plan) /\ Len(plan) \in Nat
  BY <1>1 DEF Steps
<1>3. \A i \in Steps : Len(runs[i]) \in Nat
  BY DEF MissionTypes
<1>4. ASSUME NEW i \in Steps PROVE Used(i) \in Nat
  <2>1. CASE stat[i] = "SKIPPED"
    BY <1>3, <2>1 DEF Used
  <2>2. CASE stat[i] # "SKIPPED"
    BY <1>3, <2>2 DEF Used
  <2> QED BY <2>1, <2>2
<1> QED BY <1>1, <1>2, <1>3, <1>4

\* The turns are finitely many, and no more than every step's tries together.
LEMMA TurnsAreFew ==
    ASSUME MissionTypes
    PROVE  /\ IsFiniteSet(Turns) /\ Cardinality(Turns) \in Nat
           /\ Cardinality(Turns) <= Len(plan) * (MaxRetries + 1)
<1> DEFINE Tries == 1..(MaxRetries + 1)
<1>1. IsFiniteSet(Steps) /\ Cardinality(Steps) = Len(plan)
  BY UsedIsNat, FS_Interval, SMTT(30)
<1>2. IsFiniteSet(Tries) /\ Cardinality(Tries) = MaxRetries + 1
  BY LimitsAssumption, FS_Interval
<1> HIDE DEF Tries
<1>3. IsFiniteSet(Steps \X Tries) /\ Cardinality(Steps \X Tries) = Len(plan) * (MaxRetries + 1)
  BY <1>1, <1>2, FS_Product
<1>4. Turns \in SUBSET (Steps \X Tries)
  BY DEF Turns, Tries
<1> QED BY <1>3, <1>4, FS_Subset, FS_CardinalityType

\* So the loop counter cannot reach its limit while the mission is in the loop.
LEMMA LimitIsFar ==
    ASSUME MissionInv, place \in InLoop
    PROVE  iterations < MaxLoopIterations
<1>1. Len(plan) \in Nat /\ Len(plan) <= MaxSteps /\ MaxSteps \in Nat /\ MaxRetries \in Nat
  BY UsedIsNat, LimitsAssumption DEF MissionInv, TurnsAreCounted
<1>2. Len(plan) * (MaxRetries + 1) <= MaxSteps * (MaxRetries + 1)
  BY <1>1
<1>3. MaxSteps * (MaxRetries + 1) \in Nat /\ Len(plan) * (MaxRetries + 1) \in Nat
  BY <1>1
<1>4. iterations \in Nat /\ iterations <= Len(plan) * (MaxRetries + 1)
  BY TurnsAreFew DEF MissionInv, TurnsAreCounted
<1> QED BY <1>2, <1>3, <1>4 DEF MaxLoopIterations

\* Steps that were tried and skipped as often as before have used as many turns.
LEMMA TurnsStay ==
    ASSUME plan' = plan, \A i \in Steps : Used(i)' = Used(i)
    PROVE  Turns' = Turns
BY DEF Turns, Steps

\* One more try, or a skip, of one step is one more turn.
LEMMA TurnsGrow ==
    ASSUME MissionTypes, plan' = plan, NEW i \in Steps,
           Used(i)' = Used(i) + 1, Used(i) <= MaxRetries,
           \A j \in Steps \ {i} : Used(j)' = Used(j)
    PROVE  Cardinality(Turns)' = Cardinality(Turns) + 1
<1> DEFINE turn == <<i, Used(i) + 1>>
<1>1. Used(i) \in Nat /\ MaxRetries \in Nat
  BY UsedIsNat, LimitsAssumption
<1>2. Turns' = Turns \cup {turn}
  <2>1. ASSUME NEW x \in Turns' PROVE x \in Turns \cup {turn}
    <3>1. CASE x[1] = i
      BY <1>1, <2>1, <3>1 DEF Turns, Steps
    <3>2. CASE x[1] # i
      BY <2>1, <3>2 DEF Turns, Steps
    <3> QED BY <3>1, <3>2
  <2>2. ASSUME NEW x \in Turns \cup {turn} PROVE x \in Turns'
    <3>1. CASE x = turn
      BY <1>1, <3>1 DEF Turns, Steps
    <3>2. CASE x \in Turns /\ x[1] = i
      BY <1>1, <3>2 DEF Turns, Steps
    <3>3. CASE x \in Turns /\ x[1] # i
      BY <3>3 DEF Turns, Steps
    <3> QED BY <2>2, <3>1, <3>2, <3>3
  <2> QED BY <2>1, <2>2
<1>3. turn \notin Turns
  BY <1>1 DEF Turns
<1> HIDE DEF turn
<1>4. IsFiniteSet(Turns) /\ Cardinality(Turns \cup {turn}) = Cardinality(Turns) + 1
  BY <1>3, TurnsAreFew, FS_AddElement
<1> QED BY <1>2, <1>4

\* A step that leaves plan, statuses and tries alone keeps what is said of them.
LEMMA Calm ==
    ASSUME MissionInv, UNCHANGED <<plan, stat, retries>>,
           \A i \in Steps : Len(runs'[i]) = Len(runs[i]),
           MissionTypes', Standing', UnderWay', RecordFollowsMission', NoStepIsForgotten',
           place' \in InLoop => place \in InLoop /\ UNCHANGED <<iterations, halted>>,
           halted' # "max_loop_iterations"
    PROVE  MissionInv'
<1>1. Tried'
  BY DEF MissionInv, Tried, Steps
<1>2. Turns' = Turns
  <2>1. \A i \in Steps : Used(i)' = Used(i)
    BY DEF Used
  <2> QED BY <2>1, TurnsStay
<1>3. TurnsAreCounted'
  BY <1>2 DEF MissionInv, TurnsAreCounted
<1>4. StepsFollowDependencies'
  BY DEF MissionInv, StepsFollowDependencies, DepsOf, Steps
<1> QED BY <1>1, <1>3, <1>4 DEF MissionInv











-----------------------------------------------------------------------------
(* The steps that leave the plan and its steps alone.                      *)

\* Writing one status in one step's records leaves as many of them.
Write(f, i, k, s) == [f EXCEPT ![i] = [f[i] EXCEPT ![k] = s]]
\* A write to the record of an attempt keeps the records and their number.
LEMMA Written ==
    ASSUME NEW I, NEW f \in [I -> Seq(RecordStatus)], NEW i, NEW k, NEW s,
           i \in I /\ k \in 1..Len(f[i]) => s \in RecordStatus
    PROVE  /\ Write(f, i, k, s) \in [I -> Seq(RecordStatus)]
           /\ \A j \in I : Len(Write(f, i, k, s)[j]) = Len(f[j])
<1> DEFINE one == [f[i] EXCEPT ![k] = s]
<1>1. ASSUME i \in I PROVE one \in Seq(RecordStatus) /\ Len(one) = Len(f[i])
  <2>1. f[i] \in Seq(RecordStatus)
    BY <1>1
  <2>2. CASE k \in 1..Len(f[i])
    <3>1. s \in RecordStatus
      BY <1>1, <2>2
    <3> QED BY <2>1, <2>2, <3>1, ExceptSeq
  <2>3. CASE k \notin 1..Len(f[i])
    <3>1. DOMAIN f[i] = 1..Len(f[i])
      BY <2>1
    <3>2. one = f[i]
      BY <2>1, <2>3, <3>1
    <3> QED BY <2>1, <3>2
  <2> QED BY <2>2, <2>3
<1> HIDE DEF one
<1>2. Write(f, i, k, s) = [f EXCEPT ![i] = one]
  BY DEF one, Write
<1> QED BY <1>1, <1>2

\* There is no plan yet.
LEMMA InitHolds == MissionInit => MissionInv
<1> SUFFICES ASSUME MissionInit PROVE MissionInv
  OBVIOUS
<1>1. Steps = {} /\ Len(plan) = 0
  BY DEF MissionInit, Steps
<1>2. MaxLoopIterations + 1 \in Nat
  BY LimitsAssumption DEF MaxLoopIterations
<1>3. /\ stat \in [Steps -> StepStatus] /\ retries \in [Steps -> 0..MaxRetries]
      /\ runs \in [Steps -> Seq(RecordStatus)]
  <2>1. \A S : stat \in [Steps -> S] /\ retries \in [Steps -> S] /\ runs \in [Steps -> S]
    BY <1>1 DEF MissionInit
  <2> QED BY <2>1
<1>4. MissionTypes
  <2>1. 0 \in 0..MaxAttempts /\ 0 \in 0..CallsPerStep /\ 0 \in 0..(MaxLoopIterations + 1) /\ <<>> \in RawPlans
    BY <1>2, LimitsAssumption, PlansAssumption
  <2> QED BY <1>3, <2>1 DEF MissionInit, MissionTypes, MissionPlaces, RecordStatus
<1>5. Standing /\ UnderWay /\ Tried /\ TurnsAreCounted
  BY <1>1, LimitsAssumption DEF MissionInit, Standing, UnderWay, Tried, TurnsAreCounted, InLoop
<1>6. StepsFollowDependencies /\ NoStepIsForgotten /\ RecordFollowsMission
  BY <1>1, <1>4 DEF MissionInit, StepsFollowDependencies, NoStepIsForgotten,
        RecordFollowsMission
<1> QED BY <1>4, <1>5, <1>6 DEF MissionInv

\* The mission is created.
LEMMA OpenKeeps ==
    ASSUME MissionInv, Open
    PROVE  MissionInv'
<1>1. MissionTypes'
  BY LimitsAssumption DEF MissionInv, MissionTypes, Standing, UnderWay, Open, GoOnTo, Steps,
        planVars, stepVars, stepRunVars, limitVars, cancelVars, MissionPlaces, RecordStatus
<1>2. Standing'
  BY LimitsAssumption DEF MissionInv, MissionTypes, Standing, Open, GoOnTo, Steps, planVars,
        stepVars, stepRunVars, limitVars, cancelVars, InLoop, MissionPlaces, RecordStatus
<1>3. UnderWay'
  BY DEF MissionInv, MissionTypes, Standing, UnderWay, Open, GoOnTo, Steps, planVars, stepVars,
        stepRunVars, limitVars, cancelVars
<1>4. RecordFollowsMission'
  BY DEF MissionInv, Standing, RecordFollowsMission, Open, GoOnTo, Steps, planVars, stepVars,
        stepRunVars, limitVars, cancelVars, InLoop
<1>5. NoStepIsForgotten'
  BY DEF MissionInv, MissionTypes, Standing, UnderWay, TurnsAreCounted, NoStepIsForgotten, Open,
        GoOnTo, Steps, planVars, stepVars, stepRunVars, limitVars, cancelVars, InLoop
<1>6. /\ UNCHANGED <<plan, stat, retries>> /\ \A i \in Steps : Len(runs'[i]) = Len(runs[i])
      /\ place' \in InLoop => place \in InLoop /\ UNCHANGED <<iterations, halted>>
      /\ halted' # "max_loop_iterations"
  BY DEF MissionInv, MissionTypes, TurnsAreCounted, Open, GoOnTo, Steps, planVars, stepVars,
        stepRunVars, limitVars, cancelVars, InLoop
<1> QED BY <1>1, <1>2, <1>3, <1>4, <1>5, <1>6, Calm

\* It cannot be.
LEMMA OpenFailsKeeps ==
    ASSUME MissionInv, OpenFails
    PROVE  MissionInv'
<1>1. MissionTypes'
  BY LimitsAssumption DEF MissionInv, MissionTypes, Standing, UnderWay, OpenFails, GoOnTo,
        Steps, planVars, stepVars, stepRunVars, limitVars, cancelVars, MissionPlaces,
        RecordStatus
<1>2. Standing'
  BY LimitsAssumption DEF MissionInv, MissionTypes, Standing, OpenFails, GoOnTo, Steps,
        planVars, stepVars, stepRunVars, limitVars, cancelVars, InLoop, MissionPlaces,
        RecordStatus
<1>3. UnderWay'
  BY DEF MissionInv, MissionTypes, Standing, UnderWay, OpenFails, GoOnTo, Steps, planVars,
        stepVars, stepRunVars, limitVars, cancelVars
<1>4. RecordFollowsMission'
  BY DEF MissionInv, Standing, RecordFollowsMission, OpenFails, GoOnTo, Steps, planVars,
        stepVars, stepRunVars, limitVars, cancelVars, InLoop
<1>5. NoStepIsForgotten'
  BY DEF MissionInv, MissionTypes, Standing, UnderWay, TurnsAreCounted, NoStepIsForgotten,
        OpenFails, GoOnTo, Steps, planVars, stepVars, stepRunVars, limitVars, cancelVars, InLoop
<1>6. /\ UNCHANGED <<plan, stat, retries>> /\ \A i \in Steps : Len(runs'[i]) = Len(runs[i])
      /\ place' \in InLoop => place \in InLoop /\ UNCHANGED <<iterations, halted>>
      /\ halted' # "max_loop_iterations"
  BY DEF MissionInv, MissionTypes, TurnsAreCounted, OpenFails, GoOnTo, Steps, planVars,
        stepVars, stepRunVars, limitVars, cancelVars, InLoop
<1> QED BY <1>1, <1>2, <1>3, <1>4, <1>5, <1>6, Calm

\* A plan over the limit fails a mission that has none.
LEMMA TooLongKeeps ==
    ASSUME MissionInv, NEW raw \in RawPlans, PlanTooLong(raw)
    PROVE  MissionInv'
<1>1. MissionTypes'
  BY LimitsAssumption DEF MissionInv, MissionTypes, Standing, UnderWay, PlanTooLong, Fail,
        OnEvent, GoOnTo, Steps, planVars, stepVars, stepRunVars, limitVars, cancelVars,
        MissionPlaces, RecordStatus
<1>2. Standing'
  BY LimitsAssumption DEF MissionInv, MissionTypes, Standing, PlanTooLong, Fail, OnEvent,
        GoOnTo, Steps, planVars, stepVars, stepRunVars, limitVars, cancelVars, InLoop,
        MissionPlaces, RecordStatus
<1>3. UnderWay'
  BY DEF MissionInv, MissionTypes, Standing, UnderWay, PlanTooLong, Fail, OnEvent, GoOnTo,
        Steps, planVars, stepVars, stepRunVars, limitVars, cancelVars
<1>4. RecordFollowsMission'
  BY DEF MissionInv, Standing, RecordFollowsMission, PlanTooLong, Fail, OnEvent, GoOnTo, Steps,
        planVars, stepVars, stepRunVars, limitVars, cancelVars, InLoop
<1>5. NoStepIsForgotten'
  BY DEF MissionInv, MissionTypes, Standing, UnderWay, TurnsAreCounted, NoStepIsForgotten,
        PlanTooLong, Fail, OnEvent, GoOnTo, Steps, planVars, stepVars, stepRunVars, limitVars,
        cancelVars, InLoop
<1>6. /\ UNCHANGED <<plan, stat, retries>> /\ \A i \in Steps : Len(runs'[i]) = Len(runs[i])
      /\ place' \in InLoop => place \in InLoop /\ UNCHANGED <<iterations, halted>>
      /\ halted' # "max_loop_iterations"
  BY DEF MissionInv, MissionTypes, TurnsAreCounted, PlanTooLong, Fail, OnEvent, GoOnTo, Steps,
        planVars, stepVars, stepRunVars, limitVars, cancelVars, InLoop
<1> QED BY <1>1, <1>2, <1>3, <1>4, <1>5, <1>6, Calm

\* So does the last rejected one.
LEMMA RejectedKeeps ==
    ASSUME MissionInv, NEW raw \in RawPlans, PlanRejected(raw)
    PROVE  MissionInv'
<1>1. MissionTypes'
  BY LimitsAssumption DEF MissionInv, MissionTypes, Standing, UnderWay, PlanRejected, Fail,
        OnEvent, GoOnTo, Steps, planVars, stepVars, stepRunVars, limitVars, cancelVars,
        MissionPlaces, RecordStatus
<1>2. Standing'
  BY LimitsAssumption DEF MissionInv, MissionTypes, Standing, PlanRejected, Fail, OnEvent,
        GoOnTo, Steps, planVars, stepVars, stepRunVars, limitVars, cancelVars, InLoop,
        MissionPlaces, RecordStatus
<1>3. UnderWay'
  BY DEF MissionInv, MissionTypes, Standing, UnderWay, PlanRejected, Fail, OnEvent, GoOnTo,
        Steps, planVars, stepVars, stepRunVars, limitVars, cancelVars
<1>4. RecordFollowsMission'
  BY DEF MissionInv, Standing, RecordFollowsMission, PlanRejected, Fail, OnEvent, GoOnTo, Steps,
        planVars, stepVars, stepRunVars, limitVars, cancelVars, InLoop
<1>5. NoStepIsForgotten'
  BY DEF MissionInv, MissionTypes, Standing, UnderWay, TurnsAreCounted, NoStepIsForgotten,
        PlanRejected, Fail, OnEvent, GoOnTo, Steps, planVars, stepVars, stepRunVars, limitVars,
        cancelVars, InLoop
<1>6. /\ UNCHANGED <<plan, stat, retries>> /\ \A i \in Steps : Len(runs'[i]) = Len(runs[i])
      /\ place' \in InLoop => place \in InLoop /\ UNCHANGED <<iterations, halted>>
      /\ halted' # "max_loop_iterations"
  BY DEF MissionInv, MissionTypes, TurnsAreCounted, PlanRejected, Fail, OnEvent, GoOnTo, Steps,
        planVars, stepVars, stepRunVars, limitVars, cancelVars, InLoop
<1> QED BY <1>1, <1>2, <1>3, <1>4, <1>5, <1>6, Calm

\* A tool result is counted.
LEMMA CallKeeps ==
    ASSUME MissionInv, NEW r, CallTool(r)
    PROVE  MissionInv'
<1>1. MissionTypes'
  BY LimitsAssumption DEF MissionInv, MissionTypes, Standing, UnderWay, CallTool, Result,
        GoOnTo, Steps, planVars, stepVars, stepRunVars, limitVars, cancelVars, MissionPlaces,
        RecordStatus
<1>2. Standing'
  BY LimitsAssumption DEF MissionInv, MissionTypes, Standing, CallTool, Result, GoOnTo, Steps,
        planVars, stepVars, stepRunVars, limitVars, cancelVars, InLoop, MissionPlaces,
        RecordStatus
<1>3. UnderWay'
  BY DEF MissionInv, MissionTypes, Standing, UnderWay, CallTool, Result, GoOnTo, Steps,
        planVars, stepVars, stepRunVars, limitVars, cancelVars
<1>4. RecordFollowsMission'
  BY DEF MissionInv, Standing, RecordFollowsMission, CallTool, Result, GoOnTo, Steps, planVars,
        stepVars, stepRunVars, limitVars, cancelVars, InLoop
<1>5. NoStepIsForgotten'
  BY DEF MissionInv, MissionTypes, Standing, UnderWay, TurnsAreCounted, NoStepIsForgotten,
        CallTool, Result, GoOnTo, Steps, planVars, stepVars, stepRunVars, limitVars, cancelVars,
        InLoop
<1>6. /\ UNCHANGED <<plan, stat, retries>> /\ \A i \in Steps : Len(runs'[i]) = Len(runs[i])
      /\ place' \in InLoop => place \in InLoop /\ UNCHANGED <<iterations, halted>>
      /\ halted' # "max_loop_iterations"
  BY DEF MissionInv, MissionTypes, TurnsAreCounted, CallTool, Result, GoOnTo, Steps, planVars,
        stepVars, stepRunVars, limitVars, cancelVars, InLoop
<1> QED BY <1>1, <1>2, <1>3, <1>4, <1>5, <1>6, Calm

\* So is one that stands for a refusal.
LEMMA RefusedKeeps ==
    ASSUME MissionInv, AlreadyRefused
    PROVE  MissionInv'
<1>1. MissionTypes'
  BY LimitsAssumption DEF MissionInv, MissionTypes, Standing, UnderWay, AlreadyRefused, Result,
        GoOnTo, Steps, planVars, stepVars, stepRunVars, limitVars, cancelVars, MissionPlaces,
        RecordStatus
<1>2. Standing'
  BY LimitsAssumption DEF MissionInv, MissionTypes, Standing, AlreadyRefused, Result, GoOnTo,
        Steps, planVars, stepVars, stepRunVars, limitVars, cancelVars, InLoop, MissionPlaces,
        RecordStatus
<1>3. UnderWay'
  BY DEF MissionInv, MissionTypes, Standing, UnderWay, AlreadyRefused, Result, GoOnTo, Steps,
        planVars, stepVars, stepRunVars, limitVars, cancelVars
<1>4. RecordFollowsMission'
  BY DEF MissionInv, Standing, RecordFollowsMission, AlreadyRefused, Result, GoOnTo, Steps,
        planVars, stepVars, stepRunVars, limitVars, cancelVars, InLoop
<1>5. NoStepIsForgotten'
  BY DEF MissionInv, MissionTypes, Standing, UnderWay, TurnsAreCounted, NoStepIsForgotten,
        AlreadyRefused, Result, GoOnTo, Steps, planVars, stepVars, stepRunVars, limitVars,
        cancelVars, InLoop
<1>6. /\ UNCHANGED <<plan, stat, retries>> /\ \A i \in Steps : Len(runs'[i]) = Len(runs[i])
      /\ place' \in InLoop => place \in InLoop /\ UNCHANGED <<iterations, halted>>
      /\ halted' # "max_loop_iterations"
  BY DEF MissionInv, MissionTypes, TurnsAreCounted, AlreadyRefused, Result, GoOnTo, Steps,
        planVars, stepVars, stepRunVars, limitVars, cancelVars, InLoop
<1> QED BY <1>1, <1>2, <1>3, <1>4, <1>5, <1>6, Calm

\* The prompt is settled.
LEMMA SettleKeeps ==
    ASSUME MissionInv, NEW p \in {"approved", "refused"}, SettlePrompt(p)
    PROVE  MissionInv'
<1>1. MissionTypes'
  BY LimitsAssumption DEF MissionInv, MissionTypes, Standing, UnderWay, SettlePrompt, GoOnTo,
        Steps, planVars, stepVars, stepRunVars, limitVars, cancelVars, MissionPlaces,
        RecordStatus
<1>2. Standing'
  BY LimitsAssumption DEF MissionInv, MissionTypes, Standing, SettlePrompt, GoOnTo, Steps,
        planVars, stepVars, stepRunVars, limitVars, cancelVars, InLoop, MissionPlaces,
        RecordStatus
<1>3. UnderWay'
  BY DEF MissionInv, MissionTypes, Standing, UnderWay, SettlePrompt, GoOnTo, Steps, planVars,
        stepVars, stepRunVars, limitVars, cancelVars
<1>4. RecordFollowsMission'
  BY DEF MissionInv, Standing, RecordFollowsMission, SettlePrompt, GoOnTo, Steps, planVars,
        stepVars, stepRunVars, limitVars, cancelVars, InLoop
<1>5. NoStepIsForgotten'
  BY DEF MissionInv, MissionTypes, Standing, UnderWay, TurnsAreCounted, NoStepIsForgotten,
        SettlePrompt, GoOnTo, Steps, planVars, stepVars, stepRunVars, limitVars, cancelVars,
        InLoop
<1>6. /\ UNCHANGED <<plan, stat, retries>> /\ \A i \in Steps : Len(runs'[i]) = Len(runs[i])
      /\ place' \in InLoop => place \in InLoop /\ UNCHANGED <<iterations, halted>>
      /\ halted' # "max_loop_iterations"
  BY DEF MissionInv, MissionTypes, TurnsAreCounted, SettlePrompt, GoOnTo, Steps, planVars,
        stepVars, stepRunVars, limitVars, cancelVars, InLoop
<1> QED BY <1>1, <1>2, <1>3, <1>4, <1>5, <1>6, Calm

\* The run goes on, and its record with it.
LEMMA ResumeKeeps ==
    ASSUME MissionInv, NEW r \in {"ok", "failed"}, Resume(r)
    PROVE  MissionInv'
<1>0. runs' \in [Steps -> Seq(RecordStatus)] /\ \A i \in Steps : Len(runs'[i]) = Len(runs[i])
  <2> DEFINE i == cur
             k == Len(runs[cur])
             status == OnEvent(runs[cur][Len(runs[cur])])
  <2>1. i \in Steps /\ k \in 1..Len(runs[i]) => status \in RecordStatus
    BY DEF MissionInv, MissionTypes, Resume, Sinks, OnEvent, RecordStatus
  <2>2. runs' = Write(runs, i, k, status)
    BY DEF Write, MissionInv, MissionTypes, Resume, Sinks, OnEvent, RecordStatus
  <2>3. runs \in [Steps -> Seq(RecordStatus)]
    BY DEF MissionInv, MissionTypes
  <2> HIDE DEF i, k, status
  <2> QED BY <2>1, <2>2, <2>3, Written
<1>1. MissionTypes'
  BY <1>0, LimitsAssumption DEF MissionInv, MissionTypes, Standing, UnderWay, Resume, Result,
        Sinks, OnEvent, GoOnTo, Steps, planVars, stepVars, stepRunVars, limitVars, cancelVars,
        MissionPlaces, RecordStatus
<1>2. Standing'
  BY LimitsAssumption DEF MissionInv, MissionTypes, Standing, Resume, Result, Sinks, OnEvent,
        GoOnTo, Steps, planVars, stepVars, stepRunVars, limitVars, cancelVars, InLoop,
        MissionPlaces, RecordStatus
<1>3. UnderWay'
  BY DEF MissionInv, MissionTypes, Standing, UnderWay, Resume, Result, Sinks, OnEvent, GoOnTo,
        Steps, planVars, stepVars, stepRunVars, limitVars, cancelVars
<1>4. RecordFollowsMission'
  BY DEF MissionInv, Standing, RecordFollowsMission, Resume, Result, Sinks, OnEvent, GoOnTo,
        Steps, planVars, stepVars, stepRunVars, limitVars, cancelVars, InLoop
<1>5. NoStepIsForgotten'
  BY DEF MissionInv, MissionTypes, Standing, UnderWay, TurnsAreCounted, NoStepIsForgotten,
        Resume, Result, Sinks, OnEvent, GoOnTo, Steps, planVars, stepVars, stepRunVars,
        limitVars, cancelVars, InLoop
<1>6. /\ UNCHANGED <<plan, stat, retries>> /\ \A i \in Steps : Len(runs'[i]) = Len(runs[i])
      /\ place' \in InLoop => place \in InLoop /\ UNCHANGED <<iterations, halted>>
      /\ halted' # "max_loop_iterations"
  BY <1>0 DEF MissionInv, MissionTypes, TurnsAreCounted, Resume, Result, Sinks, OnEvent, GoOnTo,
        Steps, planVars, stepVars, stepRunVars, limitVars, cancelVars, InLoop
<1> QED BY <1>1, <1>2, <1>3, <1>4, <1>5, <1>6, Calm

\* The wrap-up changes nothing but the place.
LEMMA SummarisedKeeps ==
    ASSUME MissionInv, Summarised
    PROVE  MissionInv'
<1>1. MissionTypes'
  BY LimitsAssumption DEF MissionInv, MissionTypes, Standing, UnderWay, Summarised, GoOnTo,
        Steps, planVars, stepVars, stepRunVars, limitVars, cancelVars, MissionPlaces,
        RecordStatus
<1>2. Standing'
  BY LimitsAssumption DEF MissionInv, MissionTypes, Standing, Summarised, GoOnTo, Steps,
        planVars, stepVars, stepRunVars, limitVars, cancelVars, InLoop, MissionPlaces,
        RecordStatus
<1>3. UnderWay'
  BY DEF MissionInv, MissionTypes, Standing, UnderWay, Summarised, GoOnTo, Steps, planVars,
        stepVars, stepRunVars, limitVars, cancelVars
<1>4. RecordFollowsMission'
  BY DEF MissionInv, Standing, RecordFollowsMission, Summarised, GoOnTo, Steps, planVars,
        stepVars, stepRunVars, limitVars, cancelVars, InLoop
<1>5. NoStepIsForgotten'
  BY DEF MissionInv, MissionTypes, Standing, UnderWay, TurnsAreCounted, NoStepIsForgotten,
        Summarised, GoOnTo, Steps, planVars, stepVars, stepRunVars, limitVars, cancelVars,
        InLoop
<1>6. /\ UNCHANGED <<plan, stat, retries>> /\ \A i \in Steps : Len(runs'[i]) = Len(runs[i])
      /\ place' \in InLoop => place \in InLoop /\ UNCHANGED <<iterations, halted>>
      /\ halted' # "max_loop_iterations"
  BY DEF MissionInv, MissionTypes, TurnsAreCounted, Summarised, GoOnTo, Steps, planVars,
        stepVars, stepRunVars, limitVars, cancelVars, InLoop
<1> QED BY <1>1, <1>2, <1>3, <1>4, <1>5, <1>6, Calm

\* The record is finished as the mission was.
LEMMA CloseKeeps ==
    ASSUME MissionInv, CloseMission
    PROVE  MissionInv'
<1>1. MissionTypes'
  BY LimitsAssumption DEF MissionInv, MissionTypes, Standing, UnderWay, CloseMission, GoOnTo,
        Steps, planVars, stepVars, stepRunVars, limitVars, cancelVars, MissionPlaces,
        RecordStatus
<1>2. Standing'
  BY LimitsAssumption DEF MissionInv, MissionTypes, Standing, CloseMission, GoOnTo, Steps,
        planVars, stepVars, stepRunVars, limitVars, cancelVars, InLoop, MissionPlaces,
        RecordStatus
<1>3. UnderWay'
  BY DEF MissionInv, MissionTypes, Standing, UnderWay, CloseMission, GoOnTo, Steps, planVars,
        stepVars, stepRunVars, limitVars, cancelVars
<1>4. RecordFollowsMission'
  BY DEF MissionInv, Standing, RecordFollowsMission, CloseMission, GoOnTo, Steps, planVars,
        stepVars, stepRunVars, limitVars, cancelVars, InLoop
<1>5. NoStepIsForgotten'
  BY DEF MissionInv, MissionTypes, Standing, UnderWay, TurnsAreCounted, NoStepIsForgotten,
        CloseMission, GoOnTo, Steps, planVars, stepVars, stepRunVars, limitVars, cancelVars,
        InLoop
<1>6. /\ UNCHANGED <<plan, stat, retries>> /\ \A i \in Steps : Len(runs'[i]) = Len(runs[i])
      /\ place' \in InLoop => place \in InLoop /\ UNCHANGED <<iterations, halted>>
      /\ halted' # "max_loop_iterations"
  BY DEF MissionInv, MissionTypes, TurnsAreCounted, CloseMission, GoOnTo, Steps, planVars,
        stepVars, stepRunVars, limitVars, cancelVars, InLoop
<1> QED BY <1>1, <1>2, <1>3, <1>4, <1>5, <1>6, Calm

\* Sessions that fail to close make an error of any mission.
LEMMA CloseFailsKeeps ==
    ASSUME MissionInv, CloseFails
    PROVE  MissionInv'
<1>1. MissionTypes'
  BY LimitsAssumption DEF MissionInv, MissionTypes, Standing, UnderWay, CloseFails, GoOnTo,
        Steps, planVars, stepVars, stepRunVars, limitVars, cancelVars, MissionPlaces,
        RecordStatus
<1>2. Standing'
  BY LimitsAssumption DEF MissionInv, MissionTypes, Standing, CloseFails, GoOnTo, Steps,
        planVars, stepVars, stepRunVars, limitVars, cancelVars, InLoop, MissionPlaces,
        RecordStatus
<1>3. UnderWay'
  BY DEF MissionInv, MissionTypes, Standing, UnderWay, CloseFails, GoOnTo, Steps, planVars,
        stepVars, stepRunVars, limitVars, cancelVars
<1>4. RecordFollowsMission'
  BY DEF MissionInv, Standing, RecordFollowsMission, CloseFails, GoOnTo, Steps, planVars,
        stepVars, stepRunVars, limitVars, cancelVars, InLoop
<1>5. NoStepIsForgotten'
  BY DEF MissionInv, MissionTypes, Standing, UnderWay, TurnsAreCounted, NoStepIsForgotten,
        CloseFails, GoOnTo, Steps, planVars, stepVars, stepRunVars, limitVars, cancelVars,
        InLoop
<1>6. /\ UNCHANGED <<plan, stat, retries>> /\ \A i \in Steps : Len(runs'[i]) = Len(runs[i])
      /\ place' \in InLoop => place \in InLoop /\ UNCHANGED <<iterations, halted>>
      /\ halted' # "max_loop_iterations"
  BY DEF MissionInv, MissionTypes, TurnsAreCounted, CloseFails, GoOnTo, Steps, planVars,
        stepVars, stepRunVars, limitVars, cancelVars, InLoop
<1> QED BY <1>1, <1>2, <1>3, <1>4, <1>5, <1>6, Calm

\* A cancel is only asked for.
LEMMA CancelKeeps ==
    ASSUME MissionInv, Cancel
    PROVE  MissionInv'
<1>1. MissionTypes'
  BY LimitsAssumption DEF MissionInv, MissionTypes, Standing, UnderWay, Cancel, GoOnTo, Steps,
        planVars, stepVars, stepRunVars, limitVars, cancelVars, MissionPlaces, RecordStatus
<1>2. Standing'
  BY LimitsAssumption DEF MissionInv, MissionTypes, Standing, Cancel, GoOnTo, Steps, planVars,
        stepVars, stepRunVars, limitVars, cancelVars, InLoop, MissionPlaces, RecordStatus
<1>3. UnderWay'
  BY DEF MissionInv, MissionTypes, Standing, UnderWay, Cancel, GoOnTo, Steps, planVars,
        stepVars, stepRunVars, limitVars, cancelVars
<1>4. RecordFollowsMission'
  BY DEF MissionInv, Standing, RecordFollowsMission, Cancel, GoOnTo, Steps, planVars, stepVars,
        stepRunVars, limitVars, cancelVars, InLoop
<1>5. NoStepIsForgotten'
  BY DEF MissionInv, MissionTypes, Standing, UnderWay, TurnsAreCounted, NoStepIsForgotten,
        Cancel, GoOnTo, Steps, planVars, stepVars, stepRunVars, limitVars, cancelVars, InLoop
<1>6. /\ UNCHANGED <<plan, stat, retries>> /\ \A i \in Steps : Len(runs'[i]) = Len(runs[i])
      /\ place' \in InLoop => place \in InLoop /\ UNCHANGED <<iterations, halted>>
      /\ halted' # "max_loop_iterations"
  BY DEF MissionInv, MissionTypes, TurnsAreCounted, Cancel, GoOnTo, Steps, planVars, stepVars,
        stepRunVars, limitVars, cancelVars, InLoop
<1> QED BY <1>1, <1>2, <1>3, <1>4, <1>5, <1>6, Calm

\* A cancel outside engine.run leaves the mission as it is.
LEMMA OutsideKeeps ==
    ASSUME MissionInv, DeliverOutside
    PROVE  MissionInv'
<1>0. cancelling' \in BOOLEAN
  BY DEF MissionInv, MissionTypes, UnderWay, DeliverOutside, GoOnTo, Steps, planVars, stepVars,
        stepRunVars, limitVars, cancelVars
<1>1. MissionTypes'
  BY <1>0, LimitsAssumption DEF MissionInv, MissionTypes, Standing, UnderWay, DeliverOutside,
        GoOnTo, Steps, planVars, stepVars, stepRunVars, limitVars, cancelVars, MissionPlaces,
        RecordStatus
<1>2. Standing'
  BY LimitsAssumption DEF MissionInv, MissionTypes, Standing, DeliverOutside, GoOnTo, Steps,
        planVars, stepVars, stepRunVars, limitVars, cancelVars, InLoop, MissionPlaces,
        RecordStatus
<1>3. UnderWay'
  BY DEF MissionInv, MissionTypes, Standing, UnderWay, DeliverOutside, GoOnTo, Steps, planVars,
        stepVars, stepRunVars, limitVars, cancelVars
<1>4. RecordFollowsMission'
  BY DEF MissionInv, Standing, RecordFollowsMission, DeliverOutside, GoOnTo, Steps, planVars,
        stepVars, stepRunVars, limitVars, cancelVars, InLoop
<1>5. NoStepIsForgotten'
  BY DEF MissionInv, MissionTypes, Standing, UnderWay, TurnsAreCounted, NoStepIsForgotten,
        DeliverOutside, GoOnTo, Steps, planVars, stepVars, stepRunVars, limitVars, cancelVars,
        InLoop
<1>6. /\ UNCHANGED <<plan, stat, retries>> /\ \A i \in Steps : Len(runs'[i]) = Len(runs[i])
      /\ place' \in InLoop => place \in InLoop /\ UNCHANGED <<iterations, halted>>
      /\ halted' # "max_loop_iterations"
  BY <1>0 DEF MissionInv, MissionTypes, TurnsAreCounted, DeliverOutside, GoOnTo, Steps,
        planVars, stepVars, stepRunVars, limitVars, cancelVars, InLoop
<1> QED BY <1>1, <1>2, <1>3, <1>4, <1>5, <1>6, Calm

\* An unwound task is marked cancelled.
LEMMA UnwoundKeeps ==
    ASSUME MissionInv, Unwound
    PROVE  MissionInv'
<1>1. MissionTypes'
  BY LimitsAssumption DEF MissionInv, MissionTypes, Standing, UnderWay, Unwound, MarkCancelled,
        Terminal, GoOnTo, Steps, planVars, stepVars, stepRunVars, limitVars, cancelVars,
        MissionPlaces, RecordStatus
<1>2. Standing'
  BY LimitsAssumption DEF MissionInv, MissionTypes, Standing, Unwound, MarkCancelled, Terminal,
        GoOnTo, Steps, planVars, stepVars, stepRunVars, limitVars, cancelVars, InLoop,
        MissionPlaces, RecordStatus
<1>3. UnderWay'
  BY DEF MissionInv, MissionTypes, Standing, UnderWay, Unwound, MarkCancelled, Terminal, GoOnTo,
        Steps, planVars, stepVars, stepRunVars, limitVars, cancelVars
<1>4. RecordFollowsMission'
  BY DEF MissionInv, Standing, RecordFollowsMission, Unwound, MarkCancelled, Terminal, GoOnTo,
        Steps, planVars, stepVars, stepRunVars, limitVars, cancelVars, InLoop
<1>5. NoStepIsForgotten'
  BY DEF MissionInv, MissionTypes, Standing, UnderWay, TurnsAreCounted, NoStepIsForgotten,
        Unwound, MarkCancelled, Terminal, GoOnTo, Steps, planVars, stepVars, stepRunVars,
        limitVars, cancelVars, InLoop
<1>6. /\ UNCHANGED <<plan, stat, retries>> /\ \A i \in Steps : Len(runs'[i]) = Len(runs[i])
      /\ place' \in InLoop => place \in InLoop /\ UNCHANGED <<iterations, halted>>
      /\ halted' # "max_loop_iterations"
  BY DEF MissionInv, MissionTypes, TurnsAreCounted, Unwound, MarkCancelled, Terminal, GoOnTo,
        Steps, planVars, stepVars, stepRunVars, limitVars, cancelVars, InLoop
<1> QED BY <1>1, <1>2, <1>3, <1>4, <1>5, <1>6, Calm

\* So is one whose cancel returns.
LEMMA ReturnsKeeps ==
    ASSUME MissionInv, CancelReturns
    PROVE  MissionInv'
<1>0. polling' \in BOOLEAN
  BY DEF MissionInv, MissionTypes, UnderWay, CancelReturns, MarkCancelled, Terminal, GoOnTo,
        Steps, planVars, stepVars, stepRunVars, limitVars, cancelVars
<1>1. MissionTypes'
  BY <1>0, LimitsAssumption DEF MissionInv, MissionTypes, Standing, UnderWay, CancelReturns,
        MarkCancelled, Terminal, GoOnTo, Steps, planVars, stepVars, stepRunVars, limitVars,
        cancelVars, MissionPlaces, RecordStatus
<1>2. Standing'
  BY LimitsAssumption DEF MissionInv, MissionTypes, Standing, CancelReturns, MarkCancelled,
        Terminal, GoOnTo, Steps, planVars, stepVars, stepRunVars, limitVars, cancelVars, InLoop,
        MissionPlaces, RecordStatus
<1>3. UnderWay'
  BY DEF MissionInv, MissionTypes, Standing, UnderWay, CancelReturns, MarkCancelled, Terminal,
        GoOnTo, Steps, planVars, stepVars, stepRunVars, limitVars, cancelVars
<1>4. RecordFollowsMission'
  BY DEF MissionInv, Standing, RecordFollowsMission, CancelReturns, MarkCancelled, Terminal,
        GoOnTo, Steps, planVars, stepVars, stepRunVars, limitVars, cancelVars, InLoop
<1>5. NoStepIsForgotten'
  BY DEF MissionInv, MissionTypes, Standing, UnderWay, TurnsAreCounted, NoStepIsForgotten,
        CancelReturns, MarkCancelled, Terminal, GoOnTo, Steps, planVars, stepVars, stepRunVars,
        limitVars, cancelVars, InLoop
<1>6. /\ UNCHANGED <<plan, stat, retries>> /\ \A i \in Steps : Len(runs'[i]) = Len(runs[i])
      /\ place' \in InLoop => place \in InLoop /\ UNCHANGED <<iterations, halted>>
      /\ halted' # "max_loop_iterations"
  BY <1>0 DEF MissionInv, MissionTypes, TurnsAreCounted, CancelReturns, MarkCancelled, Terminal,
        GoOnTo, Steps, planVars, stepVars, stepRunVars, limitVars, cancelVars, InLoop
<1> QED BY <1>1, <1>2, <1>3, <1>4, <1>5, <1>6, Calm

\* Cancelling a step settles its prompt.
LEMMA CancelStepKeeps ==
    ASSUME MissionInv, NEW k \in Steps, CancelStep(k)
    PROVE  MissionInv'
<1>1. MissionTypes'
  BY LimitsAssumption DEF MissionInv, MissionTypes, Standing, UnderWay, CancelStep, GoOnTo,
        Steps, planVars, stepVars, stepRunVars, limitVars, cancelVars, MissionPlaces,
        RecordStatus
<1>2. Standing'
  BY LimitsAssumption DEF MissionInv, MissionTypes, Standing, CancelStep, GoOnTo, Steps,
        planVars, stepVars, stepRunVars, limitVars, cancelVars, InLoop, MissionPlaces,
        RecordStatus
<1>3. UnderWay'
  BY DEF MissionInv, MissionTypes, Standing, UnderWay, CancelStep, GoOnTo, Steps, planVars,
        stepVars, stepRunVars, limitVars, cancelVars
<1>4. RecordFollowsMission'
  BY DEF MissionInv, Standing, RecordFollowsMission, CancelStep, GoOnTo, Steps, planVars,
        stepVars, stepRunVars, limitVars, cancelVars, InLoop
<1>5. NoStepIsForgotten'
  BY DEF MissionInv, MissionTypes, Standing, UnderWay, TurnsAreCounted, NoStepIsForgotten,
        CancelStep, GoOnTo, Steps, planVars, stepVars, stepRunVars, limitVars, cancelVars,
        InLoop
<1>6. /\ UNCHANGED <<plan, stat, retries>> /\ \A i \in Steps : Len(runs'[i]) = Len(runs[i])
      /\ place' \in InLoop => place \in InLoop /\ UNCHANGED <<iterations, halted>>
      /\ halted' # "max_loop_iterations"
  BY DEF MissionInv, MissionTypes, TurnsAreCounted, CancelStep, GoOnTo, Steps, planVars,
        stepVars, stepRunVars, limitVars, cancelVars, InLoop
<1> QED BY <1>1, <1>2, <1>3, <1>4, <1>5, <1>6, Calm

\* And marks its record, whose place in the list stays.
LEMMA StepReturnsKeeps ==
    ASSUME MissionInv, StepCancelReturns
    PROVE  MissionInv'
<1>0. runs' \in [Steps -> Seq(RecordStatus)] /\ \A i \in Steps : Len(runs'[i]) = Len(runs[i])
  <2> DEFINE i == stepCancel[1]
             k == stepCancel[2]
             status == MarkCancelled(runs[stepCancel[1]][stepCancel[2]])
  <2>1. i \in Steps /\ k \in 1..Len(runs[i]) => status \in RecordStatus
    BY DEF MissionInv, MissionTypes, StepCancelReturns, MarkCancelled, Terminal, RecordStatus
  <2>2. runs' = Write(runs, i, k, status)
    BY DEF Write, MissionInv, MissionTypes, StepCancelReturns, MarkCancelled, Terminal,
          RecordStatus
  <2>3. runs \in [Steps -> Seq(RecordStatus)]
    BY DEF MissionInv, MissionTypes
  <2> HIDE DEF i, k, status
  <2> QED BY <2>1, <2>2, <2>3, Written
<1>1. MissionTypes'
  BY <1>0, LimitsAssumption, SMTT(30) DEF MissionInv, MissionTypes, Standing, UnderWay, StepCancelReturns,
        MarkCancelled, Terminal, GoOnTo, Steps, planVars, stepVars, stepRunVars, limitVars,
        cancelVars, MissionPlaces, RecordStatus
<1>2. Standing'
  BY LimitsAssumption DEF MissionInv, MissionTypes, Standing, StepCancelReturns, MarkCancelled,
        Terminal, GoOnTo, Steps, planVars, stepVars, stepRunVars, limitVars, cancelVars, InLoop,
        MissionPlaces, RecordStatus
<1>3. UnderWay'
  BY DEF MissionInv, MissionTypes, Standing, UnderWay, StepCancelReturns, MarkCancelled,
        Terminal, GoOnTo, Steps, planVars, stepVars, stepRunVars, limitVars, cancelVars
<1>4. RecordFollowsMission'
  BY DEF MissionInv, Standing, RecordFollowsMission, StepCancelReturns, MarkCancelled, Terminal,
        GoOnTo, Steps, planVars, stepVars, stepRunVars, limitVars, cancelVars, InLoop
<1>5. NoStepIsForgotten'
  BY DEF MissionInv, MissionTypes, Standing, UnderWay, TurnsAreCounted, NoStepIsForgotten,
        StepCancelReturns, MarkCancelled, Terminal, GoOnTo, Steps, planVars, stepVars,
        stepRunVars, limitVars, cancelVars, InLoop
<1>6. /\ UNCHANGED <<plan, stat, retries>> /\ \A i \in Steps : Len(runs'[i]) = Len(runs[i])
      /\ place' \in InLoop => place \in InLoop /\ UNCHANGED <<iterations, halted>>
      /\ halted' # "max_loop_iterations"
  BY <1>0 DEF MissionInv, MissionTypes, TurnsAreCounted, StepCancelReturns, MarkCancelled,
        Terminal, GoOnTo, Steps, planVars, stepVars, stepRunVars, limitVars, cancelVars, InLoop
<1> QED BY <1>1, <1>2, <1>3, <1>4, <1>5, <1>6, Calm

\* A limit ends the mission, and it is not the loop counter's.
LEMMA HaltKeeps ==
    ASSUME MissionInv, NEW why, Halt(why)
    PROVE  MissionInv'
<1>1. iterations < MaxLoopIterations /\ iterations \in Nat
  BY LimitIsFar DEF MissionInv, MissionTypes, Halt, InLoop
<1>2. why \in {"max_runtime", "max_tool_calls"} /\ MaxLoopIterations \in Nat
  BY <1>1, LimitsAssumption DEF Halt, MaxLoopIterations
<1>3. MissionTypes'
  BY <1>1, <1>2 DEF MissionInv, MissionTypes, Halt, Fail, OnEvent, GoOnTo, Steps, planVars,
        stepVars, stepRunVars, cancelVars, MissionPlaces, RecordStatus
<1>4. Standing' /\ RecordFollowsMission'
  BY DEF MissionInv, Standing, RecordFollowsMission, Halt, Fail, OnEvent, GoOnTo, InLoop, planVars
<1>5. UnderWay' /\ NoStepIsForgotten'
  BY <1>2 DEF MissionInv, UnderWay, NoStepIsForgotten, Halt, Fail, GoOnTo, Steps, planVars,
        stepVars
<1>6. UNCHANGED <<plan, stat, retries, runs>> /\ place' = "closing"
  BY DEF Halt, Fail, GoOnTo, planVars, stepVars
<1>7. halted' # "max_loop_iterations"
  BY <1>2 DEF Halt
<1> QED BY <1>3, <1>4, <1>5, <1>6, <1>7, Calm DEF InLoop

\* Where the loop finds no next step, none is pending: an acyclic plan would
\* have one whose dependencies are not pending, and so the least of these.
LEMMA LoopIsExhausted ==
    ASSUME MissionInv, place = "loop", ~ \E i \in Steps : NextStep(i)
    PROVE  \A i \in Steps : StepDone(stat[i])
<1> DEFINE Waiting == {i \in Steps : stat[i] = "PENDING"}
           Ready == {i \in Waiting : \A j \in DepsOf(i) : StepDone(stat[j])}
<1>1. \A i \in Steps : stat[i] = "PENDING" \/ StepDone(stat[i])
  BY DEF MissionInv, MissionTypes, UnderWay, StepStatus, StepDone
<1>2. SUFFICES ASSUME Waiting # {} PROVE FALSE
  BY <1>1
<1>3. PICK i \in Waiting : \A j \in Waiting : plan[j].id \notin plan[i].deps
  <2>1. Acyclic(plan)
    BY DEF MissionInv, TurnsAreCounted, ValidPlan, InLoop
  <2>2. Waiting \in SUBSET DOMAIN plan
    BY DEF Steps
  <2> QED BY <1>2, <2>1, <2>2 DEF Acyclic
<1>4. i \in Ready
  BY <1>1, <1>3 DEF DepsOf
<1>5. Steps \in SUBSET Nat /\ IsFiniteSet(Steps) /\ Steps = 1..Len(plan)
  BY UsedIsNat, FS_Interval DEF MissionInv
<1>6. Ready \in SUBSET Nat /\ IsFiniteSet(Ready) /\ Ready # {}
  BY <1>4, <1>5, FS_Subset
<1>7. PICK m \in Ready : \A k \in Ready : m <= k
  <2> HIDE DEF Ready
  <2> QED BY <1>6, LeastOf
<1>8. ASSUME NEW k \in 1..(m - 1), stat[k] = "PENDING", \A j \in DepsOf(k) : StepDone(stat[j]) PROVE FALSE
  <2>1. m \in 1..Len(plan) /\ Len(plan) \in Nat
    BY <1>5, UsedIsNat DEF MissionInv
  <2>2. k \in 1..Len(plan) /\ k < m
    BY <2>1
  <2> QED BY <1>5, <1>7, <1>8, <2>2
<1>9. NextStep(m)
  BY <1>8 DEF NextStep
<1> QED BY <1>9

\* The loop ends, with every step ended.
LEMMA EndLoopKeeps ==
    ASSUME MissionInv, EndLoop
    PROVE  MissionInv'
<1>1. \A i \in Steps : StepDone(stat[i])
  BY LoopIsExhausted DEF EndLoop
<1>2. iterations < MaxLoopIterations /\ iterations \in Nat /\ MaxLoopIterations \in Nat
  BY LimitsAssumption DEF MissionInv, MissionTypes, EndLoop, Within, MaxLoopIterations
<1>3. MissionTypes'
  BY <1>2 DEF MissionInv, MissionTypes, EndLoop, Turn, GoOnTo, Steps, planVars, stepVars,
        stepRunVars, cancelVars, MissionPlaces
<1>4. Standing' /\ RecordFollowsMission'
  BY DEF MissionInv, Standing, RecordFollowsMission, EndLoop, Turn, GoOnTo, InLoop, planVars
<1>5. UnderWay' /\ NoStepIsForgotten'
  BY <1>1 DEF MissionInv, UnderWay, NoStepIsForgotten, EndLoop, GoOnTo, Steps, planVars,
        stepVars, StepDone
<1>6. UNCHANGED <<plan, stat, retries, runs, halted>> /\ place' \notin InLoop
  BY DEF EndLoop, Turn, GoOnTo, planVars, stepVars, InLoop
<1>7. halted' # "max_loop_iterations"
  BY <1>6 DEF MissionInv, TurnsAreCounted
<1> QED BY <1>3, <1>4, <1>5, <1>6, <1>7, Calm

-----------------------------------------------------------------------------
(* The steps that move the plan and its steps.                             *)

\* An accepted plan is within the limit and has used no turn.
LEMMA AcceptedKeeps ==
    ASSUME MissionInv, NEW raw \in RawPlans, PlanAccepted(raw)
    PROVE  MissionInv'
<1>1. Steps = {} /\ Steps' = DOMAIN raw /\ plan' = raw
  BY DEF MissionInv, Standing, PlanAccepted, Steps
<1>2. raw \in Seq(Range(raw)) /\ MaxRetries \in Nat
  BY PlansAssumption, LimitsAssumption
<1>3. \A i \in DOMAIN raw : stat'[i] = "PENDING" /\ retries'[i] = 0 /\ runs'[i] = <<>>
  BY DEF PlanAccepted
<1>4. MissionTypes'
  <2>1. stat' \in [DOMAIN raw -> StepStatus] /\ retries' \in [DOMAIN raw -> 0..MaxRetries]
    BY <1>2 DEF PlanAccepted, StepStatus
  <2>2. runs' \in [DOMAIN raw -> Seq(RecordStatus)]
    BY DEF PlanAccepted
  <2>3. cur' = 0 /\ stepCancel' = <<>>
    BY <1>1 DEF MissionInv, MissionTypes, Standing, UnderWay, PlanAccepted, stepRunVars,
          cancelVars
  <2> QED BY <1>1, <2>1, <2>2, <2>3 DEF MissionInv, MissionTypes, PlanAccepted, GoOnTo,
                stepRunVars, limitVars, cancelVars, MissionPlaces
<1>5. Standing' /\ UnderWay' /\ RecordFollowsMission' /\ NoStepIsForgotten'
  BY <1>1, <1>3 DEF MissionInv, Standing, UnderWay, RecordFollowsMission, NoStepIsForgotten,
        PlanAccepted, GoOnTo, InLoop
<1>6. Tried'
  BY <1>1, <1>3 DEF Tried
<1>7. TurnsAreCounted'
  <2>1. ASSUME NEW i \in Steps' PROVE Used(i)' = 0
    <3>1. stat'[i] # "SKIPPED" /\ Len(runs'[i]) = 0
      BY <1>1, <1>3
    <3> QED BY <3>1 DEF Used
  <2>2. Turns' = {}
    BY <1>2, <2>1 DEF Turns
  <2>3. Cardinality(Turns') = 0
    BY <2>2, FS_EmptySet
  <2>4. iterations' = 0 /\ halted' = "none"
    BY DEF MissionInv, Standing, PlanAccepted, limitVars
  <2> QED BY <2>3, <2>4 DEF TurnsAreCounted, PlanAccepted
<1>8. StepsFollowDependencies'
  BY <1>1, <1>3, <1>4 DEF StepsFollowDependencies
<1> QED BY <1>4, <1>5, <1>6, <1>7, <1>8 DEF MissionInv

\* What was said of a step's dependencies stays true while those that ended keep
\* their status.
LEMMA Kept ==
    ASSUME MissionTypes', plan' = plan, \A j \in Steps : StepDone(stat[j]) => stat'[j] = stat[j],
           \A k \in Steps : stat'[k] \in {"RUNNING", "WAITING_APPROVAL", "COMPLETED", "FAILED"} =>
               /\ \A j \in DepsOf(k) : stat[j] \in {"COMPLETED", "FAILED", "SKIPPED"}
               /\ plan[k].runIf = "on_success" => \A j \in DepsOf(k) : stat[j] = "COMPLETED"
               /\ plan[k].runIf = "on_failure" => \E j \in DepsOf(k) : stat[j] = "FAILED"
    PROVE  StepsFollowDependencies'
<1>1. \A k \in Steps : DepsOf(k)' = DepsOf(k) /\ DepsOf(k) \in SUBSET Steps
  BY DEF DepsOf, Steps
<1>2. \A k \in Steps : stat'[k] \in {"RUNNING", "WAITING_APPROVAL", "COMPLETED", "FAILED"} =>
          /\ \A j \in DepsOf(k) : stat'[j] \in {"COMPLETED", "FAILED", "SKIPPED"}
          /\ plan[k].runIf = "on_success" => \A j \in DepsOf(k) : stat'[j] = "COMPLETED"
          /\ plan[k].runIf = "on_failure" => \E j \in DepsOf(k) : stat'[j] = "FAILED"
  BY <1>1 DEF StepDone
<1>3. Steps' = Steps
  BY DEF Steps
<1> QED BY <1>1, <1>2, <1>3 DEF StepsFollowDependencies

\* A skipped step has used one turn.
LEMMA SkipKeeps ==
    ASSUME MissionInv, NEW i \in Steps, SkipStep(i)
    PROVE  MissionInv'
<1>1. /\ stat[i] = "PENDING" /\ stat' = [stat EXCEPT ![i] = "SKIPPED"]
      /\ UNCHANGED <<place, mission, rec, plan, retries, runs, cur, results, halted, attempt, sessions>>
      /\ place = "loop" /\ iterations' = iterations + 1 /\ iterations < MaxLoopIterations
  BY DEF SkipStep, NextStep, Turn, Within, planVars, stepRunVars
<1>2. MissionTypes'
  <2>1. MaxLoopIterations \in Nat
    BY LimitsAssumption DEF MaxLoopIterations
  <2>2. stat' \in [Steps -> StepStatus]
    BY <1>1 DEF MissionInv, MissionTypes, StepStatus
  <2> QED BY <1>1, <2>1, <2>2 DEF MissionInv, MissionTypes, SkipStep, Steps, stepRunVars,
                cancelVars, Turn
<1>3. Standing' /\ RecordFollowsMission' /\ NoStepIsForgotten'
  BY <1>1 DEF MissionInv, Standing, RecordFollowsMission, NoStepIsForgotten, InLoop
<1>4. UnderWay'
  BY <1>1 DEF MissionInv, MissionTypes, UnderWay, Steps
<1>5. Tried'
  BY <1>1 DEF MissionInv, MissionTypes, Tried, Steps
<1>6. StepsFollowDependencies'
  <2>1. \A j \in Steps : StepDone(stat[j]) => stat'[j] = stat[j]
    BY <1>1 DEF StepDone, MissionInv, MissionTypes
  <2> QED BY <1>1, <1>2, <2>1, ZenonT(30) DEF MissionInv, MissionTypes, StepsFollowDependencies, DepsOf,
                Steps, StepDone
<1>7. Cardinality(Turns)' = Cardinality(Turns) + 1
  <2>1. Len(runs[i]) \in Nat /\ Len(runs[i]) <= MaxRetries
    BY <1>1, UsedIsNat, LimitsAssumption DEF MissionInv, MissionTypes, Tried
  <2>2. Used(i) = Len(runs[i])
    BY <1>1, <2>1 DEF Used
  <2>3. Used(i)' = Len(runs[i]) + 1
    BY <1>1 DEF Used, MissionInv, MissionTypes
  <2>4. \A j \in Steps \ {i} : Used(j)' = Used(j)
    BY <1>1 DEF Used, MissionInv, MissionTypes
  <2> QED BY <1>1, <2>1, <2>2, <2>3, <2>4, TurnsGrow DEF MissionInv
<1>8. TurnsAreCounted'
  BY <1>1, <1>7 DEF MissionInv, TurnsAreCounted, InLoop
<1> QED BY <1>2, <1>3, <1>4, <1>5, <1>6, <1>8 DEF MissionInv

\* A step that starts has used one turn more: its try.
LEMMA StartKeeps ==
    ASSUME MissionInv, NEW i \in Steps, StartStep(i)
    PROVE  MissionInv'
<1>1. /\ stat[i] = "PENDING" /\ stat' = [stat EXCEPT ![i] = "RUNNING"]
      /\ runs' = [runs EXCEPT ![i] = Append(runs[i], "running")]
      /\ UNCHANGED <<mission, rec, plan, retries, halted, attempt, sessions>>
      /\ place = "loop" /\ place' = "stepping" /\ cur' = i /\ results' = 0
      /\ iterations' = iterations + 1 /\ iterations < MaxLoopIterations
  BY DEF StartStep, NextStep, Turn, Within, GoOnTo, planVars
<1>2. runs' \in [Steps -> Seq(RecordStatus)] /\ Len(runs'[i]) = Len(runs[i]) + 1
  BY <1>1 DEF MissionInv, MissionTypes, RecordStatus
<1>3. MissionTypes'
  <2>1. MaxLoopIterations \in Nat /\ 0 \in 0..CallsPerStep
    BY LimitsAssumption DEF MaxLoopIterations
  <2>2. stat' \in [Steps -> StepStatus]
    BY <1>1 DEF MissionInv, MissionTypes, StepStatus
  <2> QED BY <1>1, <1>2, <2>1, <2>2 DEF MissionInv, MissionTypes, StartStep, Steps, cancelVars,
                Turn, MissionPlaces
<1>4. Standing' /\ RecordFollowsMission' /\ NoStepIsForgotten'
  BY <1>1 DEF MissionInv, Standing, RecordFollowsMission, NoStepIsForgotten, InLoop
<1>5. UnderWay'
  BY <1>1 DEF MissionInv, MissionTypes, UnderWay, Steps
<1>6. \A j \in Steps : Len(runs[j]) \in Nat /\ retries[j] \in 0..MaxRetries
  BY UsedIsNat DEF MissionInv, MissionTypes
<1>7. Tried'
  BY <1>1, <1>2, <1>6, LimitsAssumption, SMTT(30) DEF MissionInv, MissionTypes, Tried, Steps
<1>8. StepsFollowDependencies'
  <2>1. \A j \in Steps : StepDone(stat[j]) => stat'[j] = stat[j]
    BY <1>1 DEF StepDone, MissionInv, MissionTypes
  <2>2. /\ \A j \in DepsOf(i) : stat[j] \in {"COMPLETED", "FAILED", "SKIPPED"}
        /\ plan[i].runIf = "on_success" => \A j \in DepsOf(i) : stat[j] = "COMPLETED"
        /\ plan[i].runIf = "on_failure" => \E j \in DepsOf(i) : stat[j] = "FAILED"
    BY DEF StartStep, NextStep, Eligible, StepDone
  <2>3. ASSUME NEW k \in Steps, stat'[k] \in {"RUNNING", "WAITING_APPROVAL", "COMPLETED", "FAILED"}
        PROVE  /\ \A j \in DepsOf(k) : stat[j] \in {"COMPLETED", "FAILED", "SKIPPED"}
               /\ plan[k].runIf = "on_success" => \A j \in DepsOf(k) : stat[j] = "COMPLETED"
               /\ plan[k].runIf = "on_failure" => \E j \in DepsOf(k) : stat[j] = "FAILED"
    <3>1. CASE k = i
      BY <2>2, <3>1
    <3>2. CASE k # i
      <4>1. stat'[k] = stat[k]
        BY <1>1, <3>2 DEF MissionInv, MissionTypes
      <4> QED BY <2>3, <4>1 DEF MissionInv, StepsFollowDependencies
    <3> QED BY <3>1, <3>2
  <2> QED BY <1>1, <1>3, <2>1, <2>3, Kept
<1>9. Cardinality(Turns)' = Cardinality(Turns) + 1
  <2>1. Len(runs[i]) <= MaxRetries
    BY <1>1, <1>6, LimitsAssumption DEF MissionInv, MissionTypes, Tried
  <2>2. Used(i) = Len(runs[i])
    BY <1>1, <1>6 DEF Used
  <2>3. Used(i)' = Len(runs[i]) + 1
    BY <1>1, <1>2, <1>6 DEF Used, MissionInv, MissionTypes
  <2>4. \A j \in Steps \ {i} : Used(j)' = Used(j)
    BY <1>1 DEF Used, MissionInv, MissionTypes
  <2> QED BY <1>1, <1>6, <2>1, <2>2, <2>3, <2>4, TurnsGrow DEF MissionInv
<1>10. TurnsAreCounted'
  BY <1>1, <1>9 DEF MissionInv, TurnsAreCounted, InLoop
<1> QED BY <1>3, <1>4, <1>5, <1>7, <1>8, <1>10 DEF MissionInv

\* Asking only says so, of a step that is running already.
LEMMA AskKeeps ==
    ASSUME MissionInv, AskUser
    PROVE  MissionInv'
<1>1. /\ place = "stepping" /\ place' = "waiting" /\ results < CallsPerStep
      /\ stat' = [stat EXCEPT ![cur] = "WAITING_APPROVAL"] /\ cur \in Steps
      /\ stat[cur] \in {"RUNNING", "WAITING_APPROVAL"} /\ rec' = OnPrompt(rec) /\ prompt' = "pending"
      /\ UNCHANGED <<mission, plan, retries, cur, results, iterations, halted, attempt, sessions, toolCalls>>
  BY DEF MissionInv, UnderWay, AskUser, Sinks, GoOnTo, planVars, limitVars
<1>2. runs' \in [Steps -> Seq(RecordStatus)] /\ \A j \in Steps : Len(runs'[j]) = Len(runs[j])
  <2> DEFINE k == Len(runs[cur])
             status == OnPrompt(runs[cur][Len(runs[cur])])
  <2>1. cur \in Steps /\ k \in 1..Len(runs[cur]) => status \in RecordStatus
    BY DEF MissionInv, MissionTypes, OnPrompt, Terminal, RecordStatus
  <2>2. runs' = Write(runs, cur, k, status)
    BY DEF Write, AskUser, Sinks
  <2>3. runs \in [Steps -> Seq(RecordStatus)]
    BY DEF MissionInv, MissionTypes
  <2> HIDE DEF k, status
  <2> QED BY <2>1, <2>2, <2>3, Written
<1>3. MissionTypes'
  <2>1. stat' \in [Steps -> StepStatus]
    BY <1>1 DEF MissionInv, MissionTypes, StepStatus
  <2>2. rec' \in RecordStatus
    BY <1>1 DEF MissionInv, MissionTypes, OnPrompt, RecordStatus
  <2> QED BY <1>1, <1>2, <2>1, <2>2 DEF MissionInv, MissionTypes, AskUser, Steps, cancelVars,
                MissionPlaces
<1>4. Standing' /\ RecordFollowsMission' /\ NoStepIsForgotten'
  BY <1>1 DEF MissionInv, Standing, RecordFollowsMission, NoStepIsForgotten, OnPrompt, InLoop
<1>5. UnderWay'
  BY <1>1 DEF MissionInv, MissionTypes, UnderWay, Steps
<1>6. Tried'
  BY <1>1, <1>2 DEF MissionInv, MissionTypes, Tried, Steps
<1>7. StepsFollowDependencies'
  <2>1. \A j \in Steps : StepDone(stat[j]) => stat'[j] = stat[j]
    BY <1>1 DEF StepDone, MissionInv, MissionTypes
  <2>2. \A k \in Steps : stat'[k] \in {"RUNNING", "WAITING_APPROVAL", "COMPLETED", "FAILED"} =>
                             stat[k] \in {"RUNNING", "WAITING_APPROVAL", "COMPLETED", "FAILED"}
    BY <1>1 DEF MissionInv, MissionTypes
  <2> QED BY <1>1, <1>3, <2>1, <2>2, Kept DEF MissionInv, StepsFollowDependencies
<1>8. TurnsAreCounted'
  <2>1. \A j \in Steps : Used(j)' = Used(j)
    BY <1>1, <1>2 DEF Used, MissionInv, MissionTypes
  <2>2. Turns' = Turns
    BY <1>1, <2>1, TurnsStay
  <2> QED BY <1>1, <2>2 DEF MissionInv, TurnsAreCounted, InLoop
<1> QED BY <1>3, <1>4, <1>5, <1>6, <1>7, <1>8 DEF MissionInv

\* The end of a run ends the try: the step has ended or may be tried again.
LEMMA StepEndsKeeps ==
    ASSUME MissionInv, NEW error, NEW unmet, StepEnds(error, unmet)
    PROVE  MissionInv'
<1>1. /\ place = "stepping" /\ place' = "loop" /\ cur' = 0 /\ cur \in Steps
      /\ stat[cur] \in {"RUNNING", "WAITING_APPROVAL"} /\ results' = 0
      /\ UNCHANGED <<mission, plan, rec, iterations, halted, attempt, sessions>>
  BY DEF MissionInv, UnderWay, StepEnds, GoOnTo, planVars
<1>2. \/ stat' = [stat EXCEPT ![cur] = "COMPLETED"] /\ retries' = retries
      \/ stat' = [stat EXCEPT ![cur] = "FAILED"] /\ retries' = retries
      \/ /\ stat' = [stat EXCEPT ![cur] = "PENDING"] /\ retries' = [retries EXCEPT ![cur] = retries[cur] + 1]
         /\ Permission[plan[cur].tool] = "SAFE" /\ retries[cur] < MaxRetries
  BY DEF StepEnds, CanRetry
<1>3. runs' \in [Steps -> Seq(RecordStatus)] /\ \A j \in Steps : Len(runs'[j]) = Len(runs[j])
  <2> DEFINE k == Len(runs[cur])
             status == IF error THEN "error" ELSE "completed"
  <2>1. cur \in Steps /\ k \in 1..Len(runs[cur]) => status \in RecordStatus
    BY DEF RecordStatus
  <2>2. runs' = Write(runs, cur, k, status)
    BY DEF Write, StepEnds
  <2>3. runs \in [Steps -> Seq(RecordStatus)]
    BY DEF MissionInv, MissionTypes
  <2> HIDE DEF k, status
  <2> QED BY <2>1, <2>2, <2>3, Written
<1>4. MissionTypes'
  <2>1. stat' \in [Steps -> StepStatus]
    BY <1>1, <1>2 DEF MissionInv, MissionTypes, StepStatus
  <2>2. retries' \in [Steps -> 0..MaxRetries]
    <3>1. retries \in [Steps -> 0..MaxRetries] /\ MaxRetries \in Nat
      BY LimitsAssumption DEF MissionInv, MissionTypes
    <3>2. retries[cur] < MaxRetries => retries[cur] + 1 \in 0..MaxRetries
      BY <1>1, <3>1
    <3> QED BY <1>1, <1>2, <3>1, <3>2
  <2>3. toolCalls' \in Nat /\ 0 \in 0..CallsPerStep
    BY LimitsAssumption DEF MissionInv, MissionTypes, StepEnds
  <2> QED BY <1>1, <1>3, <2>1, <2>2, <2>3 DEF MissionInv, MissionTypes, StepEnds, Steps,
                cancelVars, MissionPlaces
<1>5. Standing' /\ RecordFollowsMission' /\ NoStepIsForgotten'
  BY <1>1 DEF MissionInv, Standing, RecordFollowsMission, NoStepIsForgotten, InLoop
<1>6. UnderWay'
  BY <1>1, <1>2 DEF MissionInv, MissionTypes, UnderWay, Steps
<1>7. Tried'
  <2> SUFFICES ASSUME NEW j \in Steps
               PROVE  /\ Len(runs'[j]) <= retries'[j] + (IF stat'[j] \in {"PENDING", "SKIPPED"} THEN 0 ELSE 1)
                      /\ Permission[plan[j].tool] # "SAFE" => retries'[j] = 0
    BY <1>1 DEF Tried, Steps
  <2> DEFINE n == Len(runs[j])
  <2>1. n \in Nat /\ retries[j] \in Nat /\ Len(runs'[j]) = n
    BY <1>3, UsedIsNat, LimitsAssumption DEF MissionInv, MissionTypes
  <2>2. /\ n <= retries[j] + (IF stat[j] \in {"PENDING", "SKIPPED"} THEN 0 ELSE 1)
        /\ Permission[plan[j].tool] # "SAFE" => retries[j] = 0
    BY DEF MissionInv, Tried
  <2>3. stat \in [Steps -> StepStatus] /\ retries \in [Steps -> 0..MaxRetries]
    BY DEF MissionInv, MissionTypes
  <2> HIDE DEF n
  <2>4. CASE j = cur
    <3>1. n <= retries[j] + 1
      BY <1>1, <2>2, <2>4
    <3>2. \/ stat'[j] = "PENDING" /\ retries'[j] = retries[j] + 1 /\ Permission[plan[j].tool] = "SAFE"
          \/ stat'[j] \in {"COMPLETED", "FAILED"} /\ retries'[j] = retries[j]
      BY <1>1, <1>2, <2>3, <2>4, Zenon
    <3> QED BY <2>1, <2>2, <3>1, <3>2
  <2>5. CASE j # cur
    <3>1. stat'[j] = stat[j] /\ retries'[j] = retries[j]
      BY <1>1, <1>2, <2>3, <2>5
    <3> QED BY <2>1, <2>2, <3>1
  <2> QED BY <2>4, <2>5
<1>8. StepsFollowDependencies'
  <2>1. \A j \in Steps : StepDone(stat[j]) => stat'[j] = stat[j]
    BY <1>1, <1>2 DEF StepDone, MissionInv, MissionTypes
  <2>2. \A k \in Steps : stat'[k] \in {"RUNNING", "WAITING_APPROVAL", "COMPLETED", "FAILED"} =>
                             stat[k] \in {"RUNNING", "WAITING_APPROVAL", "COMPLETED", "FAILED"}
    BY <1>1, <1>2 DEF MissionInv, MissionTypes
  <2> QED BY <1>1, <1>4, <2>1, <2>2, Kept DEF MissionInv, StepsFollowDependencies
<1>9. TurnsAreCounted'
  <2>1. \A j \in Steps : Used(j)' = Used(j)
    BY <1>1, <1>2, <1>3 DEF Used, MissionInv, MissionTypes
  <2>2. Turns' = Turns
    BY <1>1, <2>1, TurnsStay
  <2> QED BY <1>1, <2>2 DEF MissionInv, TurnsAreCounted, InLoop
<1> QED BY <1>4, <1>5, <1>6, <1>7, <1>8, <1>9 DEF MissionInv

\* A cancel inside engine.run cancels what had not ended, and leaves the loop.
LEMMA DeliverKeeps ==
    ASSUME MissionInv, DeliverCancel
    PROVE  MissionInv'
<1>1. /\ mission' = "CANCELLED" /\ place' = "unwinding" /\ place # "done"
      /\ \A i \in Steps : stat'[i] = IF StepDone(stat[i]) THEN stat[i] ELSE "CANCELLED"
      /\ UNCHANGED <<plan, retries, runs, rec, halted, attempt, sessions>>
  BY DEF DeliverCancel, CancelSteps, GoOnTo, planVars, limitVars
<1>2. MissionTypes'
  <2>1. stat' \in [Steps -> StepStatus]
    BY DEF DeliverCancel, CancelSteps, StepDone, StepStatus
  <2>2. cancelling' \in BOOLEAN
    BY DEF DeliverCancel
  <2> QED BY <1>1, <2>1, <2>2 DEF MissionInv, MissionTypes, DeliverCancel, limitVars, Steps,
                MissionPlaces
<1>3. Standing' /\ RecordFollowsMission' /\ NoStepIsForgotten' /\ TurnsAreCounted'
  BY <1>1 DEF MissionInv, Standing, RecordFollowsMission, NoStepIsForgotten, TurnsAreCounted,
        InLoop
<1>4. UnderWay'
  BY <1>1 DEF UnderWay, StepDone, Steps
<1>5. Tried'
  <2>1. \A j \in Steps : Len(runs[j]) \in Nat /\ retries[j] \in Nat
    BY UsedIsNat, LimitsAssumption DEF MissionInv, MissionTypes
  <2> QED BY <1>1, <2>1 DEF MissionInv, Tried, Steps, StepDone
<1>6. StepsFollowDependencies'
  <2>1. \A j \in Steps : StepDone(stat[j]) => stat'[j] = stat[j]
    BY <1>1
  <2>2. \A k \in Steps : stat'[k] \in {"RUNNING", "WAITING_APPROVAL", "COMPLETED", "FAILED"} =>
                             stat[k] \in {"RUNNING", "WAITING_APPROVAL", "COMPLETED", "FAILED"}
    BY <1>1
  <2> QED BY <1>1, <1>2, <2>1, <2>2, Kept DEF MissionInv, StepsFollowDependencies
<1> QED BY <1>2, <1>3, <1>4, <1>5, <1>6 DEF MissionInv

-----------------------------------------------------------------------------
(* The theorems.                                                           *)

\* Every step of the mission keeps the invariant.
LEMMA StepHolds ==
    ASSUME MissionInv, [MissionNext]_missionVars
    PROVE  MissionInv'
<1>1. CASE Open \/ OpenFails \/ Summarised \/ CloseMission \/ CloseFails
  BY <1>1, OpenKeeps, OpenFailsKeeps, SummarisedKeeps, CloseKeeps, CloseFailsKeeps
<1>2. CASE Planning
  BY <1>2, AcceptedKeeps, TooLongKeeps, RejectedKeeps DEF Planning
<1>3. CASE Loop
  BY <1>3, HaltKeeps, SkipKeeps, StartKeeps, EndLoopKeeps DEF Loop
<1>4. CASE InStep
  BY <1>4, CallKeeps, ResumeKeeps, AskKeeps, RefusedKeeps, StepEndsKeeps DEF InStep
<1>5. CASE Expires \/ User
  <2>1. CASE Expires \/ UserDecides
    BY <2>1, SettleKeeps DEF Expires, UserDecides
  <2>2. CASE Cancel \/ \E i \in Steps : CancelStep(i)
    BY <2>2, CancelKeeps, CancelStepKeeps
  <2> QED BY <1>5, <2>1, <2>2 DEF User
<1>6. CASE Cancelled \/ StepCancelReturns
  BY <1>6, DeliverKeeps, OutsideKeeps, UnwoundKeeps, ReturnsKeeps, StepReturnsKeeps
     DEF Cancelled
<1>7. CASE UNCHANGED missionVars
  <2>1. UNCHANGED <<place, mission, rec, sessions, attempt, plan, stat, retries, runs, cur, prompt, result, results,
                    toolCalls, iterations, halted, cancelling, polling, stepCancel>>
    BY <1>7 DEF missionVars, planVars, stepVars, stepRunVars, limitVars, cancelVars
  <2>2. MissionTypes' /\ Standing' /\ UnderWay' /\ RecordFollowsMission' /\ NoStepIsForgotten'
    BY <2>1 DEF MissionInv, MissionTypes, Standing, UnderWay, RecordFollowsMission,
          NoStepIsForgotten, Steps
  <2>3. halted' # "max_loop_iterations"
    BY <2>1 DEF MissionInv, TurnsAreCounted
  <2> QED BY <2>1, <2>2, <2>3, Calm
<1> QED BY <1>1, <1>2, <1>3, <1>4, <1>5, <1>6, <1>7 DEF MissionNext

\* For any plans, permissions and limits, everything above holds throughout.
THEOREM MissionInvHolds == MissionSpec => []MissionInv
<1>1. MissionInv /\ [MissionNext]_missionVars => MissionInv'
  BY StepHolds
<1> QED BY <1>1, InitHolds, PTL DEF MissionSpec

\* No step runs on the wrong side of its dependencies and run_if, whatever its
\* plan, and the loop leaves none behind that it could still have run.
THEOREM PlanHolds == MissionSpec => []PlanIsFollowed
<1>1. MissionInv => PlanIsFollowed
  BY DEF MissionInv, PlanIsFollowed
<1> QED BY <1>1, MissionInvHolds, PTL

\* A CONFIRM tool is called in one run of its step only, a SAFE one in no more
\* than its retries allow, and so max_loop_iterations never ends a mission: the
\* turns of the loop are tries and skips, of which there are fewer.
THEOREM RetriesHold == MissionSpec => []RetriesAreBounded
<1>1. ASSUME MissionInv PROVE RetriesAreBounded
  <2>1. halted # "max_loop_iterations"
    BY <1>1 DEF MissionInv, TurnsAreCounted
  <2>2. \A i \in Steps : Len(runs[i]) \in Nat /\ retries[i] \in 0..MaxRetries
    BY <1>1, UsedIsNat DEF MissionInv, MissionTypes
  <2>3. \A i \in Steps : Len(runs[i]) <= retries[i] + 1
    BY <1>1, <2>2, LimitsAssumption DEF MissionInv, Tried
  <2> QED BY <1>1, <2>1, <2>2, <2>3, LimitsAssumption DEF MissionInv, Tried, RetriesAreBounded
<1> QED BY <1>1, MissionInvHolds, PTL

\* The record of a mission ends as the mission did, however its end, its cancel
\* and the cancel's return interleave; only sessions of the run's own that fail to
\* close make an error of one that did not fail, and always do.
THEOREM RecordHolds == MissionSpec => []RecordFollowsMission
<1>1. MissionInv => RecordFollowsMission
  BY DEF MissionInv
<1> QED BY <1>1, MissionInvHolds, PTL

\* Once a mission is cancelled no run of a step is added.
THEOREM CancelledHolds == MissionSpec => CancelledStartsNothing
<1> DEFINE Starts == mission = "CANCELLED" => \A i \in Steps : Len(runs'[i]) = Len(runs[i])
<1>1. ASSUME MissionInv, MissionNext, mission = "CANCELLED"
      PROVE  \A i \in Steps : Len(runs'[i]) = Len(runs[i])
  <2>1. place \notin {"opening", "planning", "loop", "stepping", "waiting", "summarising", "closing"}
    BY <1>1 DEF MissionInv, Standing, InLoop
  <2>2. CASE StepCancelReturns
    <3> DEFINE i == stepCancel[1]
               k == stepCancel[2]
               status == MarkCancelled(runs[stepCancel[1]][stepCancel[2]])
    <3>1. i \in Steps /\ k \in 1..Len(runs[i]) => status \in RecordStatus
      BY <1>1, <2>2 DEF MissionInv, MissionTypes, StepCancelReturns, MarkCancelled, Terminal,
            RecordStatus
    <3>2. runs' = Write(runs, i, k, status)
      BY <2>2 DEF Write, StepCancelReturns
    <3>3. runs \in [Steps -> Seq(RecordStatus)]
      BY <1>1 DEF MissionInv, MissionTypes
    <3> HIDE DEF i, k, status
    <3> QED BY <3>1, <3>2, <3>3, Written
  <2>3. CASE ~StepCancelReturns
    <3>1. runs' = runs
      BY <1>1, <2>1, <2>3 DEF MissionNext, Open, OpenFails, Planning, PlanAccepted, PlanTooLong,
            PlanRejected,
         Loop, Halt, SkipStep, StartStep, EndLoop, InStep, CallTool, Resume, AskUser, AlreadyRefused, StepEnds,
         Expires, SettlePrompt, Summarised, CloseMission, CloseFails, User, UserDecides, Cancel, CancelStep,
         Cancelled, DeliverCancel, DeliverOutside, Unwound, CancelReturns, stepVars
    <3> QED BY <3>1
  <2> QED BY <2>2, <2>3
<1>2. MissionInv /\ [MissionNext]_missionVars => [Starts]_missionVars
  BY <1>1
<1> QED BY <1>2, MissionInvHolds, PTL DEF MissionSpec, CancelledStartsNothing

-----------------------------------------------------------------------------
(* The panel: what a sequence of events makes of it.                       *)

\* What is so at first, and stays so with each number up to n, is so for all.
LEMMA UpTo ==
    ASSUME NEW n \in Nat, NEW P, 0 \in P, \A k \in 1..n : k - 1 \in P => k \in P
    PROVE  \A k \in 0..n : k \in P
<1> DEFINE bad == {k \in 0..n : k \notin P}
<1> SUFFICES ASSUME bad # {} PROVE FALSE
  OBVIOUS
<1>1. IsFiniteSet(0..n) /\ bad \in SUBSET Nat
  BY FS_Interval
<1>2. IsFiniteSet(bad)
  BY <1>1, FS_Subset
<1>3. PICK m \in bad : \A k \in bad : m <= k
  BY <1>1, <1>2, LeastOf
<1>4. m \in 1..n
  BY <1>3
<1>5. m - 1 \in 0..n /\ ~(m <= m - 1)
  BY <1>4
<1>6. m - 1 \in P
  BY <1>3, <1>5
<1> QED BY <1>3, <1>4, <1>6

Events == [what : StepStates \cup {"started", "planned", "over", "ended"}, step : Nat]
Panels == [known : BOOLEAN, steps : Seq(StepStates \cup {"pending"}), finished : BOOLEAN]

\* h is the panel after each of the first events.
Hears(h, p, s) ==
    /\ h \in [0..Len(s) -> {h[k] : k \in 0..Len(s)}]
    /\ h[0] = p /\ \A k \in 1..Len(s) : h[k] = Advance(h[k - 1], s[k])

\* One turn of the fold, given what it says of fewer places.
FoldTurn(p, s, says, I) == IF I = {} THEN p ELSE Advance(says[I \ {Max(I)}], s[Max(I)])

\* The largest of the first m numbers, or some of them, leaves fewer.
LEMMA Largest ==
    ASSUME NEW m \in Nat \ {0}, NEW I \in SUBSET (1..m)
    PROVE  /\ m \in I => Max(I) = m
           /\ I # {} /\ m \notin I => I \in SUBSET (1..(m - 1))
<1>1. ASSUME m \in I PROVE Max(I) = m
  <2>1. m \in I /\ \A y \in I : m >= y
    BY <1>1
  <2>2. \A x \in I : (\A y \in I : x >= y) => x = m
    BY <1>1
  <2> QED BY <2>1, <2>2 DEF Max
<1>2. ASSUME m \notin I PROVE I \in SUBSET (1..(m - 1))
  BY <1>2
<1> QED BY <1>1, <1>2

\* The fold has a value on every set of the first n places.
LEMMA FoldHasValue ==
    ASSUME NEW p, NEW s, NEW n \in Nat
    PROVE  \E f : f = [I \in SUBSET (1..n) |-> FoldTurn(p, s, f, I)]
<1> DEFINE P == {k \in 0..n : \E f : f = [I \in SUBSET (1..k) |-> FoldTurn(p, s, f, I)]}
<1>1. 0 \in P
  <2> DEFINE f == [I \in SUBSET (1..0) |-> p]
  <2>1. 1..0 = {}
    OBVIOUS
  <2>2. \A I \in SUBSET (1..0) : FoldTurn(p, s, f, I) = p
    BY <2>1 DEF FoldTurn
  <2>3. f = [I \in SUBSET (1..0) |-> FoldTurn(p, s, f, I)]
    BY <2>2
  <2> HIDE DEF f
  <2> QED BY <2>3
<1>2. ASSUME NEW m \in 1..n, m - 1 \in P PROVE m \in P
  <2>1. PICK g : g = [I \in SUBSET (1..(m - 1)) |-> FoldTurn(p, s, g, I)]
    BY <1>2
  <2> DEFINE f == [I \in SUBSET (1..m) |-> FoldTurn(p, s, g, I)]
  <2>2. ASSUME NEW I \in SUBSET (1..m), I # {} PROVE I \ {Max(I)} \in SUBSET (1..(m - 1))
    <3>0. m \in Nat \ {0}
      OBVIOUS
    <3>1. CASE m \in I
      <4>1. Max(I) = m
        BY <3>0, <3>1, Largest
      <4>2. I \ {m} \in SUBSET (1..(m - 1))
        BY <3>0
      <4> QED BY <4>1, <4>2
    <3>2. CASE m \notin I
      <4>1. I \in SUBSET (1..(m - 1))
        BY <2>2, <3>0, <3>2, Largest
      <4> QED BY <4>1
    <3> QED BY <3>1, <3>2
  <2>3. ASSUME NEW I \in SUBSET (1..(m - 1)) PROVE f[I] = g[I]
    <3>1. I \in SUBSET (1..m)
      OBVIOUS
    <3>2. g[I] = FoldTurn(p, s, g, I)
      BY <2>1
    <3> QED BY <3>1, <3>2
  <2> HIDE DEF f
  <2>4. ASSUME NEW I \in SUBSET (1..m) PROVE FoldTurn(p, s, f, I) = FoldTurn(p, s, g, I)
    BY <2>2, <2>3 DEF FoldTurn
  <2>5. f = [I \in SUBSET (1..m) |-> FoldTurn(p, s, f, I)]
    <3>1. f = [I \in SUBSET (1..m) |-> FoldTurn(p, s, g, I)]
      BY DEF f
    <3> QED BY <2>4, <3>1
  <2> QED BY <2>5
<1> HIDE DEF P
<1>3. \A k \in 0..n : k \in P
  BY <1>1, <1>2, UpTo
<1>4. n \in P
  BY <1>3
<1> QED BY <1>4 DEF P

\* What is made of a sequence of events is the last of what is made of its beginnings.
LEMMA RebuiltIs ==
    ASSUME NEW S, NEW s \in Seq(S), NEW p
    PROVE  \E h : Hears(h, p, s) /\ Rebuilt(p, s) = h[Len(s)]
<1> DEFINE n == Len(s)
           says == CHOOSE f : f = [I \in SUBSET DOMAIN s |-> FoldTurn(p, s, f, I)]
           h == [k \in 0..n |-> says[1..k]]
<1>1. n \in Nat /\ DOMAIN s = 1..n
  OBVIOUS
<1>2. Rebuilt(p, s) = says[DOMAIN s]
  BY DEF Rebuilt, FoldLeft, MapThenFoldSet, FoldTurn
<1> HIDE DEF n
<1>3. says = [I \in SUBSET (1..n) |-> FoldTurn(p, s, says, I)]
  BY <1>1, FoldHasValue
<1> HIDE DEF says
<1>4. h[0] = p
  <2>1. 1..0 = {} /\ 1..0 \in SUBSET (1..n)
    BY <1>1
  <2>2. says[1..0] = FoldTurn(p, s, says, 1..0)
    BY <1>3, <2>1
  <2> QED BY <1>1, <2>1, <2>2 DEF FoldTurn
<1>5. ASSUME NEW k \in 1..n PROVE h[k] = Advance(h[k - 1], s[k])
  <2>1. 1..k \in SUBSET (1..n) /\ k \in 1..k /\ 1..k # {} /\ k \in Nat \ {0} /\ k \in 0..n /\ k - 1 \in 0..n
    BY <1>1
  <2>2. Max(1..k) = k
    BY <2>1, Largest
  <2>3. (1..k) \ {k} = 1..(k - 1)
    BY <2>1
  <2>4. says[1..k] = FoldTurn(p, s, says, 1..k)
    BY <1>3, <2>1
  <2>5. says[1..k] = Advance(says[1..(k - 1)], s[k])
    BY <2>1, <2>2, <2>3, <2>4 DEF FoldTurn
  <2> QED BY <2>1, <2>5
<1>6. h \in [0..n -> {h[k] : k \in 0..n}]
  OBVIOUS
<1>7. Rebuilt(p, s) = h[n]
  BY <1>1, <1>2
<1> HIDE DEF h
<1> QED BY <1>4, <1>5, <1>6, <1>7 DEF Hears, n

\* There is one such list of panels.
LEMMA HeardOnce ==
    ASSUME NEW S, NEW s \in Seq(S), NEW p, NEW g, NEW h, Hears(g, p, s), Hears(h, p, s)
    PROVE  g[Len(s)] = h[Len(s)]
<1> DEFINE P == {k \in 0..Len(s) : g[k] = h[k]}
<1>1. Len(s) \in Nat /\ 0 \in P
  BY DEF Hears
<1>2. \A k \in 1..Len(s) : k - 1 \in P => k \in P
  BY <1>1 DEF Hears
<1> HIDE DEF P
<1>3. \A k \in 0..Len(s) : k \in P
  BY <1>1, <1>2, UpTo
<1> QED BY <1>1, <1>3 DEF P

\* Events are heard one sequence after the other.
LEMMA RebuiltOn ==
    ASSUME NEW S, NEW s \in Seq(S), NEW t \in Seq(S), NEW p
    PROVE  Rebuilt(p, s \o t) = Rebuilt(Rebuilt(p, s), t)
<1> DEFINE m == Len(s)
           n == Len(t)
<1>1. /\ s \o t \in Seq(S) /\ Len(s \o t) = m + n /\ m \in Nat /\ n \in Nat
      /\ \A k \in 1..m : (s \o t)[k] = s[k]
      /\ \A k \in 1..n : (s \o t)[m + k] = t[k]
  OBVIOUS
<1>2. PICK h : Hears(h, p, s \o t) /\ Rebuilt(p, s \o t) = h[Len(s \o t)]
  BY <1>1, RebuiltIs
<1>3. PICK g : Hears(g, p, s) /\ Rebuilt(p, s) = g[m]
  BY RebuiltIs
<1>4. PICK f : Hears(f, Rebuilt(p, s), t) /\ Rebuilt(Rebuilt(p, s), t) = f[n]
  BY RebuiltIs
<1> HIDE DEF m, n
<1> DEFINE a == [k \in 0..m |-> h[k]]
           b == [k \in 0..n |-> h[m + k]]
<1>5. h[0] = p /\ \A k \in 1..(m + n) : h[k] = Advance(h[k - 1], (s \o t)[k])
  BY <1>1, <1>2 DEF Hears
<1>6. Hears(a, p, s)
  <2>1. \A k \in 1..m : k \in 1..(m + n) /\ k \in 0..m /\ k - 1 \in 0..m
    BY <1>1
  <2>2. a[0] = p /\ \A k \in 1..m : a[k] = Advance(a[k - 1], s[k])
    <3>1. a[0] = h[0] /\ \A k \in 1..m : a[k] = h[k] /\ a[k - 1] = h[k - 1]
      BY <1>1, <2>1
    <3>2. \A k \in 1..m : h[k] = Advance(h[k - 1], s[k])
      BY <1>1, <1>5, <2>1
    <3> HIDE DEF a
    <3> QED BY <1>5, <3>1, <3>2
  <2>3. a \in [0..m -> {a[k] : k \in 0..m}]
    OBVIOUS
  <2> HIDE DEF a
  <2> QED BY <2>2, <2>3 DEF Hears, m
<1>7. a[m] = g[m] /\ a[m] = h[m]
  BY <1>1, <1>3, <1>6, HeardOnce DEF m
<1>8. Hears(b, h[m], t)
  <2>1. \A k \in 1..n : m + k \in 1..(m + n) /\ k \in 0..n /\ k - 1 \in 0..n /\ (m + k) - 1 = m + (k - 1)
    BY <1>1
  <2>2. b[0] = h[m]
    BY <1>1
  <2>3. ASSUME NEW k \in 1..n PROVE b[k] = Advance(b[k - 1], t[k])
    <3>1. b[k] = h[m + k] /\ b[k - 1] = h[(m + k) - 1]
      BY <2>1
    <3>2. h[m + k] = Advance(h[(m + k) - 1], (s \o t)[m + k])
      BY <1>5, <2>1
    <3> QED BY <1>1, <3>1, <3>2
  <2>4. b \in [0..n -> {b[k] : k \in 0..n}]
    OBVIOUS
  <2> HIDE DEF b
  <2> QED BY <2>2, <2>3, <2>4 DEF Hears, n
<1>9. b[n] = f[n] /\ b[n] = h[m + n]
  BY <1>1, <1>3, <1>4, <1>7, <1>8, HeardOnce DEF n
<1> QED BY <1>1, <1>2, <1>4, <1>9

\* No event, one, and two.
LEMMA RebuiltOfFew ==
    ASSUME NEW p
    PROVE  /\ Rebuilt(p, <<>>) = p
           /\ \A e : Rebuilt(p, <<e>>) = Advance(p, e)
<1>1. Rebuilt(p, <<>>) = p
  <2>1. PICK h : Hears(h, p, <<>>) /\ Rebuilt(p, <<>>) = h[0]
    <3>1. <<>> \in Seq({}) /\ Len(<<>>) = 0
      OBVIOUS
    <3> QED BY <3>1, RebuiltIs
  <2> QED BY <2>1 DEF Hears
<1>2. ASSUME NEW e PROVE Rebuilt(p, <<e>>) = Advance(p, e)
  <2>1. PICK h : Hears(h, p, <<e>>) /\ Rebuilt(p, <<e>>) = h[1]
    <3>1. <<e>> \in Seq({e}) /\ Len(<<e>>) = 1
      OBVIOUS
    <3> QED BY <3>1, RebuiltIs
  <2>2. Len(<<e>>) = 1 /\ <<e>>[1] = e
    OBVIOUS
  <2> QED BY <2>1, <2>2 DEF Hears
<1> QED BY <1>1, <1>2

LEMMA RebuiltOfTwo ==
    ASSUME NEW p, NEW e, NEW f
    PROVE  Rebuilt(p, <<e, f>>) = Advance(Advance(p, e), f)
<1>1. PICK h : Hears(h, p, <<e, f>>) /\ Rebuilt(p, <<e, f>>) = h[2]
  <2>1. <<e, f>> \in Seq({e, f}) /\ Len(<<e, f>>) = 2
    OBVIOUS
  <2> QED BY <2>1, RebuiltIs
<1>2. Len(<<e, f>>) = 2 /\ <<e, f>>[1] = e /\ <<e, f>>[2] = f
  OBVIOUS
<1> QED BY <1>1, <1>2 DEF Hears

\* The last events of a task mean nothing to the panel.
LEMMA EndsSayNothing ==
    ASSUME NEW S, NEW s \in Seq(S), NEW p, \A k \in DOMAIN s : s[k] = Ended
    PROVE  Rebuilt(p, s) = p
<1>1. PICK h : Hears(h, p, s) /\ Rebuilt(p, s) = h[Len(s)]
  BY RebuiltIs
<1> DEFINE P == {k \in 0..Len(s) : h[k] = p}
<1>2. Len(s) \in Nat /\ 0 \in P
  BY <1>1 DEF Hears
<1>3. \A q : Advance(q, Ended) = q
  BY DEF Advance, Ended, Of, StepStates
<1>4. ASSUME NEW k \in 1..Len(s), k - 1 \in P PROVE k \in P
  <2>1. s[k] = Ended /\ h[k - 1] = p
    BY <1>4
  <2>2. h[k] = Advance(h[k - 1], s[k])
    BY <1>1 DEF Hears
  <2> QED BY <1>2, <1>3, <2>1, <2>2
<1> HIDE DEF P
<1>5. \A k \in 0..Len(s) : k \in P
  BY <1>2, <1>4, UpTo
<1> QED BY <1>1, <1>2, <1>5 DEF P

\* The panel of a mission that has begun.
LEMMA NewIsPanel == NoPanel \in Panels /\ NewPanel \in Panels
<1>1. \A X : <<>> \in Seq(X)
  OBVIOUS
<1>2. NoPanel \in Panels
  BY <1>1 DEF NoPanel, Panels
<1>3. \A q \in Panels : [q EXCEPT !.known = TRUE] \in Panels
  BY DEF Panels
<1> QED BY <1>2, <1>3 DEF NewPanel

\* Every event leaves a panel.
LEMMA PanelsStay ==
    ASSUME NEW p \in Panels, NEW e \in Events
    PROVE  Advance(p, e) \in Panels
<1>1. NewPanel \in Panels
  BY NewIsPanel
<1>2. [p EXCEPT !.steps = [i \in 1..e.step |-> "pending"]] \in Panels
  <2>1. e.step \in Nat
    BY DEF Events
  <2>2. \A n \in Nat : [i \in 1..n |-> "pending"] \in Seq(StepStates \cup {"pending"})
    OBVIOUS
  <2> QED BY <2>1, <2>2 DEF Panels
<1>3. [p EXCEPT !.finished = TRUE] \in Panels
  BY DEF Panels
<1>4. ASSUME e.what \in StepStates, e.step \in DOMAIN p.steps PROVE [p EXCEPT !.steps[e.step] = e.what] \in Panels
  BY <1>4 DEF Panels, Events
<1> QED BY <1>1, <1>2, <1>3, <1>4 DEF Advance

\* A panel is known from its start on, and nothing changes one that is not.
LEMMA KnownStays ==
    ASSUME NEW s \in Seq(Events), NEW p \in Panels, ~Rebuilt(p, s).known
    PROVE  Rebuilt(p, s) = p
<1>1. PICK h : Hears(h, p, s) /\ Rebuilt(p, s) = h[Len(s)]
  BY RebuiltIs
<1> DEFINE P == {k \in 0..Len(s) : h[k] \in Panels /\ (h[k] = p \/ h[k].known)}
<1>2. Len(s) \in Nat /\ 0 \in P
  BY <1>1 DEF Hears
<1>3. \A q \in Panels, e \in Events : Advance(q, e) = q \/ Advance(q, e).known
  BY DEF Advance, NewPanel, NoPanel, Panels
<1>4. \A q \in Panels, e \in Events : q.known => Advance(q, e).known
  BY DEF Advance, NewPanel, NoPanel, Panels
<1>5. ASSUME NEW k \in 1..Len(s), k - 1 \in P PROVE k \in P
  <2>1. h[k - 1] \in Panels /\ s[k] \in Events /\ h[k] = Advance(h[k - 1], s[k]) /\ k \in 0..Len(s)
    BY <1>1, <1>2, <1>5 DEF Hears
  <2>2. h[k] \in Panels
    BY <2>1, PanelsStay
  <2>3. h[k - 1] = p \/ h[k - 1].known
    BY <1>5
  <2> QED BY <1>3, <1>4, <2>1, <2>2, <2>3
<1> HIDE DEF P
<1>6. \A k \in 0..Len(s) : k \in P
  BY <1>2, <1>5, UpTo
<1> QED BY <1>1, <1>2, <1>6 DEF P
-----------------------------------------------------------------------------
(* The panel: what is so of it throughout.                                 *)

\* Where the engine is when nothing is left to be told but the end of the task.
Final == place \in {"closing", "unwinding", "done"}

\* A record is terminal, or a call to cancel done with its waiting, only when the
\* mission's coroutine has left.
Stopped == (polling /\ ~cancelling) \/ Terminal(rec) => place \in {"unwinding", "done"}

\* A panel has the mission as the engine has it.
Mirrors(p) ==
    /\ p \in Panels /\ (~p.known => p = NoPanel)
    /\ p.known = (mission # "none") /\ p.finished = MissionDone(mission)
    /\ DOMAIN p.steps = Steps /\ \A i \in Steps : p.steps[i] \in MayShow(i)

\* What an event says of the mission's steps, and what a panel shows as finished.
Says(e) ==
    /\ e.what = "planned" => plan # <<>> /\ e.step = Len(plan)
    /\ e.what = "done" => e.step \in Steps /\ stat[e.step] = "COMPLETED"
    /\ e.what = "skipped" => e.step \in Steps /\ stat[e.step] = "SKIPPED"
ShowsDone(p) ==
    /\ p \in Panels /\ DOMAIN p.steps \in {{}, Steps}
    /\ \A i \in DOMAIN p.steps : /\ p.steps[i] = "done" => stat[i] = "COMPLETED"
                                 /\ p.steps[i] = "skipped" => stat[i] = "SKIPPED"

\* The end of the task is the last of its events, and the browser is done with the
\* task only when the engine has told all the rest.
EndsLast ==
    /\ \A i, j \in DOMAIN onWay : i < j /\ onWay[i] = Ended => onWay[j] = Ended
    /\ (\E i \in DOMAIN onWay : onWay[i] = Ended) => Final
    /\ post = "known" /\ ~active => Final
    /\ net = "back" => Terminal(rec)
    /\ post = "posted" => ~active /\ net = "off"

\* What the browser makes of what it has heard and will hear is what the record says.
Heard == IF active THEN Rebuilt(panel, onWay) ELSE panel
SaidIsSo == \A k \in DOMAIN onWay : Says(onWay[k])
HearsAll ==
    ~missed => IF post = "known" THEN Heard = logged ELSE Rebuilt(NoPanel, onWay) = logged

BrowserTypes ==
    /\ onWay \in Seq(Events)
    /\ wire \in {"up", "down"} /\ losses \in 0..MaxPanelDrops /\ post \in {"posted", "known"}
    /\ {active, missed} \subseteq BOOLEAN
    /\ net \in {"off", "armed", "asked", "back", "failed"}

PanelInv ==
    /\ MissionInv /\ Stopped /\ BrowserTypes /\ EndsLast
    /\ Mirrors(logged) /\ ShowsDone(panel) /\ HearsAll /\ SaidIsSo

\* What no step of the engine takes back: a plan, and a step's end.
Stays ==
    /\ plan # <<>> => plan' = plan
    /\ \A i \in Steps : stat[i] \in {"COMPLETED", "SKIPPED"} => stat'[i] = stat[i]

\* Every step of the engine says what it does to the mission, and the end last.
SaysTrue(events) ==
    /\ events \in Seq(Events)
    /\ \A k \in DOMAIN events : /\ \E e : e = events[k] /\ Says(e)'
                                /\ Final => events[k] = Ended
                                /\ events[k] = Ended => Final' /\ k = Len(events)
MirrorsAfter(events) == \E p : p = Rebuilt(logged, events) /\ Mirrors(p)'
Forward(events) ==
    /\ MissionInv' /\ Stopped' /\ Stays
    /\ Final => Final'
    /\ Terminal(rec) => Terminal(rec')
    /\ SaysTrue(events) /\ MirrorsAfter(events)

\* Whatever is said stays so.
LEMMA SaidStays ==
    ASSUME MissionTypes, MissionTypes', Stays
    PROVE  /\ \A e : Says(e) => Says(e)'
           /\ \A p : ShowsDone(p) => ShowsDone(p)'
<1>1. CASE plan = <<>>
  <2>1. Steps = {} /\ DOMAIN stat = Steps
    BY <1>1 DEF Steps, MissionTypes
  <2> QED BY <1>1, <2>1 DEF Says, ShowsDone
<1>2. CASE plan # <<>>
  <2>1. plan' = plan /\ Steps' = Steps
    BY <1>2 DEF Stays, Steps
  <2> QED BY <2>1 DEF Says, ShowsDone, Stays
<1> QED BY <1>1, <1>2

\* What the engine tells is heard, or known to be missed.
LEMMA Telling ==
    ASSUME PanelInv, NEW events, Tell(events), Forward(events)
    PROVE  PanelInv'
<1>1. MissionInv /\ Stopped /\ BrowserTypes /\ EndsLast /\ Mirrors(logged) /\ ShowsDone(panel) /\ HearsAll /\ SaidIsSo
  BY DEF PanelInv
<1>2. MissionInv' /\ Stopped' /\ Stays /\ (Final => Final') /\ (Terminal(rec) => Terminal(rec'))
      /\ SaysTrue(events) /\ MirrorsAfter(events)
  BY DEF Forward
<1>3. logged' = Rebuilt(logged, events) /\ UNCHANGED <<wire, losses, post, active, panel, net>>
  BY DEF Tell, Rebuilt
<1>4. events \in Seq(Events) /\ onWay \in Seq(Events)
  BY <1>1, <1>2 DEF SaysTrue, BrowserTypes
<1>5. /\ \A e : Says(e) => Says(e)'
      /\ \A p : ShowsDone(p) => ShowsDone(p)'
  BY <1>1, <1>2, SaidStays DEF MissionInv
<1>6. Mirrors(logged)' /\ ShowsDone(panel)'
  <2>1. Mirrors(logged)'
    BY <1>2, <1>3 DEF Mirrors, MirrorsAfter
  <2>2. ShowsDone(panel)'
    BY <1>1, <1>3, <1>5 DEF ShowsDone
  <2> QED BY <2>1, <2>2
<1>7. CASE wire = "up"
  <2>1. onWay' = onWay \o events /\ missed' = missed
    BY <1>7 DEF Tell
  <2>2. /\ onWay' \in Seq(Events) /\ Len(onWay) \in Nat /\ Len(events) \in Nat
        /\ Len(onWay') = Len(onWay) + Len(events)
        /\ DOMAIN onWay = 1..Len(onWay) /\ DOMAIN events = 1..Len(events) /\ DOMAIN onWay' = 1..(Len(onWay) + Len(events))
        /\ \A i \in DOMAIN onWay' : IF i <= Len(onWay) THEN i \in DOMAIN onWay /\ onWay'[i] = onWay[i]
                                    ELSE i - Len(onWay) \in DOMAIN events /\ onWay'[i] = events[i - Len(onWay)]
    BY <1>4, <2>1
  <2>3. BrowserTypes'
    BY <1>1, <1>3, <2>1, <2>2 DEF BrowserTypes
  <2>4. SaidIsSo'
    <3>1. ASSUME NEW k \in DOMAIN onWay' PROVE \E e : e = onWay'[k] /\ Says(e)'
      <4>1. CASE k <= Len(onWay)
        BY <1>1, <1>5, <2>2, <4>1 DEF SaidIsSo
      <4>2. CASE ~(k <= Len(onWay))
        BY <1>2, <2>2, <4>2 DEF SaysTrue
      <4> QED BY <4>1, <4>2
    <3> QED BY <3>1 DEF SaidIsSo, Says
  <2>5. EndsLast'
    <3>1. ASSUME NEW i \in DOMAIN onWay', NEW j \in DOMAIN onWay', i < j, onWay'[i] = Ended
          PROVE  onWay'[j] = Ended
      <4>1. CASE i <= Len(onWay)
        <5>1. onWay[i] = Ended /\ Final
          BY <1>1, <2>2, <3>1, <4>1 DEF EndsLast
        <5> QED BY <1>1, <1>2, <2>2, <3>1, <4>1, <5>1 DEF EndsLast, SaysTrue
      <4>2. CASE ~(i <= Len(onWay))
        <5>1. i - Len(onWay) = Len(events)
          BY <1>2, <2>2, <3>1, <4>2 DEF SaysTrue
        <5> QED BY <2>2, <3>1, <4>2, <5>1
      <4> QED BY <4>1, <4>2
    <3>2. ASSUME NEW i \in DOMAIN onWay', onWay'[i] = Ended PROVE Final'
      <4>1. CASE i <= Len(onWay)
        BY <1>1, <1>2, <2>2, <3>2, <4>1 DEF EndsLast
      <4>2. CASE ~(i <= Len(onWay))
        BY <1>2, <2>2, <3>2, <4>2 DEF SaysTrue
      <4> QED BY <4>1, <4>2
    <3>3. post' = "known" /\ ~active' => Final'
      BY <1>1, <1>2, <1>3 DEF EndsLast
    <3>4. (net' = "back" => Terminal(rec')) /\ (post' = "posted" => ~active' /\ net' = "off")
      BY <1>1, <1>2, <1>3 DEF EndsLast
    <3> QED BY <3>1, <3>2, <3>3, <3>4 DEF EndsLast
  <2>6. HearsAll'
    <3> SUFFICES ASSUME ~missed' PROVE IF post' = "known" THEN Heard' = logged' ELSE Rebuilt(NoPanel, onWay') = logged'
      BY DEF HearsAll
    <3>1. IF post = "known" THEN Heard = logged ELSE Rebuilt(NoPanel, onWay) = logged
      BY <1>1, <2>1 DEF HearsAll
    <3>2. \A q : Rebuilt(q, onWay') = Rebuilt(Rebuilt(q, onWay), events)
      BY <1>4, <2>1, RebuiltOn
    <3>3. CASE post = "known" /\ active
      BY <1>3, <3>1, <3>2, <3>3 DEF Heard
    <3>4. CASE post = "known" /\ ~active
      <4>1. \A k \in DOMAIN events : events[k] = Ended
        BY <1>1, <1>2, <3>4 DEF EndsLast, SaysTrue
      <4>2. Rebuilt(logged, events) = logged
        BY <1>4, <4>1, EndsSayNothing
      <4> QED BY <1>3, <3>1, <3>4, <4>2 DEF Heard
    <3>5. CASE post # "known"
      BY <1>3, <3>1, <3>2, <3>5
    <3> QED BY <3>3, <3>4, <3>5
  <2> QED BY <1>2, <1>6, <2>3, <2>4, <2>5, <2>6 DEF PanelInv
<1>8. CASE wire # "up"
  <2>1. onWay' = onWay /\ missed' = (missed \/ events # <<>>)
    BY <1>8 DEF Tell
  <2>2. BrowserTypes'
    BY <1>1, <1>3, <2>1 DEF BrowserTypes
  <2>3. SaidIsSo'
    <3>1. \A k \in DOMAIN onWay' : \E e : e = onWay'[k] /\ Says(e)'
      BY <1>1, <1>5, <2>1 DEF SaidIsSo
    <3> QED BY <3>1 DEF SaidIsSo, Says
  <2>4. EndsLast'
    BY <1>1, <1>2, <1>3, <2>1 DEF EndsLast
  <2>5. HearsAll'
    <3> SUFFICES ASSUME ~missed' PROVE IF post' = "known" THEN Heard' = logged' ELSE Rebuilt(NoPanel, onWay') = logged'
      BY DEF HearsAll
    <3>1. ~missed /\ events = <<>>
      BY <1>1, <2>1 DEF BrowserTypes
    <3>2. logged' = logged
      BY <1>3, <3>1, RebuiltOfFew
    <3> QED BY <1>1, <1>3, <2>1, <3>1, <3>2 DEF HearsAll, Heard
  <2> QED BY <1>2, <1>6, <2>2, <2>3, <2>4, <2>5 DEF PanelInv
<1> QED BY <1>7, <1>8

\* Whatever the engine does, what has ended stays so, and the coroutine leaves once.
LEMMA Steady ==
    ASSUME MissionInv, Stopped, [MissionNext]_missionVars
    PROVE  Stopped' /\ Stays /\ (Final => Final') /\ (Terminal(rec) => Terminal(rec'))
<1>1. MissionTypes /\ Standing /\ UnderWay
  BY DEF MissionInv
<1>2. CASE Open \/ OpenFails \/ Summarised \/ CloseMission \/ CloseFails \/ Planning
  <2>1. place \in {"opening", "planning", "summarising", "closing", "unwinding"}
        /\ place' \in {"planning", "done", "closing", "loop"} /\ (place = "unwinding" => place' = "done")
    BY <1>2 DEF Open, OpenFails, Summarised, CloseMission, CloseFails, Planning, PlanAccepted, PlanTooLong, PlanRejected,
       Fail, GoOnTo
  <2> QED BY <1>1, <1>2 DEF Stopped, Stays, Final, Terminal, OnEvent, Standing, MissionTypes, Steps, InLoop,
        Open, OpenFails, Summarised, CloseMission, CloseFails, Planning, PlanAccepted, PlanTooLong, PlanRejected, Fail,
        GoOnTo, planVars, stepVars, stepRunVars, limitVars, cancelVars
<1>3. CASE Loop
  BY <1>1, <1>3 DEF Stopped, Stays, Final, Terminal, OnEvent, MissionTypes, Steps, Loop, Halt, SkipStep, StartStep,
     EndLoop, NextStep, Fail, Turn, GoOnTo, planVars, stepVars, stepRunVars, limitVars, cancelVars
<1>4. CASE InStep
  <2>1. CASE \E r \in {"ok", "failed"} : CallTool(r) \/ Resume(r)
    BY <1>1, <2>1 DEF Stopped, Stays, Final, Terminal, OnEvent, CallTool, Resume, Result, Sinks, GoOnTo, planVars,
       stepVars, stepRunVars, limitVars, cancelVars
  <2>2. CASE AskUser \/ AlreadyRefused
    BY <1>1, <2>2 DEF Stopped, Stays, Final, Terminal, OnPrompt, MissionTypes, UnderWay, Steps, AskUser, AlreadyRefused,
       Result, Sinks, GoOnTo, planVars, stepVars, stepRunVars, limitVars, cancelVars
  <2>3. CASE \E error, unmet \in BOOLEAN : StepEnds(error, unmet)
    BY <1>1, <2>3 DEF Stopped, Stays, Final, Terminal, MissionTypes, UnderWay, Steps, StepEnds, GoOnTo, planVars,
       limitVars, cancelVars
  <2> QED BY <1>4, <2>1, <2>2, <2>3 DEF InStep
<1>5. CASE Expires \/ User \/ Cancelled \/ StepCancelReturns
  BY <1>1, <1>5 DEF Stopped, Stays, Final, Terminal, MarkCancelled, MissionTypes, Steps, StepDone, Expires, User, UserDecides,
     SettlePrompt, Cancel, CancelStep, Cancelled, DeliverCancel, DeliverOutside, Unwound, CancelReturns,
     StepCancelReturns, CancelSteps, GoOnTo, planVars, stepVars, stepRunVars, limitVars, cancelVars
<1>6. CASE UNCHANGED missionVars
  BY <1>6 DEF Stopped, Stays, Final, Terminal, missionVars, planVars, stepVars, stepRunVars, limitVars, cancelVars
<1> QED BY <1>2, <1>3, <1>4, <1>5, <1>6 DEF MissionNext

\* A step that leaves the mission and its steps as they are tells no more than its end.
LEMMA SameView ==
    ASSUME PanelInv, MissionNext, UNCHANGED <<mission, plan, stat, retries>>,
           NEW events \in {<<>>, <<Ended>>}, events # <<>> => Final'
    PROVE  Forward(events)
<1>1. MissionInv' /\ Stopped' /\ Stays /\ (Final => Final') /\ (Terminal(rec) => Terminal(rec'))
  BY StepHolds, Steady DEF PanelInv
<1>2. Rebuilt(logged, events) = logged
  <2>1. Advance(logged, Ended) = logged
    BY DEF Advance, Ended, Of, StepStates
  <2> QED BY <2>1, RebuiltOfFew
<1>3. Mirrors(logged) => \E p : p = logged /\ Mirrors(p)'
  BY DEF Mirrors, Steps, MayShow
<1>4. Ended \in Events /\ Says(Ended)'
  BY DEF Ended, Of, Events, Says
<1>5. SaysTrue(events)
  <2>1. CASE events = <<>>
    <3>1. events \in Seq(Events) /\ DOMAIN events = {}
      BY <2>1
    <3> QED BY <3>1 DEF SaysTrue
  <2>2. CASE events = <<Ended>>
    <3>1. events \in Seq(Events) /\ DOMAIN events = {1} /\ events[1] = Ended /\ Len(events) = 1 /\ Final'
      BY <1>4, <2>2
    <3> QED BY <1>4, <3>1 DEF SaysTrue
  <2> QED BY <2>1, <2>2
<1> QED BY <1>1, <1>2, <1>3, <1>5 DEF Forward, MirrorsAfter, PanelInv

\* What is told of one step.
LEMMA OneStep ==
    ASSUME PanelInv, MissionNext, ~Final, UNCHANGED <<mission, plan>>, mission # "none",
           NEW i \in Steps, \A j \in Steps \ {i} : stat'[j] = stat[j] /\ retries'[j] = retries[j],
           NEW what \in StepStates, \E m : m = MayShow(i)' /\ what \in m,
           what = "done" => stat'[i] = "COMPLETED", what = "skipped" => stat'[i] = "SKIPPED"
    PROVE  Forward(<<Of(what, i)>>)
<1> DEFINE e == Of(what, i)
           p == [logged EXCEPT !.steps[i] = what]
<1>1. MissionInv' /\ Stopped' /\ Stays /\ (Final => Final') /\ (Terminal(rec) => Terminal(rec'))
  BY StepHolds, Steady DEF PanelInv
<1>2. Mirrors(logged) /\ i \in Nat /\ Steps' = Steps
  BY UsedIsNat DEF PanelInv, MissionInv, Steps
<1>3. e \in Events /\ e.what = what /\ e.step = i /\ e # Ended
  BY <1>2 DEF Of, Events, Ended, StepStates
<1>4. Rebuilt(logged, <<e>>) = p
  <2>1. Advance(logged, e) = p
    BY <1>2, <1>3 DEF Advance, Mirrors, StepStates
  <2> QED BY <2>1, RebuiltOfFew
<1>5. \E q : q = p /\ Mirrors(q)'
  <2>1. p \in Panels
    BY <1>2, <1>3, PanelsStay DEF Mirrors, Advance, StepStates
  <2>2. p.known = logged.known /\ p.finished = logged.finished /\ DOMAIN p.steps = DOMAIN logged.steps
        /\ p.steps[i] = what /\ \A j \in DOMAIN logged.steps \ {i} : p.steps[j] = logged.steps[j]
    BY <1>2 DEF Mirrors, Panels
  <2>3. ASSUME NEW j \in Steps PROVE \E m : m = MayShow(j)' /\ p.steps[j] \in m
    <3>1. CASE j = i
      BY <2>2, <3>1
    <3>2. CASE j # i
      <4>1. stat'[j] = stat[j] /\ retries'[j] = retries[j]
        BY <3>2
      <4>2. MayShow(j)' = MayShow(j)
        BY <4>1 DEF MayShow
      <4>3. p.steps[j] = logged.steps[j] /\ logged.steps[j] \in MayShow(j)
        BY <1>2, <2>2, <3>2 DEF Mirrors
      <4> QED BY <4>2, <4>3
    <3> QED BY <3>1, <3>2
  <2> HIDE DEF p
  <2> QED BY <1>2, <2>1, <2>2, <2>3 DEF Mirrors
<1>6. SaysTrue(<<e>>)
  <2>1. Says(e)'
    BY <1>2, <1>3 DEF Says, StepStates
  <2> HIDE DEF e
  <2> QED BY <1>3, <2>1 DEF SaysTrue
<1> QED BY <1>1, <1>4, <1>5, <1>6 DEF Forward, MirrorsAfter

\* What is told of the mission's end.
LEMMA ToldOver ==
    ASSUME PanelInv, MissionNext, ~Final, plan' = plan, mission # "none", MissionDone(mission'),
           \A i \in Steps : \A s : s \in MayShow(i) => \E m : m = MayShow(i)' /\ s \in m,
           NEW events \in {<<Over>>, <<Over, Ended>>}, events = <<Over, Ended>> => Final'
    PROVE  Forward(events)
<1> DEFINE p == [logged EXCEPT !.finished = TRUE]
<1>1. MissionInv' /\ Stopped' /\ Stays /\ (Final => Final') /\ (Terminal(rec) => Terminal(rec'))
  BY StepHolds, Steady DEF PanelInv
<1>2. Mirrors(logged) /\ Steps' = Steps
  BY DEF PanelInv, Steps
<1>3. Over \in Events /\ Ended \in Events /\ Over # Ended /\ Says(Over)' /\ Says(Ended)'
  BY DEF Of, Over, Events, Ended, StepStates, Says
<1>4. Rebuilt(logged, events) = p
  <2>1. Advance(logged, Over) = p
    BY <1>2 DEF Advance, Mirrors, StepStates, Over, Of
  <2>2. Advance(p, Ended) = p
    BY DEF Advance, Ended, Of, StepStates
  <2> HIDE DEF p
  <2>3. Rebuilt(logged, <<Over>>) = Advance(logged, Over)
    BY RebuiltOfFew
  <2>4. Rebuilt(logged, <<Over, Ended>>) = Advance(Advance(logged, Over), Ended)
    BY RebuiltOfTwo
  <2> QED BY <2>1, <2>2, <2>3, <2>4
<1>5. \E q : q = p /\ Mirrors(q)'
  <2>1. p \in Panels /\ p.known = logged.known /\ p.finished = TRUE /\ p.steps = logged.steps
    BY <1>2 DEF Mirrors, Panels
  <2>2. p.known = TRUE /\ mission' # "none"
    BY <1>2, <2>1 DEF Mirrors, MissionDone
  <2> HIDE DEF p
  <2>3. \A i \in Steps : \E m : m = MayShow(i)' /\ p.steps[i] \in m
    BY <1>2, <2>1 DEF Mirrors
  <2>4. DOMAIN p.steps = Steps' /\ p.finished = MissionDone(mission)' /\ p.known = (mission' # "none")
    BY <1>2, <2>1, <2>2 DEF Mirrors
  <2>5. p \in Panels /\ p.known = TRUE /\ Steps' = Steps
    BY <1>2, <2>1, <2>2
  <2>6. ASSUME NEW q, q = p PROVE Mirrors(q)'
    <3>1. \A i \in Steps' : q.steps[i] \in MayShow(i)'
      BY ONLY <2>3, <2>5, <2>6
    <3> QED BY ONLY <2>4, <2>5, <2>6, <3>1, Zenon DEF Mirrors
  <2> QED BY <2>6
<1>6. SaysTrue(events)
  <2>1. CASE events = <<Over>>
    <3>1. events \in Seq(Events) /\ DOMAIN events = {1} /\ events[1] = Over
      BY <1>3, <2>1
    <3> QED BY <1>3, <3>1 DEF SaysTrue
  <2>2. CASE events = <<Over, Ended>>
    <3>1. events \in Seq(Events) /\ DOMAIN events = {1, 2} /\ events[1] = Over /\ events[2] = Ended /\ Len(events) = 2 /\ Final'
      BY <1>3, <2>2
    <3> QED BY <1>3, <3>1 DEF SaysTrue
  <2> QED BY <2>1, <2>2
<1> QED BY <1>1, <1>4, <1>5, <1>6 DEF Forward, MirrorsAfter

\* The engine's actions, as the browser hears of them.
LEMMA EngineIsMission ==
    EngineTold => MissionNext
BY DEF EngineTold, PlanningTold, LoopTold, StepTold, EndTold, CancelTold, MissionNext, Planning, Loop, InStep,
   Cancelled, User

LEMMA OpenTold ==
    ASSUME PanelInv, Open
    PROVE  Forward(<<Started>>)
<1>1. MissionNext /\ MissionTypes /\ Standing
  BY DEF MissionNext, PanelInv, MissionInv
<1>2. MissionInv' /\ Stopped' /\ Stays /\ (Final => Final') /\ (Terminal(rec) => Terminal(rec'))
  BY <1>1, StepHolds, Steady DEF PanelInv
<1>3. ~Final /\ plan = <<>> /\ plan' = <<>> /\ mission' = "PLANNING"
  BY <1>1 DEF Open, Final, Standing, planVars
<1>4. Rebuilt(logged, <<Started>>) = NewPanel
  <2>1. Advance(logged, Started) = NewPanel
    BY DEF Advance, Started, Of
  <2> QED BY <2>1, RebuiltOfFew
<1>5. Mirrors(NewPanel)'
  <2>1. NewPanel.known = TRUE /\ NewPanel.steps = <<>> /\ NewPanel.finished = FALSE
    BY DEF NewPanel, NoPanel
  <2>2. NewPanel \in Panels
    BY NewIsPanel
  <2>3. Steps' = {} /\ DOMAIN <<>> = {}
    BY <1>3 DEF Steps
  <2>4. (mission' # "none") = TRUE /\ MissionDone(mission') = FALSE
    BY <1>3 DEF MissionDone
  <2>5. PICK p : p = NewPanel
    OBVIOUS
  <2>6. DOMAIN p.steps = Steps' /\ \A i \in Steps' : \E m : m = MayShow(i)' /\ p.steps[i] \in m
    BY <2>1, <2>3, <2>5
  <2>7. Mirrors(p)'
    BY <2>1, <2>2, <2>4, <2>5, <2>6 DEF Mirrors
  <2> QED BY <2>5, <2>7
<1>6. SaysTrue(<<Started>>)
  <2>1. Started \in Events /\ Started # Ended /\ Says(Started)'
    BY DEF Started, Ended, Of, Events, Says
  <2> HIDE DEF Started
  <2> QED BY <1>3, <2>1 DEF SaysTrue
<1> QED BY <1>2, <1>4, <1>5, <1>6 DEF Forward, MirrorsAfter

LEMMA AcceptedTold ==
    ASSUME PanelInv, NEW raw \in RawPlans, PlanAccepted(raw)
    PROVE  Forward(<<Of("planned", Len(raw))>>)
<1> DEFINE e == Of("planned", Len(raw))
           q == [i \in 1..Len(raw) |-> "pending"]
           p == [logged EXCEPT !.steps = q]
<1>1. MissionNext /\ MissionTypes /\ Standing /\ Mirrors(logged)
  BY DEF MissionNext, Planning, PanelInv, MissionInv
<1>2. MissionInv' /\ Stopped' /\ Stays /\ (Final => Final') /\ (Terminal(rec) => Terminal(rec'))
  BY <1>1, StepHolds, Steady DEF PanelInv
<1>3. ~Final /\ mission = "PLANNING" /\ mission' = "RUNNING" /\ plan' = raw /\ raw # <<>>
  BY <1>1 DEF PlanAccepted, Final, Standing, ValidPlan
<1>4. Len(raw) \in Nat /\ DOMAIN raw = 1..Len(raw)
  <2>1. raw \in Seq(Range(raw))
    BY PlansAssumption
  <2> QED BY <2>1
<1>5. e.what = "planned" /\ e.step = Len(raw) /\ e \in Events /\ e # Ended
  BY <1>4 DEF Of, Events, Ended
<1> HIDE DEF e
<1>6. Rebuilt(logged, <<e>>) = p
  <2>1. logged.known
    BY <1>1, <1>3 DEF Mirrors
  <2>2. Advance(logged, e) = p
    BY <1>5, <2>1 DEF Advance
  <2> QED BY <2>2, RebuiltOfFew
<1>7. \E r : r = p /\ Mirrors(r)'
  <2>1. p \in Panels
    <3>1. Advance(logged, e) \in Panels
      BY <1>1, <1>5, PanelsStay DEF Mirrors
    <3> QED BY <1>6, <3>1, RebuiltOfFew
  <2>2. p.known = logged.known /\ p.finished = logged.finished /\ p.steps = q
    BY <1>1 DEF Mirrors, Panels
  <2>3. p.known = TRUE /\ p.finished = FALSE
    <3>1. (mission # "none") = TRUE /\ MissionDone(mission) = FALSE
      BY <1>3 DEF MissionDone
    <3>2. logged.known = TRUE /\ logged.finished = FALSE
      BY <1>1, <3>1 DEF Mirrors
    <3> QED BY <2>2, <3>2
  <2>4. (mission' # "none") = TRUE /\ MissionDone(mission') = FALSE
    BY <1>3 DEF MissionDone
  <2>5. Steps' = 1..Len(raw) /\ DOMAIN p.steps = 1..Len(raw)
    BY <1>3, <1>4, <2>2 DEF Steps
  <2>6. ASSUME NEW i \in 1..Len(raw) PROVE \E m : m = MayShow(i)' /\ p.steps[i] \in m
    <3>1. stat'[i] = "PENDING" /\ retries'[i] = 0
      BY <1>4 DEF PlanAccepted
    <3>2. MayShow(i)' = {"pending"}
      BY <3>1 DEF MayShow
    <3> QED BY <2>2, <3>2
  <2> HIDE DEF p
  <2>7. \A i \in Steps' : \E m : m = MayShow(i)' /\ p.steps[i] \in m
    BY <2>5, <2>6
  <2> QED BY <2>1, <2>3, <2>4, <2>5, <2>7 DEF Mirrors
<1>8. SaysTrue(<<e>>)
  <2>1. Says(e)'
    BY <1>3, <1>5 DEF Says
  <2> QED BY <1>3, <1>5, <2>1 DEF SaysTrue
<1> QED BY <1>2, <1>6, <1>7, <1>8 DEF Forward, MirrorsAfter, e

\* A mission that fails.
LEMMA FailTold ==
    ASSUME PanelInv, MissionNext, Fail, place \in {"planning", "loop"}, UNCHANGED <<plan, stat, retries>>, TellEnd
    PROVE  PanelInv'
<1>1. mission' = "FAILED" /\ Final' /\ ~Final /\ mission # "none"
  BY DEF Fail, GoOnTo, Final, PanelInv, MissionInv, Standing, InLoop
<1>2. Tell(<<Over, Ended>>)
  BY <1>1 DEF TellEnd
<1>3. MissionDone(mission')
  BY <1>1 DEF MissionDone
<1>4. \A i \in Steps : \A s : s \in MayShow(i) => \E m : m = MayShow(i)' /\ s \in m
  BY DEF MayShow
<1>5. Forward(<<Over, Ended>>)
  BY <1>1, <1>3, <1>4, ToldOver
<1> QED BY <1>2, <1>5, Telling

LEMMA EndLoopTold ==
    ASSUME PanelInv, MissionNext, EndLoop, TellEnd
    PROVE  PanelInv'
<1>1. ~Final /\ mission # "none" /\ UNCHANGED <<plan, stat, retries>>
  BY DEF EndLoop, GoOnTo, Final, PanelInv, MissionInv, Standing, InLoop, planVars, stepVars
<1>2. \A i \in Steps : \A s : s \in MayShow(i) => \E m : m = MayShow(i)' /\ s \in m
  BY <1>1 DEF MayShow
<1>3. CASE mission' = "FAILED" /\ place' = "closing"
  <2>1. Tell(<<Over, Ended>>)
    BY <1>3 DEF TellEnd
  <2>2. Final' /\ MissionDone(mission')
    BY <1>3 DEF Final, MissionDone
  <2>3. Forward(<<Over, Ended>>)
    BY <1>1, <1>2, <2>2, ToldOver
  <2> QED BY <2>1, <2>3, Telling
<1>4. CASE mission' = "COMPLETED"
  <2>1. Tell(<<Over>>)
    BY <1>4 DEF TellEnd
  <2>2. MissionDone(mission') /\ <<Over>> # <<Over, Ended>>
    BY <1>4 DEF MissionDone
  <2>3. Forward(<<Over>>)
    BY <1>1, <1>2, <2>2, ToldOver
  <2> QED BY <2>1, <2>3, Telling
<1> QED BY <1>3, <1>4 DEF EndLoop, GoOnTo

LEMMA DeliverTold ==
    ASSUME PanelInv, MissionNext, DeliverCancel, Tell(<<Over>>)
    PROVE  PanelInv'
<1>1. ~Final /\ mission # "none" /\ plan' = plan /\ mission' = "CANCELLED" /\ MissionTypes
  BY DEF DeliverCancel, Final, PanelInv, MissionInv, Standing, InLoop, planVars, MissionDone
<1>2. ASSUME NEW i \in Steps PROVE \A s : s \in MayShow(i) => \E m : m = MayShow(i)' /\ s \in m
  <2>1. retries'[i] = retries[i] /\ stat[i] \in StepStatus
    BY <1>1 DEF DeliverCancel, MissionTypes
  <2>2. stat'[i] = IF StepDone(stat[i]) THEN stat[i] ELSE "CANCELLED"
    BY DEF DeliverCancel, CancelSteps
  <2>3. CASE StepDone(stat[i])
    BY <2>1, <2>2, <2>3 DEF MayShow
  <2>4. CASE ~StepDone(stat[i])
    BY <2>1, <2>2, <2>4 DEF MayShow, StepDone, StepStatus
  <2> QED BY <2>3, <2>4
<1>3. MissionDone(mission') /\ <<Over>> # <<Over, Ended>>
  BY <1>1 DEF MissionDone
<1>4. Forward(<<Over>>)
  BY <1>1, <1>2, <1>3, ToldOver
<1> QED BY <1>4, Telling

\* A step of the plan that is skipped, begins, asks, or ends.
LEMMA SkipTold ==
    ASSUME PanelInv, NEW i \in Steps, SkipStep(i), Tell(<<Of("skipped", i)>>)
    PROVE  PanelInv'
<1>1. MissionNext /\ ~Final /\ mission # "none" /\ UNCHANGED <<mission, plan>> /\ MissionTypes
  BY DEF MissionNext, Loop, SkipStep, Final, PanelInv, MissionInv, Standing, InLoop, planVars
<1>2. stat'[i] = "SKIPPED" /\ \A j \in Steps \ {i} : stat'[j] = stat[j] /\ retries'[j] = retries[j]
  BY <1>1 DEF SkipStep, MissionTypes
<1>3. MayShow(i)' = {"skipped"}
  BY <1>2 DEF MayShow
<1>4. "skipped" \in StepStates
  BY DEF StepStates
<1>5. Forward(<<Of("skipped", i)>>)
  BY <1>1, <1>2, <1>3, <1>4, OneStep
<1> QED BY <1>5, Telling

LEMMA StartTold ==
    ASSUME PanelInv, NEW i \in Steps, StartStep(i), Tell(<<Of("running", i)>>)
    PROVE  PanelInv'
<1>1. MissionNext /\ ~Final /\ mission # "none" /\ UNCHANGED <<mission, plan>> /\ MissionTypes
  BY DEF MissionNext, Loop, StartStep, Final, PanelInv, MissionInv, Standing, InLoop, planVars
<1>2. stat'[i] = "RUNNING" /\ \A j \in Steps \ {i} : stat'[j] = stat[j] /\ retries'[j] = retries[j]
  BY <1>1 DEF StartStep, MissionTypes
<1>3. MayShow(i)' = {"running"}
  BY <1>2 DEF MayShow
<1>4. "running" \in StepStates
  BY DEF StepStates
<1>5. Forward(<<Of("running", i)>>)
  BY <1>1, <1>2, <1>3, <1>4, OneStep
<1> QED BY <1>5, Telling

LEMMA AskTold ==
    ASSUME PanelInv, AskUser, Tell(<<Of("waiting", cur)>>)
    PROVE  PanelInv'
<1>1. MissionNext /\ ~Final /\ mission # "none" /\ UNCHANGED <<mission, plan>> /\ MissionTypes /\ cur \in Steps
  BY DEF MissionNext, InStep, AskUser, Final, PanelInv, MissionInv, Standing, UnderWay, InLoop, planVars
<1>2. PICK i \in Steps : i = cur
  BY <1>1
<1>3. stat'[i] = "WAITING_APPROVAL" /\ \A j \in Steps \ {i} : stat'[j] = stat[j] /\ retries'[j] = retries[j]
  BY <1>1, <1>2 DEF AskUser, MissionTypes
<1>4. MayShow(i)' = {"waiting"}
  BY <1>3 DEF MayShow
<1>5. "waiting" \in StepStates
  BY DEF StepStates
<1>6. Forward(<<Of("waiting", i)>>)
  BY <1>1, <1>3, <1>4, <1>5, OneStep
<1>7. Tell(<<Of("waiting", i)>>)
  BY <1>2
<1> QED BY <1>6, <1>7, Telling

LEMMA StepEndsTold ==
    ASSUME PanelInv, NEW error \in BOOLEAN, NEW unmet \in BOOLEAN, StepEnds(error, unmet),
           Tell(<<Of(IF stat'[cur] = "COMPLETED" THEN "done" ELSE "failed", cur)>>)
    PROVE  PanelInv'
<1>1. MissionNext /\ ~Final /\ mission # "none" /\ UNCHANGED <<mission, plan>> /\ MissionTypes /\ cur \in Steps
  BY DEF MissionNext, InStep, StepEnds, Final, PanelInv, MissionInv, Standing, UnderWay, InLoop, planVars
<1>2. PICK i \in Steps : i = cur
  BY <1>1
<1>3. /\ stat'[i] \in {"COMPLETED", "PENDING", "FAILED"}
      /\ stat'[i] = "PENDING" => retries'[i] = retries[i] + 1
      /\ \A j \in Steps \ {i} : stat'[j] = stat[j] /\ retries'[j] = retries[j]
  BY <1>1, <1>2 DEF StepEnds, MissionTypes
<1>4. {"done", "failed"} \subseteq StepStates
  BY DEF StepStates
<1>5. CASE stat'[i] = "COMPLETED"
  <2>1. MayShow(i)' = {"done"}
    BY <1>5 DEF MayShow
  <2>2. Forward(<<Of("done", i)>>)
    BY <1>1, <1>3, <1>4, <1>5, <2>1, OneStep
  <2>3. Tell(<<Of("done", i)>>)
    BY <1>2, <1>5
  <2> QED BY <2>2, <2>3, Telling
<1>6. CASE stat'[i] # "COMPLETED"
  <2>1. stat'[i] = "PENDING" => retries'[i] # 0
    BY <1>1, <1>3 DEF MissionTypes
  <2>2. MayShow(i)' = {"failed"}
    BY <1>3, <1>6, <2>1 DEF MayShow
  <2>3. Forward(<<Of("failed", i)>>)
    BY <1>1, <1>3, <1>4, <2>2, OneStep
  <2>4. Tell(<<Of("failed", i)>>)
    BY <1>2, <1>6
  <2> QED BY <2>3, <2>4, Telling
<1> QED BY <1>5, <1>6

\* All that says nothing of the mission, and the end of its task.
LEMMA QuietTold ==
    ASSUME PanelInv, Tell(<<>>),
           \/ \E r \in {"ok", "failed"} : CallTool(r) \/ Resume(r)
           \/ AlreadyRefused \/ Summarised \/ Expires
           \/ place # "loop" /\ (DeliverOutside \/ UserDecides \/ Cancel)
    PROVE  PanelInv'
<1>1. MissionNext
  BY DEF MissionNext, InStep, Cancelled, User
<1>2. UNCHANGED <<mission, plan, stat, retries>>
  BY DEF CallTool, Resume, AlreadyRefused, Summarised, Expires, DeliverOutside, UserDecides, SettlePrompt, Cancel,
     planVars, stepVars
<1>3. Forward(<<>>)
  BY <1>1, <1>2, SameView
<1> QED BY <1>3, Telling

LEMMA EndTaskTold ==
    ASSUME PanelInv, NEW events \in {<<>>, <<Ended>>}, Tell(events),
           OpenFails \/ CloseMission \/ CloseFails \/ (place # "loop" /\ (Unwound \/ CancelReturns))
    PROVE  PanelInv'
<1>1. MissionNext /\ UNCHANGED <<mission, plan, stat, retries>>
  BY DEF MissionNext, Cancelled, OpenFails, CloseMission, CloseFails, Unwound, CancelReturns, planVars, stepVars
<1>2. Final'
  BY DEF Final, OpenFails, CloseMission, CloseFails, Unwound, CancelReturns, GoOnTo, PanelInv, Stopped
<1>3. Forward(events)
  BY <1>1, <1>2, SameView
<1> QED BY <1>3, Telling

LEMMA RejectedTold ==
    ASSUME PanelInv, NEW raw \in RawPlans, PlanRejected(raw), TellEnd
    PROVE  PanelInv'
<1>1. MissionNext /\ UNCHANGED <<plan, stat, retries>> /\ place = "planning" /\ mission = "PLANNING"
  BY DEF MissionNext, Planning, PlanRejected, stepVars, PanelInv, MissionInv, Standing
<1>2. CASE attempt' = MaxAttempts
  <2>1. Fail
    BY <1>2 DEF PlanRejected
  <2> QED BY <1>1, <2>1, FailTold
<1>3. CASE attempt' # MaxAttempts
  <2>1. mission' = mission
    BY <1>3 DEF PlanRejected
  <2>2. Tell(<<>>)
    BY <1>1, <2>1 DEF TellEnd
  <2>3. Forward(<<>>)
    BY <1>1, <2>1, SameView
  <2> QED BY <2>2, <2>3, Telling
<1> QED BY <1>2, <1>3

\* Whatever the engine does and tells.
LEMMA EngineTells ==
    ASSUME PanelInv, EngineTold
    PROVE  PanelInv'
<1>1. MissionNext
  BY EngineIsMission
<1>2. CASE Open /\ Tell(<<Started>>)
  BY <1>2, OpenTold, Telling
<1>3. CASE OpenFails /\ Tell(<<Ended>>)
  BY <1>3, EndTaskTold
<1>4. ASSUME NEW raw \in RawPlans, PlanAccepted(raw), Tell(<<Of("planned", Len(raw))>>) PROVE PanelInv'
  BY <1>4, AcceptedTold, Telling
<1>5. ASSUME NEW raw \in RawPlans, PlanTooLong(raw) \/ PlanRejected(raw), TellEnd PROVE PanelInv'
  <2>1. CASE PlanTooLong(raw)
    <3>1. Fail /\ place = "planning" /\ UNCHANGED <<plan, stat, retries>>
      BY <2>1 DEF PlanTooLong, planVars, stepVars
    <3> QED BY <1>1, <1>5, <3>1, FailTold
  <2>2. CASE PlanRejected(raw)
    BY <1>5, <2>2, RejectedTold
  <2> QED BY <1>5, <2>1, <2>2
<1>6. ASSUME NEW why \in {"max_loop_iterations", "max_runtime", "max_tool_calls"}, Halt(why), TellEnd PROVE PanelInv'
  <2>1. Fail /\ place = "loop" /\ UNCHANGED <<plan, stat, retries>>
    BY <1>6 DEF Halt, planVars, stepVars
  <2> QED BY <1>1, <1>6, <2>1, FailTold
<1>7. ASSUME NEW i \in Steps, SkipStep(i) /\ Tell(<<Of("skipped", i)>>) PROVE PanelInv'
  BY <1>7, SkipTold
<1>8. ASSUME NEW i \in Steps, StartStep(i) /\ Tell(<<Of("running", i)>>) PROVE PanelInv'
  BY <1>8, StartTold
<1>9. CASE EndLoop /\ TellEnd
  BY <1>1, <1>9, EndLoopTold
<1>10. CASE StepTold
  <2>1. CASE \E r \in {"ok", "failed"} : (CallTool(r) \/ Resume(r)) /\ Tell(<<>>)
    BY <2>1, QuietTold
  <2>2. CASE AskUser /\ Tell(<<Of("waiting", cur)>>)
    BY <2>2, AskTold
  <2>3. CASE AlreadyRefused /\ Tell(<<>>)
    BY <2>3, QuietTold
  <2>4. ASSUME NEW error \in BOOLEAN, NEW unmet \in BOOLEAN, StepEnds(error, unmet),
               Tell(<<Of(IF stat'[cur] = "COMPLETED" THEN "done" ELSE "failed", cur)>>)
        PROVE  PanelInv'
    BY <2>4, StepEndsTold
  <2> QED BY <1>10, <2>1, <2>2, <2>3, <2>4 DEF StepTold
<1>11. CASE EndTold
  <2>1. CASE Summarised /\ Tell(<<>>)
    BY <2>1, QuietTold
  <2>2. CASE CloseMission /\ Tell(IF mission = "COMPLETED" THEN <<Ended>> ELSE <<>>)
    <3>1. CASE mission = "COMPLETED"
      <4>1. Tell(<<Ended>>)
        BY <2>2, <3>1
      <4> QED BY <2>2, <4>1, EndTaskTold
    <3>2. CASE mission # "COMPLETED"
      <4>1. Tell(<<>>)
        BY <2>2, <3>2
      <4> QED BY <2>2, <4>1, EndTaskTold
    <3> QED BY <3>1, <3>2
  <2>3. CASE CloseFails /\ Tell(<<Ended>>)
    BY <2>3, EndTaskTold
  <2> QED BY <1>11, <2>1, <2>2, <2>3 DEF EndTold
<1>12. CASE Expires /\ Tell(<<>>)
  BY <1>12, QuietTold
<1>13. CASE place # "loop" /\ CancelTold
  <2>1. CASE DeliverCancel /\ Tell(<<Over>>)
    BY <1>1, <2>1, DeliverTold
  <2>2. CASE DeliverOutside /\ Tell(<<>>)
    BY <1>13, <2>2, QuietTold
  <2>3. CASE (Unwound \/ CancelReturns) /\ Tell(IF Terminal(rec) THEN <<>> ELSE <<Ended>>)
    <3>1. CASE Terminal(rec)
      <4>1. Tell(<<>>)
        BY <2>3, <3>1
      <4> QED BY <1>13, <2>3, <4>1, EndTaskTold
    <3>2. CASE ~Terminal(rec)
      <4>1. Tell(<<Ended>>)
        BY <2>3, <3>2
      <4> QED BY <1>13, <2>3, <4>1, EndTaskTold
    <3> QED BY <3>1, <3>2
  <2> QED BY <1>13, <2>1, <2>2, <2>3 DEF CancelTold
<1>14. CASE place # "loop" /\ (UserDecides \/ Cancel) /\ Tell(<<>>)
  BY <1>14, QuietTold
<1> QED BY <1>2, <1>3, <1>4, <1>5, <1>6, <1>7, <1>8, <1>9, <1>10, <1>11, <1>12, <1>13, <1>14
     DEF EngineTold, PlanningTold, LoopTold

\* The browser does nothing to the mission.
LEMMA Aside ==
    ASSUME PanelInv, UNCHANGED missionVars
    PROVE  /\ MissionInv' /\ Stopped' /\ Steps' = Steps
           /\ (Final' <=> Final) /\ (Terminal(rec') <=> Terminal(rec))
           /\ \A e : Says(e) => Says(e)'
           /\ \A p : ShowsDone(p) => ShowsDone(p)'
           /\ \A p : Mirrors(p) => Mirrors(p)'
<1>1. MissionInv' /\ Stopped'
  BY StepHolds, Steady DEF PanelInv
<1>2. UNCHANGED <<place, mission, plan, stat, retries, rec>>
  BY DEF missionVars, planVars, stepVars
<1>3. Steps' = Steps /\ (Final' <=> Final) /\ (Terminal(rec') <=> Terminal(rec))
  BY <1>2 DEF Steps, Final
<1>4. \A e : Says(e) => Says(e)'
  BY <1>2, <1>3 DEF Says
<1>5. \A p : ShowsDone(p) => ShowsDone(p)'
  BY <1>2, <1>3 DEF ShowsDone
<1>6. \A p : Mirrors(p) => Mirrors(p)'
  BY <1>2, <1>3 DEF Mirrors, MayShow
<1> QED BY <1>1, <1>3, <1>4, <1>5, <1>6

\* So much is left to show of what the browser does.
LEMMA BrowserKeeps ==
    ASSUME PanelInv, UNCHANGED <<missionVars, logged>>,
           BrowserTypes', EndsLast', HearsAll', SaidIsSo',
           \E p : p = panel' /\ ShowsDone(p)
    PROVE  PanelInv'
<1>1. MissionInv' /\ Stopped'
  BY Aside
<1>2. Mirrors(logged)'
  <2>1. \E p : p = logged' /\ Mirrors(p)'
    BY Aside DEF PanelInv
  <2> QED BY <2>1 DEF Mirrors
<1>3. ShowsDone(panel)'
  <2>1. \E p : p = panel' /\ ShowsDone(p)'
    BY Aside
  <2> QED BY <2>1 DEF ShowsDone
<1> QED BY <1>1, <1>2, <1>3 DEF PanelInv

LEMMA PostKeeps ==
    ASSUME PanelInv, PostReturns
    PROVE  PanelInv'
<1>1. UNCHANGED <<missionVars, logged, onWay, wire, losses, missed>> /\ post' = "known" /\ active' = TRUE
      /\ panel' = NoPanel /\ net' = "armed" /\ post = "posted"
  BY DEF PostReturns
<1>2. BrowserTypes'
  BY <1>1 DEF PanelInv, BrowserTypes
<1>3. EndsLast'
  BY <1>1, Aside DEF PanelInv, EndsLast
<1>4. HearsAll'
  BY <1>1 DEF PanelInv, HearsAll, Heard
<1>5. SaidIsSo'
  <2>1. \A k \in DOMAIN onWay' : \E e : e = onWay'[k] /\ Says(e)'
    BY <1>1, Aside DEF PanelInv, SaidIsSo
  <2> QED BY <2>1 DEF SaidIsSo, Says
<1>6. \E p : p = panel' /\ ShowsDone(p)
  <2>1. NoPanel.steps = <<>> /\ DOMAIN <<>> = {}
    BY DEF NoPanel
  <2>2. ShowsDone(NoPanel)
    BY <2>1, NewIsPanel DEF ShowsDone
  <2> QED BY <1>1, <2>2
<1> QED BY <1>1, <1>2, <1>3, <1>4, <1>5, <1>6, BrowserKeeps

\* What is heard of what is so shows as finished nothing that is not.
LEMMA HeardIsDone ==
    ASSUME MissionTypes, NEW p, ShowsDone(p), NEW e \in Events, Says(e)
    PROVE  ShowsDone(Advance(p, e))
<1> DEFINE q == Advance(p, e)
<1> SUFFICES ShowsDone(q)
  OBVIOUS
<1>1. q \in Panels
  BY PanelsStay DEF ShowsDone
<1>2. CASE e.what = "started"
  <2>1. q.steps = <<>> /\ DOMAIN <<>> = {}
    BY <1>2 DEF Advance, NewPanel, NoPanel
  <2> HIDE DEF q
  <2> QED BY <1>1, <2>1 DEF ShowsDone
<1>3. CASE p.known /\ e.what = "planned"
  <2>1. DOMAIN plan = 1..Len(plan)
    <3>1. plan \in Seq(Range(plan))
      BY PlansAssumption DEF MissionTypes
    <3> QED BY <3>1
  <2>2. q.steps = [i \in 1..e.step |-> "pending"]
    BY <1>3 DEF Advance, ShowsDone, Panels
  <2>3. DOMAIN q.steps = Steps /\ \A i \in DOMAIN q.steps : q.steps[i] = "pending"
    BY <1>3, <2>1, <2>2 DEF Says, Steps
  <2> HIDE DEF q
  <2> QED BY <1>1, <2>3 DEF ShowsDone
<1>4. CASE p.known /\ e.what \in StepStates /\ e.step \in DOMAIN p.steps /\ e.what # "started" /\ e.what # "planned"
  <2>1. q.steps = [p.steps EXCEPT ![e.step] = e.what]
    BY <1>4 DEF Advance, ShowsDone, Panels
  <2>2. DOMAIN q.steps = DOMAIN p.steps /\ q.steps[e.step] = e.what
        /\ \A i \in DOMAIN p.steps \ {e.step} : q.steps[i] = p.steps[i]
    BY <1>4, <2>1
  <2> HIDE DEF q
  <2> QED BY <1>1, <2>2 DEF ShowsDone, Says
<1>5. CASE q.steps = p.steps
  BY <1>1, <1>5 DEF ShowsDone
<1>6. \/ e.what = "started"
      \/ p.known /\ e.what = "planned"
      \/ p.known /\ e.what \in StepStates /\ e.step \in DOMAIN p.steps /\ e.what # "started" /\ e.what # "planned"
      \/ q.steps = p.steps
  BY DEF Advance, ShowsDone, Panels
<1> QED BY <1>2, <1>3, <1>4, <1>5, <1>6

LEMMA HearKeeps ==
    ASSUME PanelInv, Hear
    PROVE  PanelInv'
<1> DEFINE e == Head(onWay)
           rest == Tail(onWay)
<1>1. BrowserTypes /\ EndsLast /\ HearsAll /\ SaidIsSo /\ ShowsDone(panel) /\ MissionTypes
  BY DEF PanelInv, MissionInv
<1>2. UNCHANGED <<missionVars, logged, wire, losses, post, net>> /\ onWay # <<>> /\ onWay' = rest
      /\ missed' = (missed \/ post = "posted")
  BY DEF Hear
<1>3. /\ e \in Events /\ rest \in Seq(Events) /\ onWay = <<e>> \o rest /\ 1 \in DOMAIN onWay /\ onWay[1] = e
      /\ \A k \in DOMAIN rest : k \in Nat \ {0} /\ k + 1 \in DOMAIN onWay /\ rest[k] = onWay[k + 1]
  BY <1>1, <1>2 DEF BrowserTypes
<1> HIDE DEF e, rest
<1>4. SaidIsSo'
  <2>1. \A k \in DOMAIN onWay' : \E f : f = onWay'[k] /\ Says(f)'
    BY <1>1, <1>2, <1>3, Aside DEF SaidIsSo
  <2> QED BY <2>1 DEF SaidIsSo, Says
<1>5. ASSUME NEW i \in DOMAIN onWay', NEW j \in DOMAIN onWay', i < j, onWay'[i] = Ended PROVE onWay'[j] = Ended
  <2>1. i + 1 \in DOMAIN onWay /\ j + 1 \in DOMAIN onWay /\ i + 1 < j + 1
    BY <1>2, <1>3, <1>5
  <2>2. onWay[i + 1] = Ended
    BY <1>2, <1>3, <1>5
  <2>3. onWay[j + 1] = Ended
    BY <1>1, <2>1, <2>2 DEF EndsLast
  <2> QED BY <1>2, <1>3, <2>3
<1>6. ASSUME NEW i \in DOMAIN onWay', onWay'[i] = Ended PROVE Final'
  BY <1>1, <1>2, <1>3, <1>6, Aside DEF EndsLast
<1>7. (net' = "back" => Terminal(rec')) /\ (post' = "posted" => net' = "off")
  BY <1>1, <1>2, Aside DEF EndsLast
<1>8. CASE active
  <2>1. panel' = Advance(panel, e) /\ active' = (e # Ended) /\ post = "known"
    BY <1>1, <1>8 DEF Hear, EndsLast, BrowserTypes, e
  <2>2. BrowserTypes'
    BY <1>1, <1>2, <1>3, <2>1 DEF BrowserTypes
  <2>3. EndsLast'
    <3>1. ~active' => Final'
      BY <1>1, <1>2, <1>3, <2>1, Aside DEF EndsLast
    <3> QED BY <1>2, <1>5, <1>6, <1>7, <2>1, <3>1 DEF EndsLast
  <2>4. HearsAll'
    <3> SUFFICES ASSUME ~missed' PROVE Heard' = logged'
      BY <1>2, <2>1 DEF HearsAll
    <3>1. Rebuilt(panel, onWay) = logged
      BY <1>1, <1>2, <1>8, <2>1 DEF HearsAll, Heard
    <3>2. Rebuilt(panel, onWay) = Rebuilt(panel', rest)
      <4>1. <<e>> \in Seq(Events)
        BY <1>3
      <4>2. Rebuilt(panel, onWay) = Rebuilt(Rebuilt(panel, <<e>>), rest)
        BY <1>3, <4>1, RebuiltOn
      <4> QED BY <2>1, <4>2, RebuiltOfFew
    <3>3. CASE e # Ended
      BY <1>2, <2>1, <3>1, <3>2, <3>3 DEF Heard
    <3>4. CASE e = Ended
      <4>1. ASSUME NEW k \in DOMAIN rest PROVE rest[k] = Ended
        <5>1. 1 \in DOMAIN onWay /\ k + 1 \in DOMAIN onWay /\ 1 < k + 1 /\ onWay[1] = Ended
          BY <1>3, <3>4
        <5> QED BY <1>1, <1>3, <5>1 DEF EndsLast
      <4>2. Rebuilt(panel', rest) = panel'
        BY <1>3, <4>1, EndsSayNothing
      <4> QED BY <1>2, <2>1, <3>1, <3>2, <3>4, <4>2 DEF Heard
    <3> QED BY <3>3, <3>4
  <2>5. \E p : p = panel' /\ ShowsDone(p)
    <3>1. Says(e)
      BY <1>1, <1>3 DEF SaidIsSo
    <3> QED BY <1>1, <1>3, <2>1, <3>1, HeardIsDone
  <2> QED BY <1>2, <1>4, <2>2, <2>3, <2>4, <2>5, BrowserKeeps
<1>9. CASE ~active
  <2>1. panel' = panel /\ active' = active
    BY <1>9 DEF Hear
  <2>2. BrowserTypes'
    BY <1>1, <1>2, <1>3, <2>1 DEF BrowserTypes
  <2>3. EndsLast'
    <3>1. post' = "known" /\ ~active' => Final'
      BY <1>1, <1>2, <2>1, Aside DEF EndsLast
    <3> QED BY <1>5, <1>6, <1>7, <1>9, <2>1, <3>1 DEF EndsLast
  <2>4. HearsAll'
    BY <1>1, <1>2, <1>9, <2>1 DEF HearsAll, Heard, BrowserTypes
  <2>5. \E p : p = panel' /\ ShowsDone(p)
    BY <1>1, <2>1
  <2> QED BY <1>2, <1>4, <2>2, <2>3, <2>4, <2>5, BrowserKeeps
<1> QED BY <1>8, <1>9

\* The safety net asks, is answered, or is not.
LEMMA NetKeeps ==
    ASSUME PanelInv, NetLooks \/ NetServed \/ NetFails
    PROVE  PanelInv'
<1>1. UNCHANGED <<missionVars, logged, onWay, wire, losses, post, active, panel, missed>>
  BY DEF NetLooks, NetServed, NetFails
<1>2. net # "off" /\ net' \in {"off", "asked", "back", "failed"} /\ (net' = "back" => Terminal(rec))
  BY DEF NetLooks, NetServed, NetFails
<1>3. BrowserTypes /\ EndsLast /\ HearsAll /\ SaidIsSo /\ ShowsDone(panel)
  BY DEF PanelInv
<1>4. BrowserTypes' /\ HearsAll'
  BY <1>1, <1>2, <1>3 DEF BrowserTypes, HearsAll, Heard
<1>5. EndsLast'
  BY <1>1, <1>2, <1>3, Aside DEF EndsLast
<1>6. SaidIsSo'
  <2>1. \A k \in DOMAIN onWay' : \E e : e = onWay'[k] /\ Says(e)'
    BY <1>1, <1>3, Aside DEF SaidIsSo
  <2> QED BY <2>1 DEF SaidIsSo, Says
<1> QED BY <1>1, <1>3, <1>4, <1>5, <1>6, BrowserKeeps

\* A panel that has the mission as the engine has it shows no more than is so.
LEMMA MirrorShowsDone ==
    ASSUME MissionTypes, NEW p, Mirrors(p)
    PROVE  ShowsDone(p)
<1>1. ASSUME NEW i \in Steps PROVE /\ p.steps[i] = "done" => stat[i] = "COMPLETED"
                                   /\ p.steps[i] = "skipped" => stat[i] = "SKIPPED"
  <2>1. p.steps[i] \in MayShow(i) /\ stat[i] \in StepStatus
    BY DEF Mirrors, MissionTypes
  <2> QED BY <2>1 DEF MayShow, StepStatus
<1> QED BY <1>1 DEF Mirrors, ShowsDone

\* It shows what the record has, which is the end.
LEMMA NetShowsKeeps ==
    ASSUME PanelInv, NetShows
    PROVE  PanelInv'
<1>1. UNCHANGED <<missionVars, logged, onWay, wire, losses, post>> /\ net = "back" /\ net' = "off" /\ active' = FALSE
  BY DEF NetShows
<1>2. BrowserTypes /\ EndsLast /\ HearsAll /\ SaidIsSo /\ ShowsDone(panel) /\ Mirrors(logged) /\ Stopped /\ MissionTypes
  BY DEF PanelInv, MissionInv
<1>3. post = "known" /\ Final
  BY <1>1, <1>2 DEF EndsLast, BrowserTypes, Stopped, Final
<1>4. EndsLast'
  BY <1>1, <1>2, <1>3, Aside DEF EndsLast
<1>5. SaidIsSo'
  <2>1. \A k \in DOMAIN onWay' : \E e : e = onWay'[k] /\ Says(e)'
    BY <1>1, <1>2, Aside DEF SaidIsSo
  <2> QED BY <2>1 DEF SaidIsSo, Says
<1>6. CASE logged.known
  <2>1. panel' = logged /\ missed' = FALSE
    BY <1>6 DEF NetShows
  <2>2. BrowserTypes' /\ HearsAll'
    BY <1>1, <1>2, <1>3, <2>1 DEF BrowserTypes, HearsAll, Heard
  <2>3. \E p : p = panel' /\ ShowsDone(p)
    BY <1>2, <2>1, MirrorShowsDone
  <2> QED BY <1>1, <1>4, <1>5, <2>2, <2>3, BrowserKeeps
<1>7. CASE ~logged.known
  <2>1. UNCHANGED <<panel, missed>>
    BY <1>7 DEF NetShows
  <2>2. ASSUME ~missed PROVE panel = logged
    <3>1. CASE active
      <4>1. Rebuilt(panel, onWay) = logged
        BY <1>2, <1>3, <2>2, <3>1 DEF HearsAll, Heard
      <4> QED BY <1>2, <1>7, <4>1, KnownStays DEF BrowserTypes, ShowsDone
    <3>2. CASE ~active
      BY <1>2, <1>3, <2>2, <3>2 DEF HearsAll, Heard
    <3> QED BY <3>1, <3>2
  <2>3. BrowserTypes'
    BY <1>1, <1>2, <2>1 DEF BrowserTypes
  <2>4. HearsAll'
    BY <1>1, <1>3, <2>1, <2>2 DEF HearsAll, Heard
  <2>5. \E p : p = panel' /\ ShowsDone(p)
    BY <1>2, <2>1
  <2> QED BY <1>1, <1>4, <1>5, <2>3, <2>4, <2>5, BrowserKeeps
<1> QED BY <1>6, <1>7

\* What was on the socket when it closed is lost.
LEMMA SocketKeeps ==
    ASSUME PanelInv, SocketCloses \/ SocketReopens
    PROVE  PanelInv'
<1>1. UNCHANGED <<missionVars, logged, post, active, panel, net>>
  BY DEF SocketCloses, SocketReopens
<1>2. BrowserTypes /\ EndsLast /\ HearsAll /\ SaidIsSo /\ ShowsDone(panel)
  BY DEF PanelInv
<1>3. CASE onWay' = onWay /\ missed' = missed
  <2>1. BrowserTypes'
    BY <1>1, <1>2, <1>3, PanelAssumption DEF BrowserTypes, SocketCloses, SocketReopens
  <2>2. EndsLast'
    BY <1>1, <1>2, <1>3, Aside DEF EndsLast
  <2>3. HearsAll'
    BY <1>1, <1>2, <1>3 DEF HearsAll, Heard
  <2>4. SaidIsSo'
    <3>1. \A k \in DOMAIN onWay' : \E e : e = onWay'[k] /\ Says(e)'
      BY <1>2, <1>3, <1>1, Aside DEF SaidIsSo
    <3> QED BY <3>1 DEF SaidIsSo, Says
  <2> QED BY <1>1, <1>2, <2>1, <2>2, <2>3, <2>4, BrowserKeeps
<1>4. CASE SocketCloses /\ onWay # <<>>
  <2>1. onWay' = <<>> /\ missed' = TRUE /\ DOMAIN onWay' = {} /\ onWay' \in Seq(Events)
    <3>1. missed' = (missed \/ onWay # <<>>) /\ onWay' = <<>>
      BY <1>4 DEF SocketCloses
    <3>2. (missed \/ onWay # <<>>) = TRUE
      BY <1>4
    <3>3. DOMAIN <<>> = {} /\ <<>> \in Seq(Events)
      OBVIOUS
    <3> QED BY <3>1, <3>2, <3>3
  <2>2. BrowserTypes'
    BY <1>1, <1>2, <1>4, <2>1, PanelAssumption DEF BrowserTypes, SocketCloses
  <2>3. EndsLast'
    BY <1>1, <1>2, <2>1, Aside DEF EndsLast
  <2>4. HearsAll' /\ SaidIsSo'
    BY <2>1 DEF HearsAll, SaidIsSo
  <2> QED BY <1>1, <1>2, <2>2, <2>3, <2>4, BrowserKeeps
<1>5. (onWay' = onWay /\ missed' = missed) \/ (SocketCloses /\ onWay # <<>>)
  <2>1. ASSUME SocketCloses, onWay = <<>> PROVE onWay' = onWay /\ missed' = missed
    <3>1. missed' = (missed \/ onWay # <<>>) /\ onWay' = <<>>
      BY <2>1 DEF SocketCloses
    <3>2. (missed \/ onWay # <<>>) = missed
      <4>1. missed \in BOOLEAN
        BY <1>2 DEF BrowserTypes
      <4> QED BY <2>1, <4>1
    <3> QED BY <2>1, <3>1, <3>2
  <2>2. SocketReopens => onWay' = onWay /\ missed' = missed
    BY DEF SocketReopens
  <2> QED BY <2>1, <2>2
<1> QED BY <1>3, <1>4, <1>5

LEMMA PanelStarts ==
    ASSUME PanelInit
    PROVE  PanelInv
<1>1. MissionInv /\ MissionInit
  BY InitHolds DEF PanelInit
<1>2. place = "opening" /\ mission = "none" /\ plan = <<>> /\ rec = "running" /\ polling = FALSE
  BY <1>1 DEF MissionInit
<1>3. onWay = <<>> /\ wire = "up" /\ losses = 0 /\ post = "posted" /\ active = FALSE
      /\ panel = NoPanel /\ net = "off" /\ logged = NoPanel /\ missed = FALSE
  BY DEF PanelInit
<1>4. DOMAIN onWay = {} /\ onWay \in Seq(Events) /\ Steps = {}
  BY <1>2, <1>3 DEF Steps
<1>5. Stopped /\ EndsLast /\ SaidIsSo
  BY <1>2, <1>3, <1>4 DEF Stopped, Terminal, EndsLast, SaidIsSo
<1>6. BrowserTypes
  <2>1. 0 \in 0..MaxPanelDrops
    BY PanelAssumption
  <2>2. {active, missed} \subseteq BOOLEAN
    BY <1>3
  <2> QED BY <1>3, <1>4, <2>1, <2>2 DEF BrowserTypes
<1>7. Mirrors(logged)
  <2>1. (mission # "none") = FALSE /\ MissionDone(mission) = FALSE
    BY <1>2 DEF MissionDone
  <2>2. NoPanel.known = FALSE /\ NoPanel.finished = FALSE /\ NoPanel.steps = <<>> /\ DOMAIN <<>> = {}
    BY DEF NoPanel
  <2> QED BY <1>3, <1>4, <2>1, <2>2, NewIsPanel DEF Mirrors
<1>8. ShowsDone(panel)
  BY <1>1, <1>3, <1>7, MirrorShowsDone DEF MissionInv
<1>9. HearsAll
  BY <1>3, RebuiltOfFew DEF HearsAll
<1> QED BY <1>1, <1>5, <1>6, <1>7, <1>8, <1>9 DEF PanelInv

LEMMA PanelStepHolds ==
    ASSUME PanelInv, [PanelNext]_panelVars
    PROVE  PanelInv'
<1>1. CASE EngineTold
  BY <1>1, EngineTells
<1>2. CASE Browser
  BY <1>2, PostKeeps, HearKeeps, NetKeeps, NetShowsKeeps, SocketKeeps DEF Browser
<1>3. CASE UNCHANGED panelVars
  <2>1. UNCHANGED <<missionVars, onWay, wire, losses, post, active, panel, net, logged, missed>>
    BY <1>3 DEF panelVars, browserVars
  <2>2. BrowserTypes' /\ HearsAll'
    BY <2>1 DEF PanelInv, BrowserTypes, HearsAll, Heard
  <2>3. EndsLast'
    BY <2>1, Aside DEF PanelInv, EndsLast
  <2>4. SaidIsSo'
    <3>1. \A k \in DOMAIN onWay' : \E e : e = onWay'[k] /\ Says(e)'
      BY <2>1, Aside DEF PanelInv, SaidIsSo
    <3> QED BY <3>1 DEF SaidIsSo, Says
  <2> QED BY <2>1, <2>2, <2>3, <2>4, BrowserKeeps DEF PanelInv
<1> QED BY <1>1, <1>2, <1>3 DEF PanelNext

\* However the events of a mission, the response to its POST, the socket's end and
\* the safety net's reading of the record interleave, the panel's state and what is
\* still to be heard make up what the record says, or it is known that something
\* was missed.
THEOREM PanelInvHolds == PanelSpec => []PanelInv
<1>1. PanelInit => PanelInv
  BY PanelStarts
<1>2. PanelInv /\ [PanelNext]_panelVars => PanelInv'
  BY PanelStepHolds
<1> QED BY <1>1, <1>2, PTL DEF PanelSpec

\* So a panel of which nothing was missed comes to show every step as the engine
\* has it, and none ever shows as done or skipped a step that is not.
THEOREM PanelHolds == PanelSpec => []PanelIsTrue
<1>1. ASSUME PanelInv PROVE PanelIsTrue
  <2>1. MissionTypes /\ BrowserTypes /\ Mirrors(logged) /\ ShowsDone(panel) /\ HearsAll
    BY <1>1 DEF PanelInv, MissionInv
  <2>2. PanelTypes
    BY <2>1 DEF PanelTypes, BrowserTypes, Mirrors, ShowsDone, Events, Panels
  <2>3. post = "known" /\ ~missed => Mirrors(Heard)
    BY <2>1 DEF HearsAll, Mirrors
  <2>4. ASSUME NEW i \in DOMAIN panel.steps, panel.steps[i] \in {"done", "skipped"} PROVE panel.steps[i] \in MayShow(i)
    BY <2>1, <2>4 DEF ShowsDone, MayShow
  <2> QED BY <2>2, <2>3, <2>4 DEF PanelIsTrue, Heard, Mirrors
<1> QED BY <1>1, PanelInvHolds, PTL

\* The mission that is watched is the mission: telling what it does changes
\* nothing of what it does.
THEOREM PanelWatchesMission == PanelSpec => MissionSpec
<1>1. PanelInit => MissionInit
  BY DEF PanelInit
<1>2. [PanelNext]_panelVars => [MissionNext]_missionVars
  BY EngineIsMission DEF PanelNext, Browser, PostReturns, Hear, NetLooks, NetServed, NetShows, NetFails,
     SocketCloses, SocketReopens, panelVars
<1> QED BY <1>1, <1>2, PTL DEF PanelSpec, MissionSpec
=============================================================================

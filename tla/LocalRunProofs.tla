--------------------------- MODULE LocalRunProofs ---------------------------
(***************************************************************************)
(* Proofs about LocalRun, for any profile, any number of slots and network *)
(* conditions, and any number of faults.                                   *)
(***************************************************************************)
EXTENDS LocalRun, FiniteSetTheorems, WellFoundedInduction, SequenceTheorems, TLAPS

(* A set of naturals that has an element has a least one. *)
LEMMA LeastNat ==
    ASSUME NEW T \in SUBSET Nat, T # {}
    PROVE  \E m \in T : \A n \in T : m <= n
<1> DEFINE Before == OpToRel(<, Nat)
<1>1. IsWellFoundedOn(Before, Nat)
  BY NatLessThanWellFounded
<1>2. PICK m \in T : \A n \in T : <<n, m>> \notin Before
  <2> HIDE DEF Before
  <2>1. QED
    BY <1>1, WFMin
<1>3. \A n \in T : ~(n < m)
  BY <1>2 DEF OpToRel
<1>4. QED
  BY <1>3

(* Of finitely many numbers one is the greatest. *)
LEMMA GreatestValue ==
    ASSUME NEW n \in Nat \ {0}, NEW W \in [1..n -> Nat]
    PROVE  \E i \in 1..n : \A j \in 1..n : W[j] <= W[i]
<1> DEFINE IsMost(m, i) == \A j \in 1..m : W[j] <= W[i]
           Bad == {m \in 1..n : \A i \in 1..m : ~IsMost(m, i)}
<1>1. Bad = {}
  <2> SUFFICES ASSUME Bad # {}
               PROVE  FALSE
    OBVIOUS
  <2>1. PICK m \in Bad : \A k \in Bad : m <= k
    <3>1. Bad \in SUBSET Nat
      OBVIOUS
    <3> HIDE DEF Bad
    <3>2. QED
      BY <3>1, LeastNat
  <2>2. m \in 1..n /\ \A i \in 1..m : ~IsMost(m, i)
    BY <2>1
  <2>3. m # 1
    <3>1. 1 \in 1..1 /\ (\A j \in 1..1 : j = 1) /\ W[1] \in Nat
      OBVIOUS
    <3>2. IsMost(1, 1)
      BY <3>1
    <3> HIDE DEF IsMost
    <3>3. QED
      BY <2>2, <3>1, <3>2
  <2>4. m - 1 \in 1..n /\ ~(m <= m - 1)
    BY <2>2, <2>3
  <2>5. PICK i \in 1..(m - 1) : IsMost(m - 1, i)
    <3>1. m - 1 \notin Bad
      BY <2>1, <2>4
    <3> HIDE DEF IsMost
    <3>2. QED
      BY <2>4, <3>1
  <2>6. /\ i \in 1..m /\ m \in 1..m /\ i \in 1..n
        /\ \A j \in 1..m : j \in 1..(m - 1) \/ j = m
        /\ W[i] \in Nat /\ W[m] \in Nat
        /\ \A j \in 1..m : W[j] \in Nat
    BY <2>2, <2>4
  <2>7. IsMost(m, i) \/ IsMost(m, m)
    <3>1. CASE W[m] <= W[i]
      <4>1. ASSUME NEW j \in 1..m
            PROVE  W[j] <= W[i]
        BY <2>5, <2>6, <3>1
      <4>2. QED
        BY <4>1
    <3>2. CASE ~(W[m] <= W[i])
      <4>1. ASSUME NEW j \in 1..m
            PROVE  W[j] <= W[m]
        <5>1. W[i] <= W[m] /\ W[j] \in Nat /\ W[i] \in Nat /\ W[m] \in Nat
          BY <2>6, <3>2
        <5>2. CASE W[j] <= W[i]
          <6> HIDE DEF IsMost
          <6>1. \A x, y, z \in Nat : x <= y /\ y <= z => x <= z
            OBVIOUS
          <6>2. QED
            BY <5>1, <5>2, <6>1, Zenon
        <5>3. CASE j = m
          BY <5>1, <5>3
        <5>4. QED
          BY <2>5, <2>6, <5>2, <5>3
      <4>2. QED
        BY <4>1
    <3>3. QED
      BY <3>1, <3>2
  <2> HIDE DEF IsMost
  <2>8. QED
    BY <2>2, <2>6, <2>7
<1>2. n \in 1..n /\ n \notin Bad
  <2> HIDE DEF Bad
  <2>1. QED
    BY <1>1
<1>3. QED
  BY <1>2

(* The profile's steps are numbered from one and have slots. *)
LEMMA StepsType ==
    /\ Len(Steps) \in Nat \ {0} /\ StepIds = 1..Len(Steps)
    /\ \A i \in StepIds :
           /\ Steps[i].slots \in Nat \ {0}
           /\ Steps[i].calls \in Nat
           /\ Steps[i].held \in BOOLEAN
<1> DEFINE S == [calls : Nat, held : BOOLEAN, slots : Nat \ {0}]
<1>1. Steps \in Seq(S) /\ Steps # <<>>
  BY LocalAssumption
<1>2. \A x \in S : x.slots \in Nat \ {0} /\ x.calls \in Nat /\ x.held \in BOOLEAN
  OBVIOUS
<1> HIDE DEF S
<1>3. Len(Steps) \in Nat \ {0} /\ DOMAIN Steps = 1..Len(Steps)
      /\ \A i \in 1..Len(Steps) : Steps[i] \in S
  BY <1>1
<1>4. QED
  BY <1>2, <1>3 DEF StepIds

(* Slots is an interval which holds the slots of every step. *)
LEMMA SlotsCover ==
    /\ \A i \in StepIds : 1..Steps[i].slots \subseteq Slots
    /\ Slots \subseteq Nat \ {0} /\ IsFiniteSet(Slots)
<1> DEFINE W == [i \in 1..Len(Steps) |-> Steps[i].slots]
           Widths == {Steps[i].slots : i \in StepIds}
<1>1. W \in [1..Len(Steps) -> Nat]
  BY StepsType
<1>2. PICK i \in 1..Len(Steps) : \A j \in 1..Len(Steps) : W[j] <= W[i]
  <2> HIDE DEF W
  <2>1. QED
    BY <1>1, StepsType, GreatestValue
<1>3. W[i] \in Widths /\ \A y \in Widths : y \in Nat /\ W[i] >= y
  BY <1>2, StepsType
<1>4. Max(Widths) \in Widths /\ \A y \in Widths : Max(Widths) >= y
  <2> HIDE DEF Widths, W
  <2>1. QED
    BY <1>3 DEF Max
<1>5. Slots = 1..Max(Widths)
  BY DEF Slots
<1>6. Max(Widths) \in Nat
  BY <1>3, <1>4
<1>7. \A j \in StepIds : Steps[j].slots \in Widths
  OBVIOUS
<1> HIDE DEF Widths
<1>8. \A j \in StepIds : 1..Steps[j].slots \subseteq Slots
  BY <1>4, <1>5, <1>6, <1>7, StepsType
<1>9. IsFiniteSet(Slots) /\ Slots \subseteq Nat \ {0}
  <2>1. IsFiniteSet(1..Max(Widths))
    BY <1>6, FS_Interval
  <2>2. QED
    BY <1>5, <1>6, <2>1
<1>10. QED
  BY <1>8, <1>9

-----------------------------------------------------------------------------
(* The sum of a report's successes, unrolled one key at a time. *)
First(s) == CHOOSE k \in s : TRUE
SumOk(r, K) == MapThenSumSet(LAMBDA k : r[k].ok, K)
Unrolled(r, K, g) ==
    g = [s \in SUBSET K |-> IF s = {} THEN 0 ELSE r[First(s)].ok + g[s \ {First(s)}]]

SumsTo(r, K, g) ==
    /\ SumOk(r, K) = g[K] /\ g[{}] = 0
    /\ \A s \in SUBSET K : s # {} => g[s] = r[First(s)].ok + g[s \ {First(s)}]

(* What holds of the empty set, and of a set when it holds of the set      *)
(* without its first element, holds of every finite set.                   *)
LEMMA FirstInduction ==
    ASSUME NEW K, IsFiniteSet(K), NEW G, {} \in G,
           \A s \in SUBSET K : s # {} /\ s \ {First(s)} \in G => s \in G
    PROVE  \A s \in SUBSET K : s \in G
<1> DEFINE Sizes == {Cardinality(s) : s \in (SUBSET K) \ G}
<1>1. \A s \in SUBSET K : IsFiniteSet(s) /\ Cardinality(s) \in Nat
  BY FS_Subset, FS_CardinalityType
<1>2. SUFFICES ASSUME Sizes # {}
               PROVE  FALSE
  OBVIOUS
<1>3. PICK m \in Sizes : \A n \in Sizes : m <= n
  <2>1. Sizes \in SUBSET Nat
    BY <1>1
  <2> HIDE DEF Sizes
  <2>2. QED
    BY <1>2, <2>1, LeastNat
<1>4. PICK s \in (SUBSET K) \ G : m = Cardinality(s)
  BY <1>3
<1>5. s # {} /\ First(s) \in s
  BY <1>4 DEF First
<1>6. s \ {First(s)} \in (SUBSET K) \ G
  BY <1>4, <1>5
<1>7. Cardinality(s \ {First(s)}) = Cardinality(s) - 1
  BY <1>1, <1>4, <1>5, FS_RemoveElement
<1>8. m <= m - 1 /\ m \in Nat
  <2>1. m \in Nat
    BY <1>1, <1>4
  <2>2. Cardinality(s \ {First(s)}) \in Sizes
    BY <1>6
  <2> HIDE DEF Sizes
  <2>3. QED
    BY <1>3, <1>4, <1>7, <2>1, <2>2
<1>9. QED
  BY <1>8

(* The sum can be unrolled. *)
LEMMA Unrolls ==
    ASSUME NEW K, IsFiniteSet(K), NEW r
    PROVE  \E g : Unrolled(r, K, g)
<1> DEFINE Next(g, s) == IF s = {} THEN 0 ELSE r[First(s)].ok + g[s \ {First(s)}]
           UpTo(n, g) == /\ g = [s \in SUBSET K |-> g[s]]
                         /\ \A s \in SUBSET K : Cardinality(s) <= n => g[s] = Next(g, s)
           Bad == {n \in Nat : ~\E g : UpTo(n, g)}
<1>0. \A s \in SUBSET K : IsFiniteSet(s) /\ Cardinality(s) \in Nat
  BY FS_Subset, FS_CardinalityType
<1>1. Bad = {}
  <2> SUFFICES ASSUME Bad # {}
               PROVE  FALSE
    OBVIOUS
  <2>1. PICK m \in Bad : \A n \in Bad : m <= n
    <3>1. Bad \in SUBSET Nat
      OBVIOUS
    <3> HIDE DEF Bad
    <3>2. QED
      BY <3>1, LeastNat
  <2>2. m # 0
    <3> DEFINE z == [s \in SUBSET K |-> 0]
    <3>1. \A s \in SUBSET K : Cardinality(s) <= 0 => s = {}
      <4>1. SUFFICES ASSUME NEW s \in SUBSET K, Cardinality(s) <= 0
                     PROVE  s = {}
        OBVIOUS
      <4>2. Cardinality(s) = 0
        BY <1>0, <4>1
      <4>3. QED
        BY <1>0, <4>2, FS_EmptySet
    <3>2. UpTo(0, z)
      BY <3>1
    <3> HIDE DEF UpTo, z
    <3>3. QED
      BY <2>1, <3>2
  <2>3. m \in Nat /\ m - 1 \in Nat /\ ~(m <= m - 1)
    BY <2>1, <2>2
  <2>4. PICK g : UpTo(m - 1, g)
    <3>1. m - 1 \notin Bad
      BY <2>1, <2>3
    <3> HIDE DEF UpTo
    <3>2. QED
      BY <2>3, <3>1
  <2> DEFINE h == [s \in SUBSET K |-> Next(g, s)]
  <2>5. \A s \in SUBSET K : Cardinality(s) <= m - 1 => h[s] = g[s]
    BY <2>4
  <2>6. ASSUME NEW s \in SUBSET K, Cardinality(s) <= m
        PROVE  h[s] = Next(h, s)
    <3>1. CASE s = {}
      BY <3>1
    <3>2. CASE s # {}
      <4>1. First(s) \in s /\ s \ {First(s)} \in SUBSET K
        BY <3>2 DEF First
      <4>2. Cardinality(s \ {First(s)}) = Cardinality(s) - 1
        BY <1>0, <4>1, FS_RemoveElement
      <4>3. Cardinality(s \ {First(s)}) <= m - 1
        BY <1>0, <2>3, <2>6, <4>2
      <4>4. h[s \ {First(s)}] = g[s \ {First(s)}]
        <5> HIDE DEF h
        <5>1. QED
          BY <2>5, <4>1, <4>3
      <4>5. h[s] = r[First(s)].ok + g[s \ {First(s)}]
        BY <3>2
      <4> HIDE DEF h
      <4>6. QED
        BY <3>2, <4>4, <4>5
    <3>3. QED
      BY <3>1, <3>2
  <2>7. UpTo(m, h)
    <3>1. h = [s \in SUBSET K |-> h[s]]
      OBVIOUS
    <3> HIDE DEF h, Next
    <3>2. QED
      BY <2>6, <3>1
  <2> HIDE DEF UpTo, h
  <2>8. QED
    BY <2>1, <2>7
<1>2. PICK g : UpTo(Cardinality(K), g)
  <2>1. Cardinality(K) \in Nat
    BY FS_CardinalityType
  <2> HIDE DEF UpTo
  <2>2. QED
    BY <1>1, <2>1
<1>3. \A s \in SUBSET K : Cardinality(s) <= Cardinality(K)
  BY FS_Subset
<1>4. \A s \in SUBSET K : g[s] = Next(g, s)
  <2> HIDE DEF Next
  <2>1. QED
    BY <1>2, <1>3
<1>5. g = [s \in SUBSET K |-> g[s]]
  <2> HIDE DEF Next
  <2>1. QED
    BY <1>2
<1>6. Unrolled(r, K, g)
  <2>1. g = [s \in SUBSET K |-> Next(g, s)]
    <3> HIDE DEF Next
    <3>1. QED
      BY <1>4, <1>5
  <2>2. QED
    BY <2>1 DEF Unrolled
<1>7. QED
  BY <1>6

(* So the sum is what the unrolling comes to. *)
LEMMA SumUnrolled ==
    ASSUME NEW K, IsFiniteSet(K), NEW r
    PROVE  \E g : SumsTo(r, K, g)
<1>1. SumOk(r, K) = (CHOOSE g : Unrolled(r, K, g))[K]
  BY DEF SumOk, MapThenSumSet, MapThenFoldSet, Unrolled, First
<1>2. PICK g : g = CHOOSE f : Unrolled(r, K, f)
  OBVIOUS
<1>3. Unrolled(r, K, g)
  BY <1>2, Unrolls, Zenon
<1>4. /\ g[{}] = 0
      /\ \A s \in SUBSET K : s # {} => g[s] = r[First(s)].ok + g[s \ {First(s)}]
  BY <1>3 DEF Unrolled
<1>5. QED
  BY <1>1, <1>2, <1>4 DEF SumsTo

(* The sum of numbers is a number, and of zeros is zero. *)
LEMMA SumType ==
    ASSUME NEW K, IsFiniteSet(K), NEW r, \A k \in K : r[k].ok \in Nat
    PROVE  SumOk(r, K) \in Nat /\ ((\A k \in K : r[k].ok = 0) => SumOk(r, K) = 0)
<1>1. PICK g : SumsTo(r, K, g)
  BY SumUnrolled
<1> DEFINE Counted == {s \in SUBSET K : g[s] \in Nat /\ ((\A k \in K : r[k].ok = 0) => g[s] = 0)}
<1>2. \A s \in SUBSET K : s # {} /\ s \ {First(s)} \in Counted => s \in Counted
  <2>1. SUFFICES ASSUME NEW s \in SUBSET K, s # {}, s \ {First(s)} \in Counted
                 PROVE  s \in Counted
    OBVIOUS
  <2>2. First(s) \in K /\ g[s] = r[First(s)].ok + g[s \ {First(s)}]
    BY <1>1, <2>1 DEF First, SumsTo
  <2>3. r[First(s)].ok \in Nat /\ g[s \ {First(s)}] \in Nat
    BY <2>1, <2>2
  <2>4. QED
    BY <2>1, <2>2, <2>3
<1>3. {} \in Counted
  BY <1>1 DEF SumsTo
<1>4. K \in Counted
  <2> HIDE DEF Counted
  <2>1. QED
    BY <1>2, <1>3, FirstInduction
<1>5. QED
  BY <1>1, <1>4 DEF SumsTo

(* A key that changes changes the sum by as much. *)
LEMMA SumChanges ==
    ASSUME NEW K, IsFiniteSet(K), NEW r, \A k \in K : r[k].ok \in Nat,
           NEW q, \A k \in K : q[k].ok \in Nat,
           NEW i \in K, \A k \in K \ {i} : q[k] = r[k]
    PROVE  SumOk(q, K) = SumOk(r, K) - r[i].ok + q[i].ok
<1>1. PICK g : SumsTo(r, K, g)
  BY SumUnrolled
<1>2. PICK h : SumsTo(q, K, h)
  BY SumUnrolled
<1> DEFINE Moved == {s \in SUBSET K : /\ g[s] \in Int /\ h[s] \in Int
                                      /\ h[s] = IF i \in s THEN g[s] - r[i].ok + q[i].ok ELSE g[s]}
<1>3. \A s \in SUBSET K : s # {} /\ s \ {First(s)} \in Moved => s \in Moved
  <2>1. SUFFICES ASSUME NEW s \in SUBSET K, s # {}, s \ {First(s)} \in Moved
                 PROVE  s \in Moved
    OBVIOUS
  <2> DEFINE f == First(s)
             t == s \ {f}
  <2>2. f \in s /\ f \in K /\ g[s] = r[f].ok + g[t] /\ h[s] = q[f].ok + h[t]
    BY <1>1, <1>2, <2>1 DEF First, SumsTo
  <2>3. r[f].ok \in Nat /\ q[f].ok \in Nat /\ r[i].ok \in Nat /\ q[i].ok \in Nat
    BY <2>2
  <2>4. g[t] \in Int /\ h[t] \in Int
        /\ h[t] = IF i \in t THEN g[t] - r[i].ok + q[i].ok ELSE g[t]
    BY <2>1
  <2>5. f # i => q[f] = r[f]
    BY <2>2
  <2>6. (i \in t <=> i \in s /\ f # i)
    OBVIOUS
  <2> HIDE DEF f, t
  <2>7. h[s] = IF i \in s THEN g[s] - r[i].ok + q[i].ok ELSE g[s]
    BY <2>2, <2>3, <2>4, <2>5, <2>6
  <2>8. g[s] \in Int /\ h[s] \in Int
    BY <2>2, <2>3, <2>4
  <2>9. QED
    BY <2>7, <2>8
<1>4. {} \in Moved
  BY <1>1, <1>2 DEF SumsTo
<1>5. K \in Moved
  <2> HIDE DEF Moved
  <2>1. QED
    BY <1>3, <1>4, FirstInduction
<1>6. QED
  BY <1>1, <1>2, <1>5 DEF SumsTo

-----------------------------------------------------------------------------
(* The inductive invariant, part by part.                                  *)

(* The conditions of the run by number, and the report's key of each step. *)
NumCohorts == IF Matrix THEN Len(cohorts) ELSE 1
Cohorts == 1..NumCohorts
NameOf(c) == IF Matrix THEN cohorts[c] ELSE Clean
KeyOf(c, i) == <<NameOf(c), i>>

(* The types, of the run's variables, of its calls' and of its events'.    *)
Stages == {"applying", "verifying", "warming", "opening", "running", "scoring", "flushing",
           "quoting drops", "quoting error", "writing", "restoring", "ended", "panicked"}
SlotStates == {"off", "checking", "drawing", "calling", "publishing", "ok", "failed", "done"}
RunTypes ==
    /\ cohorts \in CohortLists
    /\ stage \in Stages
    /\ cohort \in Cohorts /\ step \in StepIds
    /\ cancelled \in BOOLEAN /\ complained \in BOOLEAN
    /\ netem \in Conditions
    /\ result \in {"none", "ok", "error"}
    /\ faults \in 0..MaxFaults
CallTypes ==
    /\ remaining \in Int /\ expired \in BOOLEAN
    /\ slot \in [Slots -> SlotStates]
    /\ active \in Nat
    /\ placed \in [Keys(cohorts) -> Nat]
    /\ outcomes \in [ok : Nat, failed : Nat]
    /\ report \in [Keys(cohorts) -> [ok : Nat, failed : Nat]]
EventTypes ==
    /\ inflight \in Nat /\ produced \in Nat /\ dropped \in Nat
    /\ storing \in ErrorTypes \cup {NoError} /\ lastErr \in ErrorTypes \cup {NoError}
    /\ quoted \in [produced : Nat, dropped : Nat, err : BOOLEAN]

TypeInv == RunTypes /\ CallTypes /\ EventTypes

(* The gauge counts the calls in progress; between steps no slot is at     *)
(* anything; a step's slots are its own.                                   *)
InCall == {s \in Slots : slot[s] = "calling"}
SlotsInv ==
    /\ active = Cardinality(InCall)
    /\ stage # "running" => \A s \in Slots : slot[s] \in {"off", "done"}
    /\ stage = "running" => \A s \in Slots : slot[s] = "off" <=> s > Steps[step].slots

(* While a step runs, a call it has placed is in a slot or among its       *)
(* outcomes; its budget is what it has not placed; and a slot that was not *)
(* told to stop has found the budget spent.                                *)
Busy == {s \in Slots : slot[s] \in {"calling", "publishing", "ok", "failed"}}
Left == IF remaining > 0 THEN remaining ELSE 0
BudgetInv ==
    stage = "running" =>
        /\ placed[Key] = Size(outcomes) + Cardinality(Busy)
        /\ ~Steps[step].held =>
               /\ placed[Key] = Steps[step].calls - Left
               /\ ~cancelled /\ (\E s \in Slots : slot[s] = "done") => remaining < 0

NeverTooMany ==
    \A k \in Keys(cohorts) : ~Steps[k[2]].held => placed[k] <= Steps[k[2]].calls

(* The steps the run has yet to come to, and those it has behind it.       *)
Ahead(c, i) ==
    \/ c > cohort
    \/ /\ c = cohort
       /\ \/ stage \in {"applying", "verifying", "warming"}
          \/ stage = "opening" /\ i >= step
          \/ stage = "running" /\ i > step

LastStages == {"flushing", "quoting drops", "quoting error", "writing"}
Past(c, i) ==
    \/ c < cohort
    \/ /\ c = cohort
       /\ \/ stage \in {"opening", "running"} /\ i < step
          \/ stage = "scoring" \/ stage \in LastStages
          \/ result = "ok"

AheadInv == \A c \in Cohorts : \A i \in StepIds : Ahead(c, i) => placed[KeyOf(c, i)] = 0
PastInv ==
    ~cancelled => \A c \in Cohorts : \A i \in StepIds :
        Past(c, i) /\ ~Steps[i].held => placed[KeyOf(c, i)] = Steps[i].calls
EndInv ==
    /\ result # "none" => stage \in {"restoring"} \cup Over
    /\ ~cancelled /\ (stage \in LastStages \/ result = "ok") => cohort = NumCohorts

(* The report lacks no more than the calls of the step that runs, or was   *)
(* running when the run died.                                              *)
ReportedInv ==
    /\ stage = "running" => report[Key] = Tally
    /\ \A k \in Keys(cohorts) :
           k # Key \/ stage \notin {"running", "panicked"} \/ result = "ok" =>
               Size(report[k]) = placed[k]

(* What the run may rely on about the interface. *)
NetInv ==
    /\ ~Matrix => netem = Clean
    /\ stage = "verifying" => netem = Condition \/ Condition = Clean
    /\ stage \in {"warming", "opening", "running", "scoring"} => netem = Condition

(* An event whose drop is being recorded is still in flight, and a drop    *)
(* leaves its reason behind.                                               *)
ClientInv ==
    /\ storing # NoError => inflight > 0 /\ dropped > 0
    /\ storing = NoError => (lastErr # NoError <=> dropped > 0)

(* Every turn event of a call that succeeded was delivered, was dropped or *)
(* is in flight, and one whose drop is counted may still be in flight too. *)
Spoken == {s \in Slots : slot[s] = "ok"}
Succeeded ==
    SumOk(report, Keys(cohorts))
        + (IF stage = "running" THEN outcomes.ok + Cardinality(Spoken) ELSE 0)
Answering == IF storing = NoError THEN 0 ELSE 1
LedgerInv ==
    ~Matrix /\ stage \notin Over =>
        produced + dropped + inflight = TurnsPerCall * Succeeded + Answering

(* A flush that was not cut short has left nothing in flight, so that the  *)
(* figures are read one after the other from counters that stand still.    *)
Sent == TurnsPerCall * SumOk(report, Keys(cohorts))
Told == quoted.produced + quoted.dropped
FiguresHold ==
    Told <= Sent /\ (~cancelled => Told = Sent /\ quoted.err = (quoted.dropped > 0))
FiguresInv ==
    ~Matrix =>
        /\ stage \in {"quoting drops", "quoting error"} /\ ~cancelled => inflight = 0
        /\ stage = "quoting drops" =>
               quoted.produced <= produced /\ (~cancelled => quoted.produced = produced)
        /\ stage = "quoting error" =>
               /\ Told <= produced + dropped
               /\ ~cancelled => quoted.produced = produced /\ quoted.dropped = dropped
        /\ stage = "writing" \/ result = "ok" => FiguresHold

LInv ==
    /\ TypeInv /\ ClientInv
    /\ SlotsInv
    /\ BudgetInv /\ NeverTooMany
    /\ AheadInv /\ PastInv /\ EndInv
    /\ ReportedInv
    /\ NetInv /\ ImpairmentIsNotLeftSilently
    /\ LedgerInv /\ FiguresInv

-----------------------------------------------------------------------------
(* Each step has a key of its own. *)
LEMMA KeysApart ==
    ASSUME TypeInv
    PROVE  /\ NumCohorts \in Nat \ {0}
           /\ Key = KeyOf(cohort, step) /\ Key \in Keys(cohorts) /\ Key[2] = step
           /\ Condition \in Conditions
           /\ \A c \in Cohorts : \A i \in StepIds : KeyOf(c, i) \in Keys(cohorts)
           /\ \A k \in Keys(cohorts) : \E c \in Cohorts : \E i \in StepIds : k = KeyOf(c, i)
           /\ \A k \in Keys(cohorts) : k[2] \in StepIds
           /\ \A c, d \in Cohorts : \A i, j \in StepIds :
                  KeyOf(c, i) = KeyOf(d, j) => c = d /\ i = j
<1>1. /\ cohorts \in CohortLists /\ cohort \in Cohorts /\ step \in StepIds
  BY DEF TypeInv, RunTypes
<1>2. /\ cohorts \in Seq(Conditions) /\ Clean \in Conditions
      /\ \A i, j \in DOMAIN cohorts : cohorts[i] = cohorts[j] => i = j
  BY <1>1, LocalAssumption
<1>3. /\ DOMAIN cohorts = 1..Len(cohorts) /\ Len(cohorts) \in Nat
      /\ Matrix => Len(cohorts) # 0
      /\ \A i \in 1..Len(cohorts) : cohorts[i] \in Conditions
  BY <1>2 DEF Matrix
<1>4. /\ NumCohorts \in Nat \ {0}
      /\ Matrix => Cohorts = DOMAIN cohorts
      /\ ~Matrix => Cohorts = {1}
  BY <1>3 DEF NumCohorts, Cohorts
<1>5. \A c \in Cohorts : NameOf(c) \in Conditions
  BY <1>2, <1>3, <1>4 DEF NameOf
<1>6. Condition = NameOf(cohort)
  BY DEF Condition, NameOf
<1>7. \A c, d \in Cohorts : NameOf(c) = NameOf(d) => c = d
  BY <1>2, <1>4 DEF NameOf
<1>8. Keys(cohorts) = {NameOf(c) : c \in Cohorts} \X StepIds
  <2>1. CASE Matrix
    BY <1>4, <2>1 DEF Keys, NameOf, Matrix
  <2>2. CASE ~Matrix
    BY <1>4, <2>2 DEF Keys, NameOf, Matrix
  <2>3. QED
    BY <2>1, <2>2
<1>9. QED
  BY <1>1, <1>4, <1>5, <1>6, <1>7, <1>8 DEF Key, KeyOf

(* The conditions of a run are settled when it starts. *)
LEMMA CohortsKept ==
    ASSUME [LocalNext]_localVars
    PROVE  cohorts' = cohorts
  BY DEF LocalNext, RunNext, BrokerNext, SlotNext, localVars, ChangeQdisc, VerifyQdisc, WarmCache,
         OpenStep, CloseStep, Score, QuoteProduced, QuoteDropped, QuoteError, WriteReport,
         RestoreInterface, Deliver, Drop, StoreError, StorePanics, Expire, Cancel, CheckBudget,
         DrawCall, EndCall, Publish, FileOutcome

(* The variables of the run keep their types. *)
LEMMA RunTypesStay ==
    ASSUME TypeInv, [LocalNext]_localVars
    PROVE  RunTypes'
<1>0. RunTypes /\ cohorts' = cohorts
  BY CohortsKept DEF TypeInv
<1>01. Fault \/ NoFault \/ faults' = faults => faults' \in 0..MaxFaults
  BY <1>0, LocalAssumption DEF Fault, NoFault, RunTypes
<1>02. Condition \in Conditions /\ Clean \in Conditions /\ NumCohorts \in Nat \ {0}
  BY KeysApart, LocalAssumption
<1>03. StepIds = 1..Len(Steps) /\ Len(Steps) \in Nat \ {0}
  BY StepsType
<1>04. /\ cohort' = cohort => (cohort \in Cohorts)'
       /\ cohort' \in Cohorts => (cohort \in Cohorts)'
  BY <1>0 DEF Cohorts, NumCohorts, Matrix, RunTypes
<1> USE DEF RunTypes
<1>1. ASSUME UNCHANGED <<stage, cohort, step, netVars, result, faults>>,
             cancelled' = cancelled \/ cancelled' = TRUE
      PROVE  RunTypes'
  BY <1>0, <1>04, <1>1 DEF netVars
<1>2. ASSUME UNCHANGED <<cohort, step, netVars, result, cancelled>>,
             stage' \in Stages, faults' \in 0..MaxFaults
      PROVE  RunTypes'
  BY <1>0, <1>04, <1>2 DEF netVars
<1>3. CASE ChangeQdisc
  BY <1>0, <1>01, <1>02, <1>04, <1>3 DEF ChangeQdisc, Fails, Stages
<1>4. CASE VerifyQdisc
  BY <1>0, <1>01, <1>04, <1>4 DEF VerifyQdisc, Fails, Stages, netVars
<1>5. CASE WarmCache
  <2>1. 1 \in StepIds
    BY <1>03
  <2>2. step' \in StepIds /\ stage' \in Stages /\ result' \in {"none", "ok", "error"}
    BY <1>0, <1>5, <2>1 DEF WarmCache, Fails, Stages
  <2>3. QED
    BY <1>0, <1>01, <1>04, <1>5, <2>2 DEF WarmCache, netVars
<1>6. CASE OpenStep
  BY <1>0, <1>2, <1>6 DEF OpenStep, Stages
<1>7. CASE Expire \/ Cancel
  BY <1>1, <1>7 DEF Expire, Cancel
<1>8. ASSUME NEW s \in Slots, SlotNext(s)
      PROVE  RunTypes'
  <2>1. CASE CheckBudget(s) \/ DrawCall(s) \/ Publish(s) \/ FileOutcome(s)
    BY <1>1, <2>1 DEF CheckBudget, DrawCall, Publish, FileOutcome
  <2>2. CASE EndCall(s)
    BY <1>0, <1>01, <1>2, <2>2 DEF EndCall
  <2>3. QED
    BY <1>8, <2>1, <2>2 DEF SlotNext
<1>9. CASE CloseStep
  <2>1. step' \in StepIds /\ stage' \in Stages
    <3>1. step \in Nat /\ step >= 1 /\ step <= Len(Steps)
      BY <1>0, <1>03
    <3>2. step' = step \/ (step # Len(Steps) /\ step' = step + 1)
      BY <1>9 DEF CloseStep
    <3>3. step' \in StepIds
      BY <1>03, <3>1, <3>2
    <3>4. QED
      BY <1>9, <3>3 DEF CloseStep, Stages
  <2>2. QED
    BY <1>0, <1>04, <1>9, <2>1 DEF CloseStep, netVars
<1>10. CASE Score
  <2>1. cohort' \in Cohorts /\ stage' \in Stages
    <3>1. \/ cohort' = cohort
          \/ cohort' = cohort + 1 /\ cohort < NumCohorts
      BY <1>10 DEF Score, NumCohorts
    <3>2. cohort' \in Cohorts
      BY <1>0, <1>02, <3>1 DEF Cohorts
    <3>3. stage' \in Stages
      BY <1>10 DEF Score, Stages
    <3>4. QED
      BY <3>2, <3>3
  <2>2. QED
    BY <1>0, <1>04, <1>10, <2>1 DEF Score, netVars
<1>11. CASE Deliver \/ StoreError
  BY <1>1, <1>11 DEF Deliver, StoreError
<1>12. CASE Drop
  BY <1>0, <1>01, <1>2, <1>12 DEF Drop
<1>13. CASE StorePanics \/ QuoteProduced \/ QuoteDropped \/ QuoteError
  BY <1>0, <1>2, <1>13 DEF StorePanics, QuoteProduced, QuoteDropped, QuoteError, Stages
<1>14. CASE WriteReport
  BY <1>0, <1>01, <1>04, <1>14 DEF WriteReport, Stages, netVars
<1>15. CASE RestoreInterface
  BY <1>0, <1>01, <1>02, <1>04, <1>15 DEF RestoreInterface, RestoreClears, Stages
<1>16. CASE UNCHANGED localVars
  BY <1>1, <1>16 DEF localVars
<1>17. QED
  BY <1>3, <1>4, <1>5, <1>6, <1>7, <1>8, <1>9, <1>10, <1>11, <1>12, <1>13, <1>14, <1>15, <1>16
  DEF LocalNext, RunNext, BrokerNext

(* What a step of the run does to a step's calls, if it is none of the     *)
(* steps that concern them: nothing.                                       *)
Quiet ==
    /\ UNCHANGED <<remaining, slot, active, outcomes, placed, report>>
    /\ stage' = "running" <=> stage = "running"
    /\ stage = "running" => UNCHANGED <<step, cohort>>

(* Only opening and closing a step, its slots and a panic touch its calls. *)
LEMMA QuietOrNot ==
    ASSUME [LocalNext]_localVars
    PROVE  \/ Quiet /\ (cancelled => cancelled')
           \/ OpenStep \/ CloseStep \/ StorePanics
           \/ \E s \in Slots : SlotNext(s)
<1>1. CASE Expire \/ Cancel
  BY <1>1 DEF Expire, Cancel, Quiet, callVars, stepVars
<1>2. CASE ChangeQdisc \/ VerifyQdisc \/ WarmCache
  BY <1>2 DEF ChangeQdisc, VerifyQdisc, WarmCache, Fails, Quiet, callVars, stepVars
<1>3. CASE Score \/ QuoteProduced \/ QuoteDropped \/ QuoteError \/ WriteReport \/ RestoreInterface
  BY <1>3 DEF Score, QuoteProduced, QuoteDropped, QuoteError, WriteReport, RestoreInterface, Quiet,
              callVars, stepVars
<1>4. CASE Deliver \/ Drop \/ StoreError
  BY <1>4 DEF Deliver, Drop, StoreError, Quiet, callVars, stepVars
<1>5. CASE UNCHANGED localVars
  BY <1>5 DEF localVars, Quiet, callVars, stepVars
<1>6. QED
  BY <1>1, <1>2, <1>3, <1>4, <1>5 DEF LocalNext, RunNext, BrokerNext

(* A slot moves only while its step runs, and moves nothing but itself.    *)
LEMMA SlotActs ==
    ASSUME TypeInv, SlotsInv, NEW s \in Slots, SlotNext(s)
    PROVE  /\ stage = "running"
           /\ UNCHANGED <<cohorts, stage, cohort, step, cancelled, netVars, report, result>>
           /\ slot[s] \notin {"off", "done"} /\ slot'[s] # "off"
           /\ slot' = [slot EXCEPT ![s] = slot'[s]]
<1>1. slot \in [Slots -> SlotStates]
  BY DEF TypeInv, CallTypes
<1>2. CASE CheckBudget(s) \/ DrawCall(s)
  BY <1>1, <1>2 DEF CheckBudget, DrawCall, StartCall, StopSlot, netVars
<1>3. CASE EndCall(s) \/ Publish(s) \/ FileOutcome(s)
  <2>1. slot[s] \notin {"off", "done"}
    BY <1>3 DEF EndCall, Publish, FileOutcome
  <2>2. stage = "running"
    BY <2>1 DEF SlotsInv
  <2>3. QED
    BY <1>1, <1>3, <2>1, <2>2 DEF EndCall, Publish, FileOutcome, netVars, callVars
<1>4. QED
  BY <1>2, <1>3 DEF SlotNext

(* The gauge keeps counting the calls in progress. *)
LEMMA GaugeStays ==
    ASSUME TypeInv, SlotsInv, [LocalNext]_localVars
    PROVE  active' = Cardinality(InCall')
<1>0. /\ slot \in [Slots -> SlotStates] /\ active \in Nat /\ active = Cardinality(InCall)
      /\ IsFiniteSet(InCall) /\ InCall \subseteq Slots
  <2>1. InCall \in SUBSET Slots
    BY DEF InCall
  <2>2. QED
    BY <2>1, SlotsCover, FS_Subset DEF TypeInv, CallTypes, SlotsInv
<1>1. ASSUME NEW s \in Slots, SlotNext(s)
      PROVE  active' = Cardinality(InCall')
  <2>0. slot' = [slot EXCEPT ![s] = slot'[s]]
    BY <1>1, SlotActs
  <2>1. /\ s \in InCall <=> slot[s] = "calling"
        /\ s \in InCall' <=> slot'[s] = "calling"
        /\ InCall' \ {s} = InCall \ {s}
    BY <1>0, <2>0 DEF InCall
  <2>2. CASE slot[s] # "calling" /\ slot'[s] = "calling" /\ active' = active + 1
    <3>1. InCall' = InCall \cup {s} /\ s \notin InCall
      BY <2>1, <2>2
    <3>2. QED
      BY <1>0, <2>2, <3>1, FS_AddElement
  <2>3. CASE slot[s] = "calling" /\ slot'[s] # "calling" /\ active' = active - 1
    <3>1. InCall' = InCall \ {s} /\ s \in InCall
      BY <2>1, <2>3
    <3>2. QED
      BY <1>0, <2>3, <3>1, FS_RemoveElement
  <2>4. CASE slot[s] # "calling" /\ slot'[s] # "calling" /\ active' = active
    <3>1. InCall' = InCall
      BY <2>1, <2>4
    <3>2. QED
      BY <1>0, <2>4, <3>1
  <2>5. \/ slot[s] # "calling" /\ slot'[s] = "calling" /\ active' = active + 1
        \/ slot[s] = "calling" /\ slot'[s] # "calling" /\ active' = active - 1
        \/ slot[s] # "calling" /\ slot'[s] # "calling" /\ active' = active
    <3>1. CASE CheckBudget(s) \/ DrawCall(s)
      BY <1>0, <3>1 DEF CheckBudget, DrawCall, StartCall, StopSlot
    <3>2. CASE EndCall(s) \/ Publish(s) \/ FileOutcome(s)
      BY <1>0, <3>2 DEF EndCall, Publish, FileOutcome
    <3>3. QED
      BY <1>1, <3>1, <3>2 DEF SlotNext
  <2>6. QED
    BY <2>2, <2>3, <2>4, <2>5
<1>2. CASE OpenStep
  <2>1. InCall = {} /\ active' = active
    BY <1>2 DEF OpenStep, SlotsInv, InCall
  <2>2. InCall' = {}
    BY <1>2 DEF OpenStep, InCall
  <2>3. QED
    BY <1>0, <2>1, <2>2
<1>3. CASE StorePanics
  <2>1. InCall' = {} /\ active' = 0
    BY <1>3 DEF StorePanics, InCall
  <2>2. QED
    BY <2>1, FS_EmptySet
<1>4. CASE Quiet \/ CloseStep
  <2>1. InCall' = InCall /\ active' = active
    BY <1>4 DEF Quiet, CloseStep, stepVars, InCall
  <2>2. QED
    BY <1>0, <2>1
<1>5. QED
  BY <1>1, <1>2, <1>3, <1>4, QuietOrNot

(* A step's slots stay its own, and rest between steps. *)
LEMMA SlotsStay ==
    ASSUME TypeInv, SlotsInv, [LocalNext]_localVars
    PROVE  SlotsInv'
<1>0. slot \in [Slots -> SlotStates] /\ step \in StepIds
  BY DEF TypeInv, CallTypes, RunTypes
<1>1. ASSUME NEW s \in Slots, SlotNext(s)
      PROVE  SlotsInv'
  BY <1>0, <1>1, SlotActs, GaugeStays DEF SlotsInv
<1>2. CASE OpenStep
  <2>1. /\ stage' = "running" /\ step' = step
        /\ slot' = [t \in Slots |-> IF t <= Steps[step].slots THEN "checking" ELSE "off"]
    BY <1>2 DEF OpenStep
  <2>2. Steps[step].slots \in Nat /\ \A t \in Slots : t \in Nat
    BY <1>0, StepsType, SlotsCover
  <2>3. \A t \in Slots : slot'[t] = "off" <=> t > Steps[step].slots
    BY <2>1, <2>2
  <2>4. QED
    BY <2>1, <2>3, GaugeStays DEF SlotsInv
<1>3. CASE StorePanics
  <2>1. stage' # "running" /\ \A t \in Slots : slot'[t] = "off"
    BY <1>3 DEF StorePanics
  <2>2. QED
    BY <2>1, GaugeStays DEF SlotsInv
<1>4. CASE CloseStep
  <2>1. stage' # "running" /\ \A t \in Slots : slot'[t] \in {"off", "done"}
    BY <1>4 DEF CloseStep, SlotsStopped, stepVars
  <2>2. QED
    BY <2>1, GaugeStays DEF SlotsInv
<1>5. CASE Quiet
  BY <1>5, GaugeStays DEF Quiet, SlotsInv
<1>6. QED
  BY <1>1, <1>2, <1>3, <1>4, <1>5, QuietOrNot

(* The variables of its calls keep their types. *)
LEMMA CallTypesStay ==
    ASSUME TypeInv, SlotsInv, [LocalNext]_localVars
    PROVE  CallTypes'
<1>0. CallTypes /\ cohorts' = cohorts
  BY CohortsKept DEF TypeInv
<1>01. Key \in Keys(cohorts) /\ step \in StepIds /\ Steps[step].calls \in Nat
  BY KeysApart, StepsType DEF TypeInv, RunTypes
<1>02. active' \in Nat
  <2>1. InCall' \in SUBSET Slots /\ active' = Cardinality(InCall')
    BY SlotsStay DEF SlotsInv, InCall
  <2>2. QED
    BY <2>1, SlotsCover, FS_Subset, FS_CardinalityType
<1> USE DEF CallTypes
<1>1. ASSUME UNCHANGED <<stepVars, callVars>>
      PROVE  CallTypes'
  BY <1>0, <1>1 DEF stepVars, callVars
<1>2. CASE OpenStep
  <2>1. remaining' \in Int /\ expired' \in BOOLEAN
    <3>1. remaining' = Steps[step].calls
      BY <1>2 DEF OpenStep
    <3>2. remaining' \in Int
      BY <1>01, <3>1
    <3>3. expired' \in BOOLEAN
      BY <1>2 DEF OpenStep
    <3>4. QED
      BY <3>2, <3>3
  <2>2. slot' \in [Slots -> SlotStates]
    BY <1>2 DEF OpenStep, SlotStates
  <2>3. outcomes' \in [ok : Nat, failed : Nat]
    BY <1>2 DEF OpenStep, Tally
  <2>4. active' = active /\ placed' = placed /\ report' = report
    BY <1>2 DEF OpenStep, callVars
  <2>5. QED
    BY <1>0, <2>1, <2>2, <2>3, <2>4
<1>3. CASE Expire
  BY <1>0, <1>3 DEF Expire, callVars
<1>4. ASSUME NEW s \in Slots, CheckBudget(s) \/ DrawCall(s)
      PROVE  CallTypes'
  <2>1. slot' \in [Slots -> SlotStates]
    BY <1>0, <1>4 DEF CheckBudget, DrawCall, StartCall, StopSlot, SlotStates
  <2>2. active' \in Nat
    BY <1>0, <1>4 DEF CheckBudget, DrawCall, StartCall, StopSlot
  <2>3. placed' \in [Keys(cohorts) -> Nat]
    <3>1. placed' = placed \/ placed' = [placed EXCEPT ![Key] = @ + 1]
      BY <1>4 DEF CheckBudget, DrawCall, StartCall, StopSlot
    <3>2. QED
      BY <1>0, <1>01, <3>1
  <2>4. remaining' \in Int /\ expired' = expired /\ outcomes' = outcomes /\ report' = report
    BY <1>0, <1>4 DEF CheckBudget, DrawCall
  <2>5. QED
    BY <1>0, <2>1, <2>2, <2>3, <2>4
<1>5. ASSUME NEW s \in Slots, EndCall(s)
      PROVE  CallTypes'
  <2>1. slot' \in [Slots -> SlotStates] /\ slot[s] = "calling"
    BY <1>0, <1>5 DEF EndCall, SlotStates
  <2>2. QED
    BY <1>0, <1>02, <1>5, <2>1 DEF EndCall, callVars
<1>6. ASSUME NEW s \in Slots, Publish(s) \/ FileOutcome(s)
      PROVE  CallTypes'
  <2>1. slot' \in [Slots -> SlotStates]
    BY <1>0, <1>6 DEF Publish, FileOutcome, SlotStates
  <2>2. outcomes' \in [ok : Nat, failed : Nat]
    BY <1>0, <1>6 DEF Publish, FileOutcome
  <2>3. QED
    BY <1>0, <1>6, <2>1, <2>2 DEF Publish, FileOutcome, callVars
<1>7. CASE CloseStep
  <2>1. report' \in [Keys(cohorts) -> [ok : Nat, failed : Nat]]
    BY <1>0, <1>01, <1>7 DEF CloseStep, KeepsCalls
  <2>2. QED
    BY <1>0, <1>7, <2>1 DEF CloseStep, stepVars
<1>8. CASE StorePanics
  <2>1. slot' \in [Slots -> SlotStates]
    BY <1>8 DEF StorePanics, SlotStates
  <2>2. QED
    BY <1>0, <1>8, <2>1 DEF StorePanics, callVars
<1>9. CASE \/ ChangeQdisc \/ VerifyQdisc \/ WarmCache \/ Score \/ Cancel
           \/ Deliver \/ Drop \/ StoreError \/ QuoteProduced \/ QuoteDropped \/ QuoteError
           \/ WriteReport \/ RestoreInterface \/ UNCHANGED localVars
  BY <1>1, <1>9
  DEF ChangeQdisc, VerifyQdisc, WarmCache, Score, Cancel, Deliver, Drop, StoreError, QuoteProduced,
      QuoteDropped, QuoteError, WriteReport, RestoreInterface, localVars
<1>10. QED
  BY <1>2, <1>3, <1>4, <1>5, <1>6, <1>7, <1>8, <1>9 DEF LocalNext, RunNext, BrokerNext, SlotNext

(* The variables of its turn events keep their types. *)
LEMMA EventTypesStay ==
    ASSUME TypeInv, ClientInv, [LocalNext]_localVars
    PROVE  EventTypes'
<1>0. EventTypes
  BY DEF TypeInv
<1> USE DEF EventTypes
<1>1. ASSUME UNCHANGED <<busVars, quoted>>
      PROVE  EventTypes'
  BY <1>0, <1>1 DEF busVars
<1>2. CASE Deliver
  BY <1>0, <1>2 DEF Deliver
<1>3. CASE Drop
  BY <1>0, <1>3 DEF Drop, ErrorTypes
<1>4. CASE StorePanics
  BY <1>0, <1>4 DEF StorePanics
<1>5. CASE QuoteProduced \/ QuoteDropped \/ QuoteError
  <2>1. quoted' \in [produced : Nat, dropped : Nat, err : BOOLEAN]
    BY <1>0, <1>5 DEF QuoteProduced, QuoteDropped, QuoteError
  <2>2. QED
    BY <1>0, <1>5, <2>1 DEF QuoteProduced, QuoteDropped, QuoteError, busVars
<1>6. ASSUME NEW s \in Slots, SlotNext(s)
      PROVE  EventTypes'
  <2>1. CASE Publish(s)
    <3>1. inflight' \in Nat
      BY <1>0, <2>1, LocalAssumption DEF Publish
    <3>2. QED
      BY <1>0, <2>1, <3>1 DEF Publish
  <2>2. CASE CheckBudget(s) \/ DrawCall(s) \/ EndCall(s) \/ FileOutcome(s)
    BY <1>1, <2>2 DEF CheckBudget, DrawCall, EndCall, FileOutcome
  <2>3. QED
    BY <1>6, <2>1, <2>2 DEF SlotNext
<1>7. CASE StoreError
  <2>1. inflight > 0 /\ inflight' = inflight - 1
    BY <1>7 DEF StoreError, ClientInv, ErrorTypes, NoError
  <2>2. QED
    BY <1>0, <1>7, <2>1 DEF StoreError
<1>8. CASE \/ ChangeQdisc \/ VerifyQdisc \/ WarmCache \/ OpenStep \/ CloseStep \/ Score
           \/ WriteReport \/ RestoreInterface \/ Expire \/ Cancel \/ UNCHANGED localVars
  BY <1>1, <1>8
  DEF ChangeQdisc, VerifyQdisc, WarmCache, OpenStep, CloseStep, Score, WriteReport,
      RestoreInterface, Expire, Cancel, localVars
<1>9. QED
  BY <1>2, <1>3, <1>4, <1>5, <1>6, <1>7, <1>8 DEF LocalNext, RunNext, BrokerNext

-----------------------------------------------------------------------------
(* The slots that a call occupies are finitely many. *)
LEMMA BusyFinite ==
    IsFiniteSet(Busy) /\ Cardinality(Busy) \in Nat /\ Busy \subseteq Slots
<1>1. Busy \in SUBSET Slots
  BY DEF Busy
<1>2. QED
  BY <1>1, SlotsCover, FS_Subset, FS_CardinalityType

(* What a step of a slot does to its step's count: it starts a call, which *)
(* then occupies the slot, or files the outcome of one, which leaves it.   *)
LEMMA SlotCounts ==
    ASSUME TypeInv, SlotsInv, NEW s \in Slots, SlotNext(s)
    PROVE  \/ /\ placed' = [placed EXCEPT ![Key] = @ + 1]
              /\ outcomes' = outcomes /\ Cardinality(Busy') = Cardinality(Busy) + 1
           \/ /\ placed' = placed /\ Size(outcomes') = Size(outcomes) + 1
              /\ Cardinality(Busy') = Cardinality(Busy) - 1
           \/ /\ placed' = placed /\ outcomes' = outcomes
              /\ Cardinality(Busy') = Cardinality(Busy)
<1>0. /\ slot \in [Slots -> SlotStates] /\ outcomes \in [ok : Nat, failed : Nat]
      /\ slot' = [slot EXCEPT ![s] = slot'[s]]
  BY SlotActs DEF TypeInv, CallTypes
<1>1. /\ s \in Busy <=> slot[s] \in {"calling", "publishing", "ok", "failed"}
      /\ s \in Busy' <=> slot'[s] \in {"calling", "publishing", "ok", "failed"}
      /\ Busy' \ {s} = Busy \ {s}
  BY <1>0 DEF Busy
<1>2. s \notin Busy /\ s \in Busy' => Cardinality(Busy') = Cardinality(Busy) + 1
  <2>1. SUFFICES ASSUME s \notin Busy, s \in Busy'
                 PROVE  Cardinality(Busy') = Cardinality(Busy) + 1
    OBVIOUS
  <2>2. Busy' = Busy \cup {s}
    BY <1>1, <2>1
  <2>3. QED
    BY <2>1, <2>2, BusyFinite, FS_AddElement
<1>3. s \in Busy /\ s \notin Busy' => Cardinality(Busy') = Cardinality(Busy) - 1
  <2>1. SUFFICES ASSUME s \in Busy, s \notin Busy'
                 PROVE  Cardinality(Busy') = Cardinality(Busy) - 1
    OBVIOUS
  <2>2. Busy' = Busy \ {s}
    BY <1>1, <2>1
  <2>3. QED
    BY <2>1, <2>2, BusyFinite, FS_RemoveElement
<1>4. (s \in Busy <=> s \in Busy') => Cardinality(Busy') = Cardinality(Busy)
  <2>1. SUFFICES ASSUME s \in Busy <=> s \in Busy'
                 PROVE  Cardinality(Busy') = Cardinality(Busy)
    OBVIOUS
  <2>2. Busy' = Busy
    BY <1>1, <2>1
  <2>3. QED
    BY <2>2
<1>5. CASE CheckBudget(s) \/ DrawCall(s)
  <2>1. s \notin Busy /\ outcomes' = outcomes
    BY <1>1, <1>5 DEF CheckBudget, DrawCall
  <2>2. \/ StartCall(s) /\ slot'[s] = "calling"
        \/ placed' = placed /\ slot'[s] \in {"drawing", "done"}
    BY <1>0, <1>5 DEF CheckBudget, DrawCall, StartCall, StopSlot
  <2>3. QED
    BY <1>1, <1>2, <1>4, <2>1, <2>2 DEF StartCall
<1>6. CASE EndCall(s) \/ Publish(s)
  <2>1. /\ placed' = placed /\ outcomes' = outcomes
        /\ slot[s] \in {"calling", "publishing"}
        /\ slot'[s] \in {"publishing", "failed", "ok"}
    BY <1>0, <1>6 DEF EndCall, Publish, callVars
  <2>2. QED
    BY <1>1, <1>4, <2>1
<1>7. CASE FileOutcome(s)
  <2>1. /\ placed' = placed /\ slot[s] \in {"ok", "failed"} /\ slot'[s] = "checking"
        /\ outcomes' = [outcomes EXCEPT ![slot[s]] = @ + 1]
    BY <1>0, <1>7 DEF FileOutcome, callVars
  <2>2. Size(outcomes') = Size(outcomes) + 1
    BY <1>0, <2>1 DEF Size
  <2>3. QED
    BY <1>1, <1>3, <2>1, <2>2
<1>8. QED
  BY <1>5, <1>6, <1>7, SlotActs DEF SlotNext

(* What it does to the budget of a step that is not held. *)
LEMMA SlotSpends ==
    ASSUME TypeInv, SlotsInv, NEW s \in Slots, SlotNext(s), ~Steps[step].held
    PROVE  /\ \/ /\ remaining' = remaining - 1 /\ remaining' >= 0
                 /\ placed' = [placed EXCEPT ![Key] = @ + 1]
              \/ remaining' = remaining - 1 /\ remaining' < 0 /\ placed' = placed
              \/ remaining' = remaining /\ placed' = placed
           /\ slot'[s] = "done" => cancelled \/ remaining' < 0
<1>0. slot \in [Slots -> SlotStates] /\ remaining \in Int
  BY DEF TypeInv, CallTypes
<1>1. CASE CheckBudget(s)
  BY <1>0, <1>1 DEF CheckBudget, StartCall, StopSlot
<1>2. CASE DrawCall(s)
  <2>1. remaining' = remaining - 1
    BY <1>2 DEF DrawCall
  <2>2. CASE remaining' >= 0
    BY <1>0, <1>2, <2>1, <2>2 DEF DrawCall, BudgetLasts, StartCall
  <2>3. CASE ~(remaining' >= 0)
    BY <1>0, <1>2, <2>1, <2>3 DEF DrawCall, BudgetLasts, StopSlot
  <2>4. QED
    BY <2>2, <2>3
<1>3. CASE EndCall(s) \/ Publish(s) \/ FileOutcome(s)
  BY <1>0, <1>3 DEF EndCall, Publish, FileOutcome, callVars
<1>4. QED
  BY <1>1, <1>2, <1>3 DEF SlotNext

(* The budget of a step keeps matching what the step has placed. *)
LEMMA BudgetStays ==
    ASSUME TypeInv, SlotsInv, BudgetInv, AheadInv, [LocalNext]_localVars
    PROVE  BudgetInv'
<1>0. /\ slot \in [Slots -> SlotStates] /\ remaining \in Int /\ cohorts' = cohorts
      /\ placed \in [Keys(cohorts) -> Nat] /\ placed[Key] \in Nat
      /\ outcomes \in [ok : Nat, failed : Nat] /\ Size(outcomes) \in Nat
      /\ step \in StepIds /\ cohort \in Cohorts
  <2>1. outcomes \in [ok : Nat, failed : Nat] => Size(outcomes) \in Nat
    BY DEF Size
  <2>2. QED
    BY <2>1, CohortsKept, KeysApart DEF TypeInv, CallTypes, RunTypes
<1>1. ASSUME NEW s \in Slots, SlotNext(s)
      PROVE  BudgetInv'
  <2>1. /\ stage = "running" /\ Key' = Key /\ step' = step /\ cancelled' = cancelled
        /\ slot' = [slot EXCEPT ![s] = slot'[s]]
    BY <1>1, SlotActs DEF Key, Condition, Matrix
  <2>2. placed[Key] = Size(outcomes) + Cardinality(Busy)
    BY <2>1 DEF BudgetInv
  <2>3. placed'[Key] = Size(outcomes') + Cardinality(Busy')
    <3>1. /\ Cardinality(Busy) \in Nat /\ Key \in Keys(cohorts)
      BY BusyFinite, KeysApart
    <3>2. QED
      BY <1>0, <1>1, <2>2, <3>1, SlotCounts
  <2>4. ASSUME ~Steps[step].held
        PROVE  /\ placed'[Key] = Steps[step].calls - Left'
               /\ ~cancelled /\ (\E t \in Slots : slot'[t] = "done") => remaining' < 0
    <3>1. /\ placed[Key] = Steps[step].calls - Left
          /\ ~cancelled /\ (\E t \in Slots : slot[t] = "done") => remaining < 0
      BY <2>1, <2>4 DEF BudgetInv
    <3>2. Key \in Keys(cohorts) /\ Steps[step].calls \in Nat
      BY <1>0, KeysApart, StepsType
    <3>3. /\ \/ /\ remaining' = remaining - 1 /\ remaining' >= 0
                /\ placed' = [placed EXCEPT ![Key] = @ + 1]
             \/ remaining' = remaining - 1 /\ remaining' < 0 /\ placed' = placed
             \/ remaining' = remaining /\ placed' = placed
          /\ slot'[s] = "done" => cancelled \/ remaining' < 0
      BY <1>1, <2>4, SlotSpends
    <3>4. placed'[Key] = Steps[step].calls - Left'
      BY <1>0, <3>1, <3>2, <3>3 DEF Left
    <3>5. (\E t \in Slots : slot'[t] = "done") => slot'[s] = "done" \/ \E t \in Slots : slot[t] = "done"
      BY <1>0, <2>1
    <3>6. QED
      BY <1>0, <3>1, <3>3, <3>4, <3>5
  <2>5. QED
    BY <2>1, <2>3, <2>4 DEF BudgetInv
<1>2. CASE OpenStep
  <2>1. /\ stage = "opening" /\ Key' = Key /\ step' = step /\ placed' = placed
        /\ remaining' = Steps[step].calls /\ outcomes' = Tally
        /\ \A t \in Slots : slot'[t] \in {"checking", "off"}
    BY <1>2 DEF OpenStep, Key, Condition, Matrix, callVars
  <2>2. step >= step
    BY <1>0, StepsType
  <2>3. placed[Key] = 0
    BY <1>0, <2>1, <2>2, KeysApart DEF AheadInv, Ahead
  <2>4. Busy' = {} /\ Size(outcomes') = 0
    BY <2>1 DEF Busy, Size, Tally
  <2>5. Cardinality(Busy') = 0
    BY <2>4, FS_EmptySet
  <2>6. Steps[step].calls \in Nat
    BY <1>0, StepsType
  <2>7. placed'[Key] = Steps[step].calls - Left'
    BY <2>1, <2>3, <2>6 DEF Left
  <2>8. QED
    BY <2>1, <2>3, <2>4, <2>5, <2>7 DEF BudgetInv
<1>3. CASE StorePanics \/ CloseStep
  <2>1. stage' # "running"
    BY <1>3 DEF StorePanics, CloseStep
  <2>2. QED
    BY <2>1 DEF BudgetInv
<1>4. CASE Quiet /\ (cancelled => cancelled')
  <2>1. SUFFICES ASSUME stage' = "running"
                 PROVE  BudgetInv'
    BY DEF BudgetInv
  <2>2. /\ stage = "running" /\ step' = step /\ Key' = Key /\ Busy' = Busy /\ Left' = Left
        /\ placed' = placed /\ outcomes' = outcomes /\ slot' = slot /\ remaining' = remaining
    BY <1>0, <1>4, <2>1 DEF Quiet, Key, Condition, Matrix, Busy, Left
  <2>3. QED
    BY <1>4, <2>2 DEF BudgetInv
<1>5. QED
  BY <1>1, <1>2, <1>3, <1>4, QuietOrNot

(* Only the running step places calls. *)
LEMMA OthersKeepTheirCalls ==
    ASSUME TypeInv, SlotsInv, [LocalNext]_localVars, NEW k \in Keys(cohorts),
           k # Key \/ stage # "running"
    PROVE  placed'[k] = placed[k]
<1>0. placed \in [Keys(cohorts) -> Nat]
  BY DEF TypeInv, CallTypes
<1>1. ASSUME NEW s \in Slots, SlotNext(s)
      PROVE  placed'[k] = placed[k]
  BY <1>0, <1>1, SlotActs, SlotCounts
<1>2. CASE OpenStep \/ CloseStep \/ StorePanics \/ Quiet
  BY <1>2 DEF OpenStep, CloseStep, StorePanics, Quiet, callVars
<1>3. QED
  BY <1>1, <1>2, QuietOrNot

(* No step places more calls than it was given. *)
LEMMA NeverTooManyStays ==
    ASSUME TypeInv, SlotsInv, BudgetInv, BudgetInv', NeverTooMany, [LocalNext]_localVars
    PROVE  NeverTooMany'
<1>0. cohorts' = cohorts /\ step \in StepIds /\ placed \in [Keys(cohorts) -> Nat]
  BY CohortsKept DEF TypeInv, RunTypes, CallTypes
<1>1. SUFFICES ASSUME NEW k \in Keys(cohorts), ~Steps[k[2]].held
               PROVE  placed'[k] <= Steps[k[2]].calls
  BY <1>0 DEF NeverTooMany
<1>2. placed[k] <= Steps[k[2]].calls
  BY <1>1 DEF NeverTooMany
<1>3. CASE placed'[k] = placed[k]
  BY <1>2, <1>3
<1>4. CASE placed'[k] # placed[k]
  <2>1. k = Key /\ stage = "running" /\ k[2] = step
    BY <1>4, OthersKeepTheirCalls, KeysApart
  <2>2. PICK s \in Slots : SlotNext(s)
    BY <1>4, QuietOrNot DEF Quiet, OpenStep, CloseStep, StorePanics, callVars
  <2>3. stage' = "running" /\ step' = step /\ Key' = Key
    BY <1>0, <2>2, SlotActs, <2>1 DEF Key, Condition, Matrix
  <2>4. placed'[Key] = Steps[step].calls - Left'
    BY <1>1, <2>1, <2>3 DEF BudgetInv
  <2>5. remaining' \in Int /\ Steps[step].calls \in Nat
    BY <1>0, CallTypesStay, StepsType DEF CallTypes
  <2>6. Left' \in Nat
    BY <2>5 DEF Left
  <2>7. QED
    BY <2>1, <2>4, <2>5, <2>6
<1>5. QED
  BY <1>3, <1>4

-----------------------------------------------------------------------------
(* The names of the conditions do not change. *)
LEMMA NamesKept ==
    ASSUME [LocalNext]_localVars
    PROVE  /\ cohorts' = cohorts /\ (Matrix <=> Matrix') /\ NumCohorts' = NumCohorts
           /\ Cohorts' = Cohorts /\ Keys(cohorts') = Keys(cohorts)
           /\ \A c, i : KeyOf(c, i)' = KeyOf(c, i)
  BY CohortsKept DEF Matrix, NumCohorts, Cohorts, KeyOf, NameOf

(* A step the run has yet to come to was already ahead of it before. *)
LEMMA AheadShrinks ==
    ASSUME TypeInv, SlotsInv, [LocalNext]_localVars, NEW c \in Nat, NEW i \in StepIds, Ahead(c, i)'
    PROVE  Ahead(c, i)
<1>0. /\ cohort \in Nat /\ step \in Nat /\ i \in Nat /\ i >= 1
  BY KeysApart, StepsType DEF TypeInv, RunTypes, Cohorts
<1>1. CASE UNCHANGED <<stage, cohort, step>>
  BY <1>1 DEF Ahead
<1>2. CASE ChangeQdisc \/ VerifyQdisc \/ WarmCache
  BY <1>0, <1>2 DEF ChangeQdisc, VerifyQdisc, WarmCache, Fails, Ahead
<1>3. CASE OpenStep \/ CloseStep
  BY <1>0, <1>3 DEF OpenStep, CloseStep, Ahead
<1>4. CASE Score
  BY <1>0, <1>4 DEF Score, Ahead
<1>5. CASE QuoteProduced \/ QuoteDropped \/ QuoteError \/ WriteReport \/ RestoreInterface \/ StorePanics
  BY <1>5 DEF QuoteProduced, QuoteDropped, QuoteError, WriteReport, RestoreInterface, StorePanics, Ahead
<1>6. CASE Expire \/ Cancel \/ Deliver \/ Drop \/ StoreError \/ UNCHANGED localVars
  BY <1>1, <1>6 DEF Expire, Cancel, Deliver, Drop, StoreError, localVars
<1>7. CASE \E s \in Slots : SlotNext(s)
  BY <1>1, <1>7, SlotActs
<1>8. QED
  BY <1>2, <1>3, <1>4, <1>5, <1>6, <1>7 DEF LocalNext, RunNext, BrokerNext

(* Nothing is placed ahead of the run. *)
LEMMA AheadStays ==
    ASSUME TypeInv, SlotsInv, AheadInv, [LocalNext]_localVars
    PROVE  AheadInv'
<1>1. SUFFICES ASSUME NEW c \in Cohorts, NEW i \in StepIds, Ahead(c, i)'
               PROVE  placed'[KeyOf(c, i)] = 0
  BY NamesKept DEF AheadInv
<1>2. c \in Nat /\ cohort \in Cohorts /\ step \in StepIds
  BY KeysApart DEF Cohorts, TypeInv, RunTypes
<1>3. Ahead(c, i)
  BY <1>1, <1>2, AheadShrinks
<1>4. placed[KeyOf(c, i)] = 0
  BY <1>3 DEF AheadInv
<1>5. KeyOf(c, i) # Key \/ stage # "running"
  <2>1. stage = "running" => ~Ahead(cohort, step)
    <3>1. NumCohorts \in Nat /\ cohort \in Cohorts
      BY <1>2, KeysApart
    <3>2. step \in Nat
      BY <1>2, StepsType
    <3>3. ~(cohort > cohort) /\ ~(step > step)
      BY <3>1, <3>2 DEF Cohorts
    <3>4. QED
      BY <3>3, Zenon DEF Ahead
  <2>2. KeyOf(c, i) = Key => c = cohort /\ i = step
    BY <1>2, KeysApart
  <2>3. QED
    BY <1>3, <2>1, <2>2
<1>6. QED
  BY <1>4, <1>5, OthersKeepTheirCalls, KeysApart

(* A step that the run has behind it was so before, or has just closed,    *)
(* unless the run was interrupted.                                         *)
LEMMA PastGrows ==
    ASSUME TypeInv, SlotsInv, EndInv, [LocalNext]_localVars, ~cancelled',
           NEW c \in Nat, NEW i \in StepIds, Past(c, i)'
    PROVE  Past(c, i) \/ (CloseStep /\ c = cohort /\ i = step)
<1>0. cohort \in Int /\ step \in Int /\ i \in Int /\ i >= 1
  BY KeysApart, StepsType DEF TypeInv, RunTypes, Cohorts
<1>01. \/ c < cohort'
       \/ /\ c = cohort'
          /\ \/ stage' \in {"opening", "running"} /\ i < step'
             \/ stage' = "scoring" \/ stage' \in LastStages
             \/ result' = "ok"
  BY DEF Past, LastStages
<1>1. CASE UNCHANGED <<stage, cohort, step, result>>
  BY <1>1 DEF Past
<1>2. CASE ChangeQdisc \/ VerifyQdisc
  BY <1>0, <1>2 DEF ChangeQdisc, VerifyQdisc, Fails, Past, LastStages
<1>3. CASE WarmCache \/ OpenStep
  <2>1. CASE WarmCache
    <3>1. /\ stage = "warming" /\ cohort' = cohort
          /\ \/ stage' = "opening" /\ step' = 1 /\ result' = result
             \/ stage' \in {"restoring", "ended"} /\ result' = "error"
      BY <2>1 DEF WarmCache, Fails
    <3>2. ~(i < 1)
      BY <1>0
    <3>3. c < cohort \/ (c = cohort /\ result = "ok")
      BY <1>01, <3>1, <3>2 DEF LastStages
    <3>4. QED
      BY <3>3 DEF Past
  <2>2. CASE OpenStep
    BY <1>0, <1>01, <2>2 DEF OpenStep, Past, LastStages
  <2>3. QED
    BY <1>3, <2>1, <2>2
<1>4. CASE CloseStep
  <2>1. /\ stage = "running" /\ cohort' = cohort /\ result' = result
        /\ \/ stage' = "scoring" /\ step = Len(Steps)
           \/ stage' = "opening" /\ step' = step + 1
    BY <1>4 DEF CloseStep
  <2>2. c < cohort \/ (c = cohort /\ (i <= step \/ result = "ok"))
    <3>1. step = Len(Steps) => i <= step
      BY StepsType
    <3>2. i < step + 1 => i <= step
      BY <1>0
    <3>3. QED
      BY <1>01, <2>1, <3>1, <3>2 DEF LastStages
  <2>3. QED
    BY <1>0, <1>4, <2>1, <2>2 DEF Past
<1>5. CASE Score
  <2>1. /\ stage = "scoring" /\ result' = result
        /\ \/ stage' = "applying" /\ cohort' = cohort + 1
           \/ cohort' = cohort
    BY <1>5 DEF Score
  <2>11. result' # "ok"
    BY <2>1 DEF EndInv, Over
  <2>2. c < cohort + 1 => c < cohort \/ c = cohort
    BY <1>0
  <2>3. c < cohort \/ c = cohort
    BY <1>01, <2>1, <2>11, <2>2 DEF LastStages
  <2>4. QED
    BY <2>1, <2>3 DEF Past
<1>6. CASE QuoteProduced \/ QuoteDropped \/ QuoteError \/ WriteReport
  <2>1. stage \in LastStages /\ cohort' = cohort
    BY <1>6 DEF QuoteProduced, QuoteDropped, QuoteError, WriteReport, LastStages
  <2>2. QED
    BY <1>01, <2>1 DEF Past
<1>7. CASE RestoreInterface \/ StorePanics
  BY <1>7 DEF RestoreInterface, StorePanics, Past, LastStages
<1>8. CASE Expire \/ Cancel \/ Deliver \/ Drop \/ StoreError \/ UNCHANGED localVars
  BY <1>1, <1>8 DEF Expire, Cancel, Deliver, Drop, StoreError, localVars
<1>9. CASE \E s \in Slots : SlotNext(s)
  BY <1>1, <1>9, SlotActs
<1>10. QED
  BY <1>2, <1>3, <1>4, <1>5, <1>6, <1>7, <1>8, <1>9 DEF LocalNext, RunNext, BrokerNext

(* A step that closes without an interruption has placed all its calls. *)
LEMMA ClosedStepIsComplete ==
    ASSUME TypeInv, SlotsInv, BudgetInv, CloseStep, ~cancelled, ~Steps[step].held
    PROVE  placed[Key] = Steps[step].calls
<1>1. /\ stage = "running" /\ \A s \in Slots : slot[s] \in {"done", "off"}
      /\ step \in StepIds
  BY DEF CloseStep, SlotsStopped, TypeInv, RunTypes
<1>2. 1 \in Slots /\ ~(1 > Steps[step].slots)
  BY <1>1, StepsType, SlotsCover
<1>3. slot[1] = "done"
  BY <1>1, <1>2 DEF SlotsInv
<1>4. remaining < 0 /\ placed[Key] = Steps[step].calls - Left
  BY <1>1, <1>2, <1>3 DEF BudgetInv
<1>5. remaining \in Int /\ Steps[step].calls \in Nat
  BY <1>1, StepsType DEF TypeInv, CallTypes
<1>6. QED
  BY <1>4, <1>5 DEF Left

(* A run that was not interrupted has placed every call behind it. *)
LEMMA PastStays ==
    ASSUME TypeInv, SlotsInv, BudgetInv, EndInv, PastInv, [LocalNext]_localVars
    PROVE  PastInv'
<1>1. SUFFICES ASSUME ~cancelled', NEW c \in Cohorts, NEW i \in StepIds, Past(c, i)', ~Steps[i].held
               PROVE  placed'[KeyOf(c, i)] = Steps[i].calls
  BY NamesKept DEF PastInv
<1>2. c \in Nat /\ cohort \in Cohorts /\ step \in StepIds
  BY KeysApart DEF Cohorts, TypeInv, RunTypes
<1>3. ~cancelled
  <2>1. cancelled' = cancelled \/ cancelled' = TRUE
    BY DEF LocalNext, RunNext, BrokerNext, SlotNext, localVars, ChangeQdisc, VerifyQdisc, WarmCache,
         OpenStep, CloseStep, Score, QuoteProduced, QuoteDropped, QuoteError, WriteReport,
         RestoreInterface, Deliver, Drop, StoreError, StorePanics, Expire, Cancel, CheckBudget,
         DrawCall, EndCall, Publish, FileOutcome
  <2>2. QED
    BY <1>1, <2>1
<1>4. CASE Past(c, i)
  <2>1. placed[KeyOf(c, i)] = Steps[i].calls
    BY <1>1, <1>3, <1>4 DEF PastInv
  <2>2. stage = "running" => KeyOf(c, i) # Key
    <3>1. stage = "running" => ~Past(cohort, step)
      <4>1. ~(cohort < cohort) /\ ~(step < step)
        BY <1>2, KeysApart, StepsType DEF Cohorts
      <4>2. QED
        BY <4>1 DEF Past, EndInv, LastStages, Over
    <3>2. KeyOf(c, i) = Key => c = cohort /\ i = step
      BY <1>2, KeysApart
    <3>3. QED
      BY <1>4, <3>1, <3>2
  <2>3. QED
    BY <2>1, <2>2, OthersKeepTheirCalls, KeysApart
<1>5. CASE CloseStep /\ c = cohort /\ i = step
  <2>1. KeyOf(c, i) = Key /\ placed' = placed
    BY <1>5, KeysApart DEF CloseStep
  <2>2. QED
    BY <1>1, <1>3, <1>5, <2>1, ClosedStepIsComplete
<1>6. QED
  BY <1>1, <1>2, <1>4, <1>5, PastGrows

(* Only the end of a run sets its result, when every condition was run. *)
LEMMA EndStays ==
    ASSUME TypeInv, EndInv, [LocalNext]_localVars
    PROVE  EndInv'
<1>0. /\ NumCohorts' = NumCohorts /\ cohort \in 1..NumCohorts /\ NumCohorts \in Nat
      /\ Over = {"ended", "panicked"}
  BY NamesKept, KeysApart DEF TypeInv, RunTypes, Cohorts, Over
<1> USE DEF EndInv
<1>1. ASSUME UNCHANGED <<cohort, result>>, stage' = stage \/ stage' \notin LastStages \cup {"restoring"},
             stage \in {"restoring"} \cup Over => stage' \in {"restoring"} \cup Over,
             cancelled => cancelled'
      PROVE  EndInv'
  BY <1>0, <1>1
<1>2. CASE ChangeQdisc \/ VerifyQdisc
  BY <1>0, <1>2 DEF ChangeQdisc, VerifyQdisc, Fails, LastStages
<1>3. CASE WarmCache \/ OpenStep \/ CloseStep
  BY <1>0, <1>3 DEF WarmCache, OpenStep, CloseStep, Fails, LastStages
<1>4. CASE Score
  <2>1. /\ stage = "scoring" /\ result' = result /\ cancelled' = cancelled
        /\ \/ stage' = "applying"
           \/ /\ stage' \in {"writing", "flushing"} /\ cohort' = cohort
              /\ ~cancelled => ~(Matrix /\ cohort < Len(cohorts))
    BY <1>4 DEF Score
  <2>2. ~Matrix => NumCohorts = 1
    BY DEF NumCohorts
  <2>3. Matrix => NumCohorts = Len(cohorts)
    BY DEF NumCohorts
  <2>4. ~(Matrix /\ cohort < Len(cohorts)) => cohort = NumCohorts
    BY <1>0, <2>2, <2>3
  <2>5. QED
    BY <1>0, <2>1, <2>4 DEF LastStages
<1>5. CASE QuoteProduced \/ QuoteDropped \/ QuoteError
  BY <1>0, <1>5 DEF QuoteProduced, QuoteDropped, QuoteError, LastStages
<1>6. CASE WriteReport
  BY <1>0, <1>6 DEF WriteReport, LastStages
<1>7. CASE RestoreInterface \/ StorePanics
  BY <1>0, <1>7 DEF RestoreInterface, StorePanics, LastStages
<1>8. CASE Expire \/ Cancel \/ Deliver \/ Drop \/ StoreError \/ UNCHANGED localVars
  BY <1>1, <1>8 DEF Expire, Cancel, Deliver, Drop, StoreError, localVars
<1>9. ASSUME NEW s \in Slots, SlotNext(s)
      PROVE  EndInv'
  BY <1>1, <1>9 DEF SlotNext, CheckBudget, DrawCall, EndCall, Publish, FileOutcome
<1>10. QED
  BY <1>2, <1>3, <1>4, <1>5, <1>6, <1>7, <1>8, <1>9 DEF LocalNext, RunNext, BrokerNext

-----------------------------------------------------------------------------
(* Only closing a step changes the report. *)
LEMMA ReportKept ==
    ASSUME TypeInv, SlotsInv, [LocalNext]_localVars
    PROVE  report' = report \/ CloseStep
<1>1. ASSUME NEW s \in Slots, SlotNext(s)
      PROVE  report' = report
  BY <1>1, SlotActs
<1>2. CASE OpenStep \/ StorePanics \/ Quiet
  BY <1>2 DEF OpenStep, StorePanics, Quiet, callVars
<1>3. QED
  BY <1>1, <1>2, QuietOrNot

(* The number of calls of a record is a number. *)
LEMMA SizeType ==
    /\ \A t \in [ok : Nat, failed : Nat] : Size(t) \in Nat /\ (Size(t) = 0 => t = Tally)
    /\ Size(Tally) = 0 /\ Tally \in [ok : Nat, failed : Nat]
  BY DEF Size, Tally

(* While a step runs, the report holds nothing of it. *)
LEMMA RunningUnreported ==
    ASSUME TypeInv, SlotsInv, AheadInv, ReportedInv, [LocalNext]_localVars, stage' = "running"
    PROVE  report'[Key'] = Tally
<1>0. /\ Key \in Keys(cohorts) /\ report \in [Keys(cohorts) -> [ok : Nat, failed : Nat]]
      /\ step \in StepIds /\ cohort \in Cohorts /\ cohorts' = cohorts
  BY KeysApart, CohortsKept DEF TypeInv, CallTypes, RunTypes
<1>1. ASSUME NEW s \in Slots, SlotNext(s)
      PROVE  report'[Key'] = Tally
  BY <1>1, SlotActs DEF ReportedInv, Key, Condition, Matrix
<1>2. CASE OpenStep
  <2>1. stage = "opening" /\ report' = report /\ Key' = Key
    BY <1>2 DEF OpenStep, callVars, Key, Condition, Matrix
  <2>2. step >= step
    BY <1>0, StepsType
  <2>3. placed[Key] = 0
    BY <1>0, <2>1, <2>2, KeysApart DEF AheadInv, Ahead
  <2>4. Size(report[Key]) = 0
    BY <1>0, <2>1, <2>3 DEF ReportedInv
  <2>5. QED
    BY <1>0, <2>1, <2>4, SizeType
<1>3. CASE Quiet
  BY <1>0, <1>3 DEF Quiet, ReportedInv, Key, Condition, Matrix
<1>4. CASE CloseStep \/ StorePanics
  BY <1>4 DEF CloseStep, StorePanics
<1>5. QED
  BY <1>1, <1>2, <1>3, <1>4, QuietOrNot

(* A run that has died changes nothing of itself any more. *)
LEMMA PanicStays ==
    ASSUME [LocalNext]_localVars, stage = "panicked", Quiet
    PROVE  UNCHANGED <<cohorts, stage, cohort, step, result>>
<1>1. CASE RunNext \/ Expire
  BY <1>1 DEF RunNext, Expire, ChangeQdisc, VerifyQdisc, WarmCache, OpenStep, CloseStep, Score,
              QuoteProduced, QuoteDropped, QuoteError, WriteReport, RestoreInterface
<1>2. CASE BrokerNext \/ Cancel \/ UNCHANGED localVars
  BY <1>2 DEF BrokerNext, Deliver, Drop, StoreError, StorePanics, Cancel, localVars
<1>3. CASE \E s \in Slots : SlotNext(s)
  BY <1>3 DEF SlotNext, CheckBudget, DrawCall, EndCall, Publish, FileOutcome
<1>4. QED
  BY <1>1, <1>2, <1>3 DEF LocalNext

(* The report keeps every call of the steps behind the run. *)
LEMMA ReportedStays ==
    ASSUME TypeInv, SlotsInv, BudgetInv, AheadInv, EndInv, EndInv', ReportedInv, [LocalNext]_localVars
    PROVE  ReportedInv'
<1>0. /\ Key \in Keys(cohorts) /\ report \in [Keys(cohorts) -> [ok : Nat, failed : Nat]]
      /\ cohorts' = cohorts /\ Over = {"ended", "panicked"}
  BY KeysApart, CohortsKept DEF TypeInv, CallTypes, Over
<1>1. SUFFICES ASSUME NEW k \in Keys(cohorts),
                      k # Key' \/ stage' \notin {"running", "panicked"} \/ result' = "ok"
               PROVE  Size(report'[k]) = placed'[k]
  BY <1>0, RunningUnreported DEF ReportedInv
<1>2. ASSUME NEW s \in Slots, SlotNext(s)
      PROVE  Size(report'[k]) = placed'[k]
  <2>1. /\ stage = "running" /\ stage' = stage /\ result' = result /\ report' = report /\ Key' = Key
    BY <1>2, SlotActs DEF Key, Condition, Matrix
  <2>2. result # "ok"
    BY <1>0, <2>1 DEF EndInv
  <2>3. k # Key
    BY <1>1, <2>1, <2>2
  <2>4. QED
    BY <2>1, <2>3, OthersKeepTheirCalls DEF ReportedInv
<1>3. CASE CloseStep
  <2>1. /\ stage = "running" /\ placed' = placed /\ report' = [report EXCEPT ![Key] = outcomes]
        /\ \A s \in Slots : slot[s] \in {"done", "off"}
    BY <1>3 DEF CloseStep, KeepsCalls, SlotsStopped
  <2>2. Busy = {}
    BY <2>1 DEF Busy
  <2>3. Cardinality(Busy) = 0 /\ Size(outcomes) \in Nat
    BY <2>2, FS_EmptySet, SizeType DEF TypeInv, CallTypes
  <2>4. placed[Key] = Size(outcomes)
    BY <2>1, <2>3 DEF BudgetInv
  <2>5. CASE k = Key
    BY <1>0, <2>1, <2>4, <2>5
  <2>6. CASE k # Key
    BY <1>0, <2>1, <2>6 DEF ReportedInv
  <2>7. QED
    BY <2>5, <2>6
<1>4. CASE OpenStep
  BY <1>4 DEF OpenStep, callVars, ReportedInv
<1>5. CASE StorePanics
  <2>1. placed' = placed /\ report' = report /\ result' = result /\ Key' = Key
        /\ (stage' = stage \/ stage' = "panicked")
    BY <1>5 DEF StorePanics, callVars, Key, Condition, Matrix
  <2>2. QED
    BY <1>1, <2>1 DEF ReportedInv
<1>6. ASSUME Quiet
      PROVE  Size(report'[k]) = placed'[k]
  <2>1. placed' = placed /\ report' = report
    BY <1>6 DEF Quiet
  <2>2. CASE stage = "running"
    <3>1. stage' = "running" /\ Key' = Key /\ stage' \notin {"restoring"} \cup Over
      BY <1>0, <1>6, <2>2 DEF Quiet, Key, Condition, Matrix
    <3>2. result' # "ok"
      BY <3>1 DEF EndInv
    <3>3. QED
      BY <1>1, <2>1, <3>1, <3>2 DEF ReportedInv
  <2>3. CASE stage = "panicked"
    <3>1. stage' = stage /\ result' = result /\ Key' = Key
      BY <1>0, <1>6, <2>3, PanicStays DEF Key, Condition, Matrix
    <3>2. QED
      BY <1>1, <2>1, <3>1 DEF ReportedInv
  <2>4. CASE stage \notin {"running", "panicked"}
    BY <2>1, <2>4 DEF ReportedInv
  <2>5. QED
    BY <2>2, <2>3, <2>4
<1>7. QED
  BY <1>2, <1>3, <1>4, <1>5, <1>6, QuietOrNot

(* The interface stays what the run took it for. *)
LEMMA NetStays ==
    ASSUME TypeInv, SlotsInv, NetInv, [LocalNext]_localVars
    PROVE  NetInv'
<1>0. (Matrix <=> Matrix') /\ cohorts' = cohorts /\ (~Matrix => Condition = Clean)
  BY NamesKept DEF Condition
<1>01. cohort' = cohort => Condition' = Condition
  BY <1>0 DEF Condition
<1> USE DEF NetInv
<1>1. ASSUME UNCHANGED <<cohort, netem>>,
             stage' = stage \/ stage' \notin {"verifying", "warming", "opening", "running", "scoring"}
      PROVE  NetInv'
  BY <1>0, <1>01, <1>1
<1>2. CASE ChangeQdisc
  BY <1>0, <1>01, <1>2 DEF ChangeQdisc, Fails
<1>3. CASE VerifyQdisc
  BY <1>0, <1>01, <1>3 DEF VerifyQdisc, Fails, netVars
<1>4. CASE WarmCache \/ OpenStep \/ CloseStep
  BY <1>0, <1>01, <1>4 DEF WarmCache, OpenStep, CloseStep, Fails, netVars
<1>5. CASE Score
  BY <1>0, <1>01, <1>5 DEF Score, netVars
<1>6. CASE QuoteProduced \/ QuoteDropped \/ QuoteError \/ WriteReport \/ StorePanics
  BY <1>1, <1>6 DEF QuoteProduced, QuoteDropped, QuoteError, WriteReport, StorePanics, netVars
<1>7. CASE RestoreInterface
  BY <1>0, <1>7 DEF RestoreInterface, RestoreClears
<1>8. CASE Expire \/ Cancel \/ Deliver \/ Drop \/ StoreError \/ UNCHANGED localVars
  BY <1>1, <1>8 DEF Expire, Cancel, Deliver, Drop, StoreError, localVars, netVars
<1>9. CASE \E s \in Slots : SlotNext(s)
  BY <1>1, <1>9, SlotActs DEF netVars
<1>10. QED
  BY <1>2, <1>3, <1>4, <1>5, <1>6, <1>7, <1>8, <1>9 DEF LocalNext, RunNext, BrokerNext

(* A run that ends has put the interface back, or said that it did not. *)
LEMMA RestoreStays ==
    ASSUME TypeInv, SlotsInv, NetInv, NetInv', ImpairmentIsNotLeftSilently, [LocalNext]_localVars
    PROVE  ImpairmentIsNotLeftSilently'
<1>0. (Matrix <=> Matrix') /\ (~Matrix => netem' = Clean)
  BY NamesKept DEF NetInv
<1> USE DEF ImpairmentIsNotLeftSilently
<1>1. ASSUME UNCHANGED netVars, stage' = stage \/ stage' # "ended"
      PROVE  ImpairmentIsNotLeftSilently'
  BY <1>1 DEF netVars
<1>2. CASE ChangeQdisc \/ VerifyQdisc \/ WarmCache \/ WriteReport
  BY <1>0, <1>2 DEF ChangeQdisc, VerifyQdisc, WarmCache, WriteReport, Fails
<1>3. CASE OpenStep \/ CloseStep \/ Score \/ QuoteProduced \/ QuoteDropped \/ QuoteError \/ StorePanics
  BY <1>1, <1>3 DEF OpenStep, CloseStep, Score, QuoteProduced, QuoteDropped, QuoteError, StorePanics
<1>4. CASE RestoreInterface
  BY <1>4 DEF RestoreInterface, RestoreClears
<1>5. CASE Expire \/ Cancel \/ Deliver \/ Drop \/ StoreError \/ UNCHANGED localVars
  BY <1>1, <1>5 DEF Expire, Cancel, Deliver, Drop, StoreError, localVars
<1>6. CASE \E s \in Slots : SlotNext(s)
  BY <1>1, <1>6, SlotActs
<1>7. QED
  BY <1>2, <1>3, <1>4, <1>5, <1>6 DEF LocalNext, RunNext, BrokerNext

(* A drop leaves its reason, and holds its record until it has. *)
LEMMA ClientStays ==
    ASSUME TypeInv, ClientInv, [LocalNext]_localVars
    PROVE  ClientInv'
<1>0. inflight \in Nat /\ dropped \in Nat /\ TurnsPerCall \in Nat /\ NoError \notin ErrorTypes
  BY LocalAssumption DEF TypeInv, EventTypes, NoError, ErrorTypes
<1> USE DEF ClientInv
<1>1. ASSUME UNCHANGED busVars
      PROVE  ClientInv'
  BY <1>1 DEF busVars
<1>2. CASE Deliver
  BY <1>2 DEF Deliver
<1>3. CASE Drop
  <2>1. /\ storing' # NoError /\ inflight > 0 /\ inflight' = inflight /\ dropped' = dropped + 1
    BY <1>0, <1>3 DEF Drop, NoError
  <2>2. QED
    BY <1>0, <2>1
<1>4. CASE StoreError
  BY <1>0, <1>4 DEF StoreError
<1>5. CASE StorePanics
  BY <1>0, <1>5 DEF StorePanics
<1>6. ASSUME NEW s \in Slots, Publish(s)
      PROVE  ClientInv'
  <2>1. /\ inflight' = inflight \/ inflight' = inflight + TurnsPerCall
        /\ UNCHANGED <<storing, dropped, lastErr>>
    BY <1>6 DEF Publish
  <2>2. inflight > 0 => inflight' > 0
    BY <1>0, <2>1
  <2>3. QED
    BY <2>1, <2>2
<1>7. ASSUME NEW s \in Slots, CheckBudget(s) \/ DrawCall(s) \/ EndCall(s) \/ FileOutcome(s)
      PROVE  ClientInv'
  BY <1>1, <1>7 DEF CheckBudget, DrawCall, EndCall, FileOutcome
<1>8. CASE \/ ChangeQdisc \/ VerifyQdisc \/ WarmCache \/ OpenStep \/ CloseStep \/ Score
           \/ QuoteProduced \/ QuoteDropped \/ QuoteError \/ WriteReport \/ RestoreInterface
           \/ Expire \/ Cancel \/ UNCHANGED localVars
  BY <1>1, <1>8
  DEF ChangeQdisc, VerifyQdisc, WarmCache, OpenStep, CloseStep, Score, WriteReport, QuoteProduced,
      QuoteDropped, QuoteError, RestoreInterface, Expire, Cancel, localVars
<1>9. QED
  BY <1>2, <1>3, <1>4, <1>5, <1>6, <1>7, <1>8 DEF LocalNext, RunNext, BrokerNext, SlotNext

-----------------------------------------------------------------------------
(* A report has finitely many keys, and its sum is a number. *)
LEMMA KeysFinite ==
    ASSUME TypeInv
    PROVE  /\ IsFiniteSet(Keys(cohorts))
           /\ SumOk(report, Keys(cohorts)) \in Nat
           /\ \A k \in Keys(cohorts) : report[k].ok \in Nat
<1>1. IsFiniteSet(Cohorts) /\ IsFiniteSet(StepIds)
  BY KeysApart, StepsType, FS_Interval DEF Cohorts
<1>2. IsFiniteSet(Cohorts \X StepIds)
  BY <1>1, FS_Product
<1> DEFINE f == [p \in Cohorts \X StepIds |-> KeyOf(p[1], p[2])]
<1>3. f \in Surjection(Cohorts \X StepIds, Keys(cohorts))
  <2>1. \A p \in Cohorts \X StepIds : f[p] \in Keys(cohorts)
    BY KeysApart
  <2>2. ASSUME NEW k \in Keys(cohorts)
        PROVE  \E p \in Cohorts \X StepIds : f[p] = k
    <3>1. PICK c \in Cohorts : \E i \in StepIds : k = KeyOf(c, i)
      BY KeysApart
    <3>2. PICK i \in StepIds : k = KeyOf(c, i)
      BY <3>1
    <3>3. f[<<c, i>>] = k
      BY <3>2
    <3>4. QED
      BY <3>3
  <2>3. f \in [Cohorts \X StepIds -> Keys(cohorts)]
    BY <2>1
  <2> HIDE DEF f
  <2>4. QED
    BY <2>2, <2>3 DEF Surjection
<1>4. IsFiniteSet(Keys(cohorts))
  <2> HIDE DEF f
  <2>1. QED
    BY <1>2, <1>3, FS_Surjection
<1>5. \A k \in Keys(cohorts) : report[k].ok \in Nat
  BY DEF TypeInv, CallTypes
<1>6. QED
  BY <1>4, <1>5, SumType

(* The slots whose call has published are finitely many. *)
LEMMA SpokenFinite ==
    IsFiniteSet(Spoken) /\ Cardinality(Spoken) \in Nat /\ Spoken \subseteq Slots
<1>1. Spoken \in SUBSET Slots
  BY DEF Spoken
<1>2. QED
  BY <1>1, SlotsCover, FS_Subset, FS_CardinalityType

(* One more success is TurnsPerCall more events. *)
LEMMA OneMore ==
    \A n \in Nat : /\ TurnsPerCall * n \in Nat
                   /\ TurnsPerCall * (n + 1) = TurnsPerCall * n + TurnsPerCall
<1>1. TurnsPerCall \in Nat
  BY LocalAssumption
<1>2. QED
  BY <1>1

(* A run that is over stays over, and its context stays cancelled. *)
LEMMA OverStays ==
    ASSUME [LocalNext]_localVars
    PROVE  (stage \in Over => stage' \in Over) /\ (cancelled => cancelled')
<1>1. CASE RunNext \/ Expire
  <2>1. stage \notin Over
    BY <1>1 DEF RunNext, Expire, ChangeQdisc, VerifyQdisc, WarmCache, OpenStep, CloseStep, Score,
                QuoteProduced, QuoteDropped, QuoteError, WriteReport, RestoreInterface, Over
  <2>2. cancelled' = cancelled
    BY <1>1 DEF RunNext, Expire, ChangeQdisc, VerifyQdisc, WarmCache, OpenStep, CloseStep, Score,
                QuoteProduced, QuoteDropped, QuoteError, WriteReport, RestoreInterface
  <2>3. QED
    BY <2>1, <2>2
<1>2. CASE BrokerNext \/ Cancel \/ UNCHANGED localVars
  BY <1>2 DEF BrokerNext, Deliver, Drop, StoreError, StorePanics, Cancel, localVars, Over
<1>3. CASE \E s \in Slots : SlotNext(s)
  BY <1>3 DEF SlotNext, CheckBudget, DrawCall, EndCall, Publish, FileOutcome
<1>4. QED
  BY <1>1, <1>2, <1>3 DEF LocalNext

(* What a slot does to the successes of its step and to the client: it     *)
(* publishes a call's turns, or files a call whose turns are published.    *)
LEMMA SlotPublishes ==
    ASSUME TypeInv, SlotsInv, NEW s \in Slots, SlotNext(s)
    PROVE  /\ UNCHANGED <<produced, dropped, storing, lastErr, quoted>>
           /\ \/ /\ ~Matrix => inflight' = inflight + TurnsPerCall
                 /\ outcomes'.ok = outcomes.ok
                 /\ Cardinality(Spoken') = Cardinality(Spoken) + 1
              \/ /\ inflight' = inflight
                 /\ outcomes'.ok + Cardinality(Spoken') = outcomes.ok + Cardinality(Spoken)
<1>0. /\ slot \in [Slots -> SlotStates] /\ outcomes \in [ok : Nat, failed : Nat]
      /\ slot' = [slot EXCEPT ![s] = slot'[s]]
  BY SlotActs DEF TypeInv, CallTypes
<1>1. /\ s \in Spoken <=> slot[s] = "ok"
      /\ s \in Spoken' <=> slot'[s] = "ok"
      /\ Spoken' \ {s} = Spoken \ {s}
  BY <1>0 DEF Spoken
<1>2. CASE CheckBudget(s) \/ DrawCall(s) \/ EndCall(s)
  <2>1. /\ UNCHANGED <<produced, dropped, storing, lastErr, quoted, inflight, outcomes>>
        /\ slot[s] # "ok" /\ slot'[s] # "ok"
    BY <1>0, <1>2 DEF CheckBudget, DrawCall, EndCall, StartCall, StopSlot, busVars
  <2>2. Spoken' = Spoken
    BY <1>1, <2>1
  <2>3. QED
    BY <2>1, <2>2
<1>3. CASE Publish(s)
  <2>1. /\ UNCHANGED <<produced, dropped, storing, lastErr, quoted, outcomes>>
        /\ ~Matrix => inflight' = inflight + TurnsPerCall
        /\ slot[s] # "ok" /\ slot'[s] = "ok"
    BY <1>0, <1>3 DEF Publish
  <2>2. Spoken' = Spoken \cup {s} /\ s \notin Spoken
    BY <1>1, <2>1
  <2>3. Cardinality(Spoken') = Cardinality(Spoken) + 1
    BY <2>2, SpokenFinite, FS_AddElement
  <2>4. QED
    BY <2>1, <2>3
<1>4. CASE FileOutcome(s)
  <2>1. /\ UNCHANGED <<produced, dropped, storing, lastErr, quoted, inflight>>
        /\ slot[s] \in {"ok", "failed"} /\ slot'[s] = "checking"
        /\ outcomes' = [outcomes EXCEPT ![slot[s]] = @ + 1]
    BY <1>0, <1>4 DEF FileOutcome, busVars
  <2>2. CASE slot[s] = "ok"
    <3>1. outcomes'.ok = outcomes.ok + 1
      BY <1>0, <2>1, <2>2
    <3>2. Spoken' = Spoken \ {s} /\ s \in Spoken
      BY <1>1, <2>1, <2>2
    <3>3. Cardinality(Spoken') = Cardinality(Spoken) - 1
      BY <3>2, SpokenFinite, FS_RemoveElement
    <3>4. outcomes.ok \in Nat /\ Cardinality(Spoken) \in Nat
      BY <1>0, SpokenFinite
    <3>5. QED
      BY <2>1, <3>1, <3>3, <3>4
  <2>3. CASE slot[s] = "failed"
    <3>1. outcomes'.ok = outcomes.ok
      BY <1>0, <2>1, <2>3
    <3>2. Spoken' = Spoken
      BY <1>1, <2>1, <2>3
    <3>3. QED
      BY <2>1, <3>1, <3>2
  <2>4. QED
    BY <2>1, <2>2, <2>3
<1>5. QED
  BY <1>2, <1>3, <1>4 DEF SlotNext

(* The quiet steps leave the client alone, but for its own. *)
LEMMA QuietClient ==
    ASSUME [LocalNext]_localVars, Quiet, \A s \in Slots : ~SlotNext(s)
    PROVE  UNCHANGED busVars \/ Deliver \/ Drop \/ StoreError \/ StorePanics
<1>1. CASE RunNext \/ Expire
  BY <1>1 DEF RunNext, Expire, ChangeQdisc, VerifyQdisc, WarmCache, OpenStep, CloseStep, Score,
              QuoteProduced, QuoteDropped, QuoteError, WriteReport, RestoreInterface
<1>2. CASE BrokerNext \/ Cancel \/ UNCHANGED localVars
  BY <1>2 DEF BrokerNext, Cancel, localVars
<1>3. QED
  BY <1>1, <1>2 DEF LocalNext

(* No turn event goes missing between the calls and the client. *)
LEMMA LedgerStays ==
    ASSUME TypeInv, ClientInv, SlotsInv, ReportedInv, LedgerInv, [LocalNext]_localVars
    PROVE  LedgerInv'
<1> DEFINE Sum == SumOk(report, Keys(cohorts))
<1>0. /\ cohorts' = cohorts /\ (Matrix <=> Matrix') /\ Key \in Keys(cohorts)
      /\ Sum \in Nat /\ TurnsPerCall \in Nat
      /\ produced \in Nat /\ dropped \in Nat /\ inflight \in Nat
      /\ outcomes.ok \in Nat /\ Cardinality(Spoken) \in Nat
      /\ slot \in [Slots -> SlotStates]
  BY NamesKept, KeysApart, KeysFinite, SpokenFinite, LocalAssumption
  DEF TypeInv, CallTypes, EventTypes
<1>01. Succeeded \in Nat
  BY <1>0 DEF Succeeded
<1>1. SUFFICES ASSUME ~Matrix, stage' \notin Over
               PROVE  produced' + dropped' + inflight' = TurnsPerCall * Succeeded' + Answering'
  BY <1>0 DEF LedgerInv
<1>2. produced + dropped + inflight = TurnsPerCall * Succeeded + Answering
  BY <1>1, OverStays DEF LedgerInv
<1>3. Answering \in {0, 1} /\ TurnsPerCall * Succeeded \in Nat
  BY <1>01, OneMore DEF Answering
<1>4. ASSUME NEW s \in Slots, SlotNext(s)
      PROVE  produced' + dropped' + inflight' = TurnsPerCall * Succeeded' + Answering'
  <2>1. /\ stage = "running" /\ stage' = stage /\ report' = report
        /\ UNCHANGED <<produced, dropped, storing>>
    BY <1>4, SlotActs, SlotPublishes
  <2>2. /\ Succeeded = Sum + (outcomes.ok + Cardinality(Spoken))
        /\ Succeeded' = Sum + (outcomes'.ok + Cardinality(Spoken'))
        /\ Answering' = Answering
    BY <1>0, <2>1 DEF Succeeded, Answering
  <2> HIDE DEF Sum
  <2>3. \/ inflight' = inflight + TurnsPerCall /\ Succeeded' = Succeeded + 1
        \/ inflight' = inflight /\ Succeeded' = Succeeded
    <3>1. \/ /\ inflight' = inflight + TurnsPerCall
             /\ outcomes'.ok = outcomes.ok
             /\ Cardinality(Spoken') = Cardinality(Spoken) + 1
          \/ /\ inflight' = inflight
             /\ outcomes'.ok + Cardinality(Spoken') = outcomes.ok + Cardinality(Spoken)
      BY <1>1, <1>4, SlotPublishes
    <3>2. QED
      BY <1>0, <2>2, <3>1
  <2>4. TurnsPerCall * (Succeeded + 1) = TurnsPerCall * Succeeded + TurnsPerCall
    BY <1>01, OneMore
  <2>5. CASE inflight' = inflight + TurnsPerCall /\ Succeeded' = Succeeded + 1
    <3>1. TurnsPerCall * Succeeded' = TurnsPerCall * Succeeded + TurnsPerCall
      BY <2>4, <2>5
    <3>2. QED
      BY <1>0, <1>2, <1>3, <2>1, <2>2, <2>5, <3>1
  <2>6. CASE inflight' = inflight /\ Succeeded' = Succeeded
    BY <1>2, <2>1, <2>2, <2>6
  <2>7. QED
    BY <2>3, <2>5, <2>6
<1>5. ASSUME UNCHANGED busVars, Succeeded' = Succeeded
      PROVE  produced' + dropped' + inflight' = TurnsPerCall * Succeeded' + Answering'
  BY <1>2, <1>5 DEF busVars, Answering
<1>6. CASE OpenStep
  <2>1. /\ stage = "opening" /\ stage' = "running" /\ report' = report /\ UNCHANGED busVars
        /\ outcomes' = Tally /\ \A s \in Slots : slot'[s] # "ok"
    BY <1>6 DEF OpenStep, callVars
  <2>2. Spoken' = {} /\ outcomes'.ok = 0
    BY <2>1 DEF Spoken, Tally
  <2>3. Cardinality(Spoken') = 0
    BY <2>2, FS_EmptySet
  <2>4. Succeeded' = Succeeded
    BY <1>0, <2>1, <2>2, <2>3 DEF Succeeded
  <2>5. QED
    BY <1>5, <2>1, <2>4
<1>7. CASE CloseStep
  <2>1. /\ stage = "running" /\ stage' # "running" /\ UNCHANGED busVars
        /\ report' = [report EXCEPT ![Key] = outcomes]
        /\ \A s \in Slots : slot[s] # "ok"
    BY <1>7 DEF CloseStep, KeepsCalls, SlotsStopped
  <2>2. Spoken = {}
    BY <2>1 DEF Spoken
  <2>3. Cardinality(Spoken) = 0
    BY <2>2, FS_EmptySet
  <2>4. report[Key].ok = 0
    BY <2>1 DEF ReportedInv, Tally
  <2>5. SumOk(report', Keys(cohorts)) = Sum - report[Key].ok + report'[Key].ok
    <3>1. \A k \in Keys(cohorts) \ {Key} : report'[k] = report[k]
      BY <2>1 DEF TypeInv, CallTypes
    <3>2. \A k \in Keys(cohorts) : report'[k].ok \in Nat
      BY <1>0, <2>1 DEF TypeInv, CallTypes
    <3>3. QED
      BY <1>0, <3>1, <3>2, KeysFinite, SumChanges
  <2>6. report'[Key] = outcomes
    BY <1>0, <2>1 DEF TypeInv, CallTypes
  <2>7. Succeeded = Sum + (outcomes.ok + Cardinality(Spoken))
    BY <1>0, <2>1 DEF Succeeded
  <2>71. SumOk(report', Keys(cohorts)) \in Nat
    BY <1>0, <2>4, <2>5, <2>6
  <2>72. Succeeded' = SumOk(report', Keys(cohorts)) + 0
    BY <1>0, <2>1 DEF Succeeded
  <2> HIDE DEF Sum
  <2>8. Succeeded' = Succeeded
    BY <1>0, <2>3, <2>4, <2>5, <2>6, <2>7, <2>71, <2>72
  <2>9. QED
    BY <1>5, <2>1, <2>8
<1>8. CASE StorePanics
  BY <1>1, <1>8 DEF StorePanics, Over
<1>9. ASSUME Quiet, \A s \in Slots : ~SlotNext(s)
      PROVE  produced' + dropped' + inflight' = TurnsPerCall * Succeeded' + Answering'
  <2>1. Succeeded' = Succeeded
    BY <1>0, <1>9 DEF Quiet, Succeeded, Spoken
  <2> DEFINE P == TurnsPerCall * Succeeded
  <2>2. P \in Nat /\ TurnsPerCall * Succeeded' = P /\ produced + dropped + inflight = P + Answering
    BY <1>2, <1>3, <2>1
  <2> HIDE DEF P
  <2>3. CASE Deliver
    <3>1. produced' = produced + 1 /\ inflight' = inflight - 1 /\ dropped' = dropped /\ Answering' = Answering
      BY <2>3 DEF Deliver, Answering
    <3>2. QED
      BY <1>0, <1>3, <2>2, <3>1
  <2>4. CASE Drop
    <3>1. /\ produced' = produced /\ inflight' = inflight /\ dropped' = dropped + 1
          /\ Answering = 0 /\ Answering' = 1
      BY <2>4 DEF Drop, Answering, NoError, ErrorTypes
    <3>2. QED
      BY <1>0, <2>2, <3>1
  <2>5. CASE StoreError
    <3>1. /\ produced' = produced /\ inflight' = inflight - 1 /\ dropped' = dropped
          /\ Answering = 1 /\ Answering' = 0
      BY <2>5 DEF StoreError, Answering, NoError, ErrorTypes
    <3>2. QED
      BY <1>0, <2>2, <3>1
  <2>6. QED
    BY <1>5, <1>8, <1>9, <2>1, <2>3, <2>4, <2>5, QuietClient
<1>10. QED
  BY <1>4, <1>6, <1>7, <1>8, <1>9, QuietOrNot

(* The figures a report is given add up, and stay as they were read. *)
LEMMA FiguresStay ==
    ASSUME TypeInv, ClientInv, EndInv, LedgerInv, SlotsInv, FiguresInv, [LocalNext]_localVars
    PROVE  FiguresInv'
<1>0. /\ cohorts' = cohorts /\ (Matrix <=> Matrix')
      /\ produced \in Nat /\ dropped \in Nat /\ inflight \in Nat
      /\ quoted \in [produced : Nat, dropped : Nat, err : BOOLEAN]
      /\ quoted.produced \in Nat /\ quoted.dropped \in Nat
      /\ cancelled => cancelled'
  BY NamesKept, OverStays DEF TypeInv, EventTypes
<1>01. produced \in Nat /\ dropped \in Nat /\ quoted.produced \in Nat /\ quoted.dropped \in Nat
  BY <1>0
<1>02. Told = quoted.produced + quoted.dropped /\ Told \in Nat
  BY <1>01 DEF Told
<1>1. SUFFICES ASSUME ~Matrix
               PROVE  FiguresInv'
  BY <1>0 DEF FiguresInv
<1>2. report' = report => Sent' = Sent
  BY <1>0 DEF Sent
<1>3. quoted' = quoted => Told' = Told
  BY DEF Told
<1>4. ASSUME report' = report, quoted' = quoted, FiguresHold
      PROVE  FiguresHold'
  BY <1>0, <1>2, <1>3, <1>4 DEF FiguresHold
<1>5. ASSUME UNCHANGED <<stage, result, quoted, report, produced, dropped, inflight>>
      PROVE  FiguresInv'
  BY <1>0, <1>1, <1>3, <1>4, <1>5 DEF FiguresInv
<1>6. ASSUME stage' \notin {"quoting drops", "quoting error", "writing"}, result' # "ok"
      PROVE  FiguresInv'
  BY <1>6 DEF FiguresInv
<1>7. ASSUME stage' \in {"ended", "panicked"}, UNCHANGED <<result, quoted, report>>
      PROVE  FiguresInv'
  BY <1>1, <1>4, <1>7 DEF FiguresInv
<1>8. CASE ChangeQdisc \/ VerifyQdisc \/ WarmCache \/ OpenStep \/ CloseStep \/ Score
  <2>1. stage \notin {"restoring"} \cup Over
    BY <1>8 DEF ChangeQdisc, VerifyQdisc, WarmCache, OpenStep, CloseStep, Score, Over
  <2>2. result # "ok"
    BY <2>1 DEF EndInv
  <2>3. stage' \notin {"quoting drops", "quoting error", "writing"} /\ result' # "ok"
    BY <1>1, <1>8, <2>2 DEF ChangeQdisc, VerifyQdisc, WarmCache, OpenStep, CloseStep, Score, Fails
  <2>4. QED
    BY <1>6, <2>3
<1>9. CASE \E s \in Slots : SlotNext(s)
  <2>1. stage = "running" /\ stage' = stage /\ result' = result
    BY <1>9, SlotActs
  <2>2. result # "ok"
    BY <2>1 DEF EndInv, Over
  <2>3. QED
    BY <1>6, <2>1, <2>2
<1>10. CASE Expire \/ Cancel \/ UNCHANGED localVars
  BY <1>5, <1>10 DEF Expire, Cancel, localVars, busVars, callVars
<1>11. CASE StorePanics \/ RestoreInterface
  BY <1>7, <1>11 DEF StorePanics, RestoreInterface, callVars
<1>12. CASE Deliver \/ Drop \/ StoreError
  <2>1. /\ UNCHANGED <<stage, result, quoted, report, cancelled>> /\ inflight > 0
        /\ produced' \in Nat /\ dropped' \in Nat
        /\ produced <= produced' /\ dropped <= dropped'
    <3>1. CASE Deliver
      BY <1>0, <3>1 DEF Deliver, callVars
    <3>2. CASE Drop
      BY <1>0, <3>2 DEF Drop, callVars
    <3>3. CASE StoreError
      <4>1. inflight > 0
        BY <3>3 DEF StoreError, ClientInv, NoError, ErrorTypes
      <4>2. QED
        BY <1>0, <3>3, <4>1 DEF StoreError, callVars
    <3>4. QED
      BY <1>12, <3>1, <3>2, <3>3
  <2>2. stage \in {"quoting drops", "quoting error"} => cancelled
    <3>1. inflight # 0
      BY <1>0, <2>1
    <3>2. QED
      BY <1>1, <3>1 DEF FiguresInv
  <2>3. stage = "quoting drops" => quoted.produced <= produced'
    <3>1. stage = "quoting drops" => quoted.produced <= produced
      BY <1>1 DEF FiguresInv
    <3>2. produced <= produced' /\ produced' \in Nat
      BY <2>1
    <3>3. \A x, y, z \in Nat : x <= y /\ y <= z => x <= z
      OBVIOUS
    <3>4. QED
      BY <1>01, <3>1, <3>2, <3>3
  <2>4. stage = "quoting error" => Told' <= produced' + dropped'
    <3>1. stage = "quoting error" => Told <= produced + dropped
      BY <1>1 DEF FiguresInv
    <3>2. Told' = Told
      BY <1>3, <2>1
    <3>3. /\ produced <= produced' /\ dropped <= dropped'
          /\ produced' \in Nat /\ dropped' \in Nat
      BY <2>1
    <3>4. \A w, x, y, u, v \in Nat : w <= x + y /\ x <= u /\ y <= v => w <= u + v
      OBVIOUS
    <3>5. QED
      BY <1>01, <1>02, <3>1, <3>2, <3>3, <3>4
  <2>5. stage = "writing" \/ result = "ok" => FiguresHold'
    BY <1>1, <1>4, <2>1 DEF FiguresInv
  <2>6. QED
    BY <2>1, <2>2, <2>3, <2>4, <2>5 DEF FiguresInv
<1>13. CASE QuoteProduced
  <2>1. /\ stage = "flushing" /\ stage' = "quoting drops" /\ quoted' = [quoted EXCEPT !.produced = produced]
        /\ UNCHANGED <<result, cancelled, inflight, produced>>
        /\ inflight = 0 \/ cancelled
    BY <1>13 DEF QuoteProduced, Flushed, busVars
  <2>2. result # "ok"
    BY <2>1 DEF EndInv, Over
  <2>3. quoted'.produced = produced' /\ produced' \in Nat
    BY <1>0, <2>1
  <2>4. quoted'.produced <= produced'
    BY <2>3
  <2>5. QED
    BY <2>1, <2>2, <2>3, <2>4 DEF FiguresInv
<1>14. CASE QuoteDropped
  <2>1. /\ stage = "quoting drops" /\ stage' = "quoting error" /\ quoted' = [quoted EXCEPT !.dropped = dropped]
        /\ UNCHANGED <<result, cancelled, inflight, produced, dropped>>
    BY <1>14 DEF QuoteDropped, busVars
  <2>2. result # "ok"
    BY <2>1 DEF EndInv, Over
  <2>3. /\ ~cancelled => inflight = 0 /\ quoted.produced = produced
        /\ quoted.produced <= produced
    BY <1>1, <2>1 DEF FiguresInv
  <2>4. quoted'.produced = quoted.produced /\ quoted'.dropped = dropped
    BY <1>0, <2>1
  <2>5. Told' <= produced' + dropped'
    <3>1. Told' = quoted.produced + dropped
      BY <2>4 DEF Told
    <3>2. quoted.produced + dropped <= produced + dropped
      BY <1>01, <2>3
    <3>3. produced' = produced /\ dropped' = dropped
      BY <2>1
    <3>4. QED
      BY <3>1, <3>2, <3>3
  <2>6. QED
    BY <2>1, <2>2, <2>3, <2>4, <2>5 DEF FiguresInv
<1>15. CASE QuoteError
  <2>1. /\ stage = "quoting error" /\ stage' = "writing"
        /\ quoted' = [quoted EXCEPT !.err = (lastErr # NoError)]
        /\ UNCHANGED <<result, cancelled, report>>
    BY <1>15 DEF QuoteError, callVars
  <2>2. /\ Told <= produced + dropped
        /\ ~cancelled => inflight = 0 /\ quoted.produced = produced /\ quoted.dropped = dropped
    BY <1>1, <2>1 DEF FiguresInv
  <2>3. /\ quoted'.produced = quoted.produced /\ quoted'.dropped = quoted.dropped
        /\ quoted'.err = (lastErr # NoError)
    BY <1>0, <2>1
  <2>4. produced + dropped + inflight = TurnsPerCall * Succeeded + Answering
    BY <1>1, <2>1 DEF LedgerInv, Over
  <2>5. TurnsPerCall * Succeeded = Sent
    <3>1. SumOk(report, Keys(cohorts)) \in Nat
      BY KeysFinite
    <3>2. Succeeded = SumOk(report, Keys(cohorts))
      <4>1. stage # "running"
        BY <2>1
      <4>2. Succeeded = SumOk(report, Keys(cohorts)) + 0
        BY <4>1 DEF Succeeded
      <4>3. QED
        BY <3>1, <4>2
    <3>3. QED
      BY <3>2 DEF Sent
  <2>6. Sent \in Nat
    BY KeysFinite, OneMore DEF Sent
  <2>7. /\ Answering \in {0, 1} /\ (Answering = 1 => inflight > 0)
        /\ (inflight = 0 => storing = NoError /\ Answering = 0)
    BY <1>0 DEF Answering, ClientInv
  <2>8. Told' = Told /\ Told \in Nat
    BY <1>0, <2>3 DEF Told
  <2>9. Told' <= Sent
    <3>1. produced + dropped <= Sent
      BY <1>0, <2>4, <2>5, <2>6, <2>7
    <3>2. QED
      BY <1>0, <2>2, <2>6, <2>8, <3>1
  <2>10. ASSUME ~cancelled
         PROVE  Told' = Sent /\ quoted'.err = (quoted'.dropped > 0)
    <3>1. inflight = 0 /\ quoted.produced = produced /\ quoted.dropped = dropped
      BY <2>2, <2>10
    <3>2. produced + dropped = Sent
      BY <1>0, <2>4, <2>5, <2>6, <2>7, <3>1
    <3>3. Told' = Sent
      BY <2>8, <3>1, <3>2 DEF Told
    <3>4. (lastErr # NoError) <=> dropped > 0
      BY <2>7, <3>1 DEF ClientInv
    <3>5. quoted'.err = (quoted'.dropped > 0)
      BY <2>3, <3>1, <3>4
    <3>6. QED
      BY <3>3, <3>5
  <2>11. Sent' = Sent
    BY <1>2, <2>1
  <2>12. FiguresHold'
    BY <2>1, <2>9, <2>10, <2>11 DEF FiguresHold
  <2>13. QED
    BY <2>1, <2>12 DEF FiguresInv
<1>16. CASE WriteReport
  <2>1. /\ stage = "writing" /\ stage' = "ended" /\ UNCHANGED <<report, quoted>>
    BY <1>1, <1>16 DEF WriteReport, callVars
  <2>2. FiguresHold'
    BY <1>1, <1>4, <2>1 DEF FiguresInv
  <2>3. QED
    BY <2>1, <2>2 DEF FiguresInv
<1>17. QED
  BY <1>8, <1>9, <1>10, <1>11, <1>12, <1>13, <1>14, <1>15, <1>16 DEF LocalNext, RunNext, BrokerNext

-----------------------------------------------------------------------------
(* A run starts with nothing placed and the interface unchanged. *)
LEMMA LocalStart ==
    LocalInit => LInv
<1> SUFFICES ASSUME LocalInit
             PROVE  LInv
  OBVIOUS
<1>0. NothingRun /\ stage = (IF Matrix THEN "applying" ELSE "warming")
  BY DEF LocalInit
<1>1. RunTypes
  <2>1. cohorts \in CohortLists /\ cohorts \in Seq(Conditions)
    BY <1>0, LocalAssumption DEF NothingRun
  <2>2. NumCohorts \in Nat /\ NumCohorts >= 1
    BY <2>1 DEF NumCohorts, Matrix
  <2>3. cohort \in Cohorts /\ step \in StepIds
    BY <1>0, <2>2, StepsType DEF NothingRun, Cohorts
  <2>4. netem \in Conditions
    BY <1>0, LocalAssumption DEF NothingRun
  <2>5. faults \in 0..MaxFaults
    BY <1>0, LocalAssumption DEF NothingRun
  <2>6. QED
    BY <1>0, <2>1, <2>3, <2>4, <2>5 DEF RunTypes, NothingRun, Stages
<1>2. CallTypes
  <2>1. /\ remaining \in Int /\ active \in Nat /\ outcomes \in [ok : Nat, failed : Nat]
        /\ placed \in [Keys(cohorts) -> Nat]
        /\ report \in [Keys(cohorts) -> [ok : Nat, failed : Nat]]
    BY <1>0, SizeType DEF NothingRun
  <2>2. expired \in BOOLEAN /\ slot \in [Slots -> SlotStates]
    BY <1>0 DEF NothingRun, SlotStates
  <2>3. QED
    BY <2>1, <2>2 DEF CallTypes
<1>3. EventTypes /\ ClientInv
  BY <1>0 DEF EventTypes, ClientInv, NothingRun, NoError
<1>4. TypeInv
  BY <1>1, <1>2, <1>3 DEF TypeInv
<1>5. SlotsInv
  <2>1. InCall = {} /\ active = 0
    BY <1>0 DEF NothingRun, InCall
  <2>2. active = Cardinality(InCall)
    BY <2>1, FS_EmptySet
  <2>3. QED
    BY <1>0, <2>2 DEF SlotsInv, NothingRun
<1>6. BudgetInv
  BY <1>0 DEF BudgetInv
<1>7. NeverTooMany
  <2>1. \A k \in Keys(cohorts) : placed[k] = 0 /\ k[2] \in StepIds
    BY <1>0, <1>4, KeysApart DEF NothingRun
  <2>2. QED
    BY <2>1, StepsType DEF NeverTooMany
<1>8. AheadInv /\ EndInv
  <2>1. \A k \in Keys(cohorts) : placed[k] = 0
    BY <1>0 DEF NothingRun
  <2>2. QED
    BY <1>0, <1>4, <2>1, KeysApart DEF AheadInv, EndInv, LastStages, NothingRun
<1>9. PastInv
  <2>1. \A c \in Cohorts : ~(c < cohort)
    BY <1>0, <1>4, KeysApart DEF NothingRun, Cohorts
  <2>2. QED
    BY <1>0, <2>1 DEF PastInv, Past, LastStages, NothingRun
<1>10. ReportedInv
  BY <1>0, SizeType DEF ReportedInv, NothingRun
<1>11. NetInv /\ ImpairmentIsNotLeftSilently
  BY <1>0 DEF NetInv, ImpairmentIsNotLeftSilently, NothingRun, Condition
<1>12. LedgerInv
  <2>1. SumOk(report, Keys(cohorts)) = 0
    BY <1>0, <1>4, KeysFinite, SumType DEF NothingRun, Tally
  <2>2. Succeeded = 0
    BY <1>0, <2>1 DEF Succeeded
  <2>3. TurnsPerCall * Succeeded = 0 /\ Answering = 0
    BY <1>0, <2>2, LocalAssumption DEF Answering, NothingRun
  <2>4. QED
    BY <1>0, <2>3 DEF LedgerInv, NothingRun
<1>13. FiguresInv
  BY <1>0 DEF FiguresInv, NothingRun
<1>14. QED
  BY <1>3, <1>4, <1>5, <1>6, <1>7, <1>8, <1>9, <1>10, <1>11, <1>12, <1>13 DEF LInv

(* Every step of a run preserves the invariant. *)
LEMMA LocalStepKeeps ==
    ASSUME LInv, [LocalNext]_localVars
    PROVE  LInv'
<1> USE DEF LInv
<1>1. TypeInv'
  BY RunTypesStay, CallTypesStay, EventTypesStay DEF TypeInv
<1>2. SlotsInv' /\ BudgetInv' /\ AheadInv' /\ PastInv' /\ EndInv' /\ NetInv' /\ ClientInv'
  BY SlotsStay, BudgetStays, AheadStays, PastStays, EndStays, NetStays, ClientStays
<1>3. NeverTooMany' /\ ReportedInv' /\ ImpairmentIsNotLeftSilently'
  BY <1>2, NeverTooManyStays, ReportedStays, RestoreStays
<1>4. LedgerInv' /\ FiguresInv'
  BY LedgerStays, FiguresStay
<1>5. QED
  BY <1>1, <1>2, <1>3, <1>4

(* The inductive invariant of a run inside one process. *)
THEOREM RunInvariant == LocalSpec => []LInv
<1>1. LocalInit => LInv
  BY LocalStart
<1>2. LInv /\ [LocalNext]_localVars => LInv'
  BY LocalStepKeeps
<1>3. QED
  BY <1>1, <1>2, PTL DEF LocalSpec

(* Every variable of a run has its type (runLoad, Run, runStep).           *)
THEOREM RunTyped == LocalSpec => []LocalTypeOK
<1>1. LInv => LocalTypeOK
  <2> SUFFICES ASSUME LInv
               PROVE  LocalTypeOK
    OBVIOUS
  <2>1. RunTypes /\ CallTypes /\ EventTypes
    BY DEF LInv, TypeInv
  <2>2. cohort \in Nat
    BY <2>1, KeysApart DEF LInv, RunTypes, Cohorts
  <2>3. /\ cohorts \in CohortLists /\ step \in StepIds /\ netem \in Conditions
        /\ stage \in {"applying", "verifying", "warming", "opening", "running",
                      "scoring", "flushing", "quoting drops", "quoting error",
                      "writing", "restoring"} \cup Over
        /\ result \in {"none", "ok", "error"} /\ faults \in 0..MaxFaults
    BY <2>1 DEF RunTypes, Stages, Over
  <2>4. {cancelled, complained, expired} \subseteq BOOLEAN
    BY <2>1 DEF RunTypes, CallTypes
  <2>5. /\ remaining \in Int /\ placed \in [Keys(cohorts) -> Nat]
        /\ slot \in [Slots -> {"off", "checking", "drawing", "calling",
                               "publishing", "ok", "failed", "done"}]
        /\ outcomes \in [ok : Nat, failed : Nat]
        /\ report \in [Keys(cohorts) -> [ok : Nat, failed : Nat]]
    BY <2>1 DEF CallTypes, SlotStates
  <2>6. /\ {active, inflight, produced, dropped} \subseteq Nat
        /\ {storing, lastErr} \subseteq ErrorTypes \cup {NoError}
        /\ quoted \in [produced : Nat, dropped : Nat, err : BOOLEAN]
    BY <2>1 DEF CallTypes, EventTypes
  <2>7. QED
    BY <2>2, <2>3, <2>4, <2>5, <2>6 DEF LocalTypeOK
<1>2. QED
  BY <1>1, RunInvariant, PTL

(* Whatever the profile and the number of slots that race for a budget, a  *)
(* run places what was asked for, within the step, and reports all of it   *)
(* (runStep's more, and rep.Calls in Run).                                 *)
THEOREM CallsAccountedFor == LocalSpec => []CallsAreAccountedFor
<1>1. LInv => CallsAreAccountedFor
  <2> SUFFICES ASSUME LInv
               PROVE  CallsAreAccountedFor
    OBVIOUS
  <2>0. TypeInv /\ SlotsInv /\ NeverTooMany /\ PastInv /\ EndInv /\ ReportedInv
    BY DEF LInv
  <2>1. BudgetIsExact
    <3> SUFFICES ASSUME NEW k \in Keys(cohorts), ~Steps[k[2]].held
                 PROVE  /\ placed[k] <= Steps[k[2]].calls
                        /\ result = "ok" /\ ~cancelled => placed[k] = Steps[k[2]].calls
      BY DEF BudgetIsExact
    <3>1. placed[k] <= Steps[k[2]].calls
      BY <2>0 DEF NeverTooMany
    <3>2. ASSUME result = "ok", ~cancelled
          PROVE  placed[k] = Steps[k[2]].calls
      <4>1. PICK c \in Cohorts : \E i \in StepIds : k = KeyOf(c, i)
        BY <2>0, KeysApart
      <4>2. PICK i \in StepIds : k = KeyOf(c, i)
        BY <4>1
      <4>3. k[2] = i
        BY <4>2 DEF KeyOf
      <4>4. cohort = NumCohorts
        BY <2>0, <3>2 DEF EndInv
      <4>5. c < cohort \/ c = cohort
        <5>1. NumCohorts \in Nat
          BY <2>0, KeysApart
        <5>2. c \in 1..NumCohorts
          BY DEF Cohorts
        <5>3. QED
          BY <4>4, <5>1, <5>2
      <4>6. Past(c, i)
        BY <3>2, <4>5 DEF Past
      <4>7. QED
        BY <2>0, <3>2, <4>2, <4>3, <4>6 DEF PastInv
    <3>3. QED
      BY <3>1, <3>2
  <2>2. NoCallOutlivesItsStep
    <3>1. CASE stage = "running"
      <4>1. step \in StepIds /\ Steps[step].slots \in Nat
        BY <2>0, StepsType DEF TypeInv, RunTypes
      <4>2. InCall \subseteq 1..Steps[step].slots
        <5>1. \A s \in InCall : s \in Slots /\ slot[s] # "off"
          BY DEF InCall
        <5>2. \A s \in InCall : s \in Nat \ {0} /\ ~(s > Steps[step].slots)
          BY <2>0, <3>1, <5>1, SlotsCover DEF SlotsInv
        <5>3. QED
          BY <4>1, <5>2
      <4>3. Cardinality(InCall) <= Steps[step].slots
        <5>1. PICK n \in Nat : n = Steps[step].slots
          BY <4>1
        <5>2. IsFiniteSet(1..n) /\ Cardinality(1..n) = n
          <6>1. 1 \in Int /\ n \in Int /\ n \in Nat
            OBVIOUS
          <6>2. IsFiniteSet(1..n) /\ Cardinality(1..n) = IF 1 > n THEN 0 ELSE n - 1 + 1
            BY ONLY <6>1, FS_Interval
          <6>3. QED
            BY ONLY <6>1, <6>2
        <5>3. InCall \in SUBSET (1..n)
          BY <4>2, <5>1, Zenon
        <5>4. Cardinality(InCall) <= Cardinality(1..n)
          BY ONLY <5>2, <5>3, FS_Subset, Zenon
        <5>5. QED
          BY <5>1, <5>2, <5>4
      <4>4. QED
        BY <2>0, <3>1, <4>3 DEF SlotsInv, NoCallOutlivesItsStep
    <3>2. CASE stage # "running"
      <4>1. InCall = {}
        BY <2>0, <3>2 DEF SlotsInv, InCall
      <4>2. active = 0
        BY <2>0, <4>1, FS_EmptySet DEF SlotsInv
      <4>3. QED
        BY <3>2, <4>2 DEF NoCallOutlivesItsStep
    <3>3. QED
      BY <3>1, <3>2
  <2>3. EveryPlacedCallIsReported
    BY <2>0 DEF ReportedInv, EveryPlacedCallIsReported
  <2>4. QED
    BY <2>1, <2>2, <2>3 DEF CallsAreAccountedFor
<1>2. QED
  BY <1>1, RunInvariant, PTL

(* Whatever conditions a matrix names and however tc fails, calls meet the *)
(* condition they are reported under, and the interface is not left        *)
(* impaired in silence (impair.Netem.Apply, RunMatrix, runLoad's restore). *)
THEOREM InterfaceAsTold == LocalSpec => []InterfaceIsAsTold
<1>1. LInv => InterfaceIsAsTold
  <2> SUFFICES ASSUME LInv
               PROVE  InterfaceIsAsTold
    OBVIOUS
  <2>1. CallsMeetTheirCondition
    BY DEF LInv, SlotsInv, NetInv, CallsMeetTheirCondition
  <2>2. QED
    BY <2>1 DEF LInv, InterfaceIsAsTold
<1>2. QED
  BY <1>1, RunInvariant, PTL
(* However the client answers, and whenever it does, the report of a run   *)
(* that was not interrupted accounts for every turn event its calls        *)
(* published, and no report counts one twice (bus.Producer, runLoad).      *)
THEOREM EventsAccountedFor == LocalSpec => []EventsAddUp
<1>1. LInv => EventsAddUp
  <2>1. SUFFICES ASSUME LInv, result = "ok", ~Matrix
                 PROVE  LET sent == TurnsPerCall * MapThenSumSet(LAMBDA k : report[k].ok, Keys(cohorts))
                            told == quoted.produced + quoted.dropped
                        IN /\ told <= sent
                           /\ ~cancelled => told = sent /\ quoted.err = (quoted.dropped > 0)
    BY DEF EventsAddUp
  <2>2. FiguresHold
    BY <2>1 DEF LInv, FiguresInv
  <2>3. Sent = TurnsPerCall * MapThenSumSet(LAMBDA k : report[k].ok, Keys(cohorts))
    BY DEF Sent, SumOk
  <2>4. QED
    BY <2>2, <2>3 DEF FiguresHold, Told
<1>2. QED
  BY <1>1, RunInvariant, PTL
=============================================================================

---------------------- MODULE SchedulerPlacement_proofs ----------------------
(***************************************************************************)
(* Proofs about SchedulerPlacement, for every guide, every set of rules,   *)
(* priorities and inputs: a pass promises no tuner twice, records no       *)
(* program twice, loses nothing when it moves recordings, lets nothing     *)
(* less important take a place, and its plan says what was decided.        *)
(***************************************************************************)
EXTENDS SchedulerPlacement, FiniteSetTheorems, WellFoundedInduction, TLAPS

-----------------------------------------------------------------------------
(* The inductive invariant *)

\* The entries of the pass; they do not change.
Works == WorkList(guide)

\* The guide is well formed, and of what is under way no two are one program.
GuideOK ==
  /\ guide.start \in [Showings -> Nat]
  /\ guide.pri \in [Rules -> Int] /\ guide.pri2 \in [Showings \X Inputs -> Int]
  /\ DOMAIN guide.rule \subseteq Showings
  /\ \A s \in DOMAIN guide.rule : guide.rule[s] \in Rules
  /\ guide.recording \subseteq [entry : AllEntries, status : UnderWay]
  /\ \A a, b \in guide.recording : a # b => Program[a.entry[1]] # Program[b.entry[1]]

\* The list is sorted: what is under way first, then by priority.
OrderState ==
  phase # "sort" =>
    /\ m_workList \in [Works -> Nat]
    /\ \A a, b \in Works : m_workList[a] = m_workList[b] => a = b
    /\ \A a, b \in Works : Before(a, b) =>
         /\ WasUnderWay(b) => WasUnderWay(a)
         /\ (WasUnderWay(a) <=> WasUnderWay(b)) => Pri(a) >= Pri(b)

\* What is under way stays so, and nothing else is.
Kept(st) ==
  /\ st \in [Works -> Statuses]
  /\ \A e \in Works : IF WasUnderWay(e) THEN st[e] = InitialStatus(guide)[e] /\ st[e] \in UnderWay
                                        ELSE st[e] \notin UnderWay

\* One entry of a showing is recorded at most.
Shown(st) ==
  \A p, q \in Works : p # q /\ p[1] = q[1] => ~(Recording(st[p]) /\ Recording(st[q]))

\* The program of an entry is recorded.
HasProgram(st, e) == \E f \in Works : Recording(st[f]) /\ IsSameProgram(f, e)

\* Nothing is called another showing unless its program is recorded.
Justified(st) == \A q \in Works : st[q] \in OtherShowing => HasProgram(st, q)

UnmarkedIn(st, e) ==
  WasUnderWay(e) /\ \E f \in Works : st[f] = "Failing" /\ (f = e \/ Before(f, e))

\* The entries whose other showings are marked.
Done == IF phase \in {"sort", "marks"} THEN Works \ rest ELSE Works

\* The other showings of what is recorded are marked.
OthersMarked(st) ==
  \A e \in Done, q \in Works :
    e # q /\ Recording(st[e]) /\ ~UnmarkedIn(st, e) /\ IsSameProgram(e, q) /\ ~IsSingle(q)
      => st[q] \in OtherShowing \cup UnderWay

\* What was placed is not less important than what was not reached.
Ordered(st) ==
  \A f \in Works, e \in rest :
    st[f] = "WillRecord" /\ ~WasUnderWay(e) => Pri(f) >= Pri(e)

\* What was reached, and nothing important is in its way, is recorded.
Reached(st) == \A e \in Works \ rest : Unchallenged(e) => HasProgram(st, e)

Sound(st) ==
  Kept(st) /\ Shown(st) /\ Justified(st) /\ OthersMarked(st) /\ Ordered(st) /\ Reached(st)

\* No two of the entries S are recorded on a tuner that serves one of them only.
Booked(st, S) ==
  \A p, q \in S :
    p # q /\ Recording(st[p]) /\ Recording(st[q]) /\ ~(WasUnderWay(p) /\ WasUnderWay(q))
      => ~Collides(Slot(p), Slot(q), "Never")

\* SchedNewRecords has only looked at what is under way, from the front of the list.
MarkState ==
  phase \in {"sort", "marks"} =>
    /\ \A e \in Works : status[e] # "WillRecord"
    /\ \A e \in Works \ rest : WasUnderWay(e)
    /\ phase = "sort" => rest = Works

\* The levels go down in priority, and no entry is skipped.
LevelState ==
  /\ retry \subseteq level /\ (phase \notin {"retry", "move"} => retry = {})
  /\ phase \in {"first", "retry", "move"} => sublevel \subseteq level
  /\ \A f \in level, e \in rest : ~WasUnderWay(f) /\ ~WasUnderWay(e) => Pri(f) >= Pri(e)
  /\ phase = "first" => \A f \in sublevel, e \in rest : Before(e, f) => e \in sublevel
  /\ phase \in {"live", "moveLive", "done"} => rest = {}

\* In an attempt, what could be moved was, up to a place in the list; nothing that was
\* promised is lost, and what was saved can be put back.
MoveState ==
  /\ phase = "move" =>
       /\ placing \in Works /\ ~WasUnderWay(placing)
       /\ Booked(status, Works \ {placing})
       /\ Recording(status[placing]) =>
            \A q \in Conflicts(status, Slot(placing), placing, "Never"), m \in moved : Before(m, q)
  /\ phase # "move" => Booked(status, Works)
  /\ ~Settled => /\ Sound(saved) /\ Booked(saved, Works)
                 /\ Promised(saved) \subseteq Promised(status)

IInv ==
  /\ TypeOK /\ GuideOK /\ OrderState /\ Sound(status)
  /\ MarkState /\ LevelState /\ MoveState
  /\ PlanIsTrue

-----------------------------------------------------------------------------
(* Orders *)

\* A set of numbers has a least one.
LEMMA LeastNumber ==
  ASSUME NEW S \in SUBSET Nat, S # {}
  PROVE  \E x \in S : \A y \in S : x <= y
<1>1. PICK x \in S : \A y \in S : ~(<<y, x>> \in OpToRel(<, Nat))
  BY NatLessThanWellFounded, WFMin
<1>2. ASSUME NEW y \in S, y < x  PROVE FALSE
  <2>1. <<y, x>> \in OpToRel(<, Nat)
    BY <1>2 DEF OpToRel
  <2>2. QED  BY <1>1, <2>1
<1>3. QED  BY <1>2

\* The order of keys (comp_priority, comp_retry) is a strict total order.
LEMMA LexTransitive ==
  ASSUME NEW N \in Nat, NEW a \in [1 .. N -> Int], NEW b \in [1 .. N -> Int],
         NEW c \in [1 .. N -> Int], Lexicographic(a, b), Lexicographic(b, c)
  PROVE  Lexicographic(a, c)
<1>1. PICK n \in 1 .. N : a[n] < b[n] /\ \A m \in 1 .. n - 1 : a[m] = b[m]
  BY DEF Lexicographic
<1>2. PICK k \in 1 .. N : b[k] < c[k] /\ \A m \in 1 .. k - 1 : b[m] = c[m]
  BY DEF Lexicographic
<1>3. CASE n <= k
  <2>1. a[n] < c[n]
    <3>1. CASE n = k
      BY <1>1, <1>2, <3>1
    <3>2. CASE n < k
      <4>1. n \in 1 .. k - 1
        BY <3>2
      <4>2. QED  BY <1>1, <1>2, <4>1
    <3>3. QED  BY <1>3, <3>1, <3>2
  <2>2. \A m \in 1 .. n - 1 : m \in 1 .. k - 1
    BY <1>3
  <2>3. \A m \in 1 .. n - 1 : a[m] = c[m]
    BY <1>1, <1>2, <2>2
  <2>4. QED  BY <2>1, <2>3 DEF Lexicographic
<1>4. CASE k < n
  <2>1. k \in 1 .. n - 1
    BY <1>4
  <2>2. a[k] < c[k]
    BY <1>1, <1>2, <2>1
  <2>3. \A m \in 1 .. k - 1 : m \in 1 .. n - 1
    BY <1>4
  <2>4. \A m \in 1 .. k - 1 : a[m] = c[m]
    BY <1>1, <1>2, <2>3
  <2>5. QED  BY <2>2, <2>4 DEF Lexicographic
<1>5. QED  BY <1>3, <1>4

\* It is irreflexive.
LEMMA LexIrreflexive ==
  ASSUME NEW N \in Nat, NEW a \in [1 .. N -> Int]
  PROVE  ~Lexicographic(a, a)
  BY DEF Lexicographic

\* It is total.
LEMMA LexTotal ==
  ASSUME NEW N \in Nat, NEW a \in [1 .. N -> Int], NEW b \in [1 .. N -> Int], a # b
  PROVE  Lexicographic(a, b) \/ Lexicographic(b, a)
<1> DEFINE D == {n \in 1 .. N : a[n] # b[n]}
<1>1. D # {} /\ D \subseteq Nat
  OBVIOUS
<1>2. PICK n \in D : \A m \in D : n <= m
  BY <1>1, LeastNumber
<1>3. n \in 1 .. N /\ a[n] # b[n]
  BY <1>2
<1>4. \A m \in 1 .. n - 1 : a[m] = b[m] /\ b[m] = a[m]
  BY <1>2
<1>5. a[n] < b[n] \/ b[n] < a[n]
  BY <1>3
<1>6. QED  BY <1>3, <1>4, <1>5 DEF Lexicographic

\* The members of S whose key comes before that of e.
Preceding(S, k, e) == {f \in S : Lexicographic(k[f], k[e])}

\* The position of an entry is the number of those before it.
LEMMA Positions ==
  ASSUME NEW N \in Nat, NEW S, IsFiniteSet(S), NEW k \in [S -> [1 .. N -> Int]],
         NEW a \in S, NEW b \in S, Lexicographic(k[a], k[b])
  PROVE  /\ Cardinality(Preceding(S, k, a)) \in Nat /\ Cardinality(Preceding(S, k, b)) \in Nat
         /\ Cardinality(Preceding(S, k, a)) < Cardinality(Preceding(S, k, b))
<1> DEFINE A == Preceding(S, k, a)
           B == Preceding(S, k, b)
<1>1. A \subseteq S /\ B \subseteq S
  BY DEF Preceding
<1>2. IsFiniteSet(A) /\ IsFiniteSet(B) /\ Cardinality(A) \in Nat /\ Cardinality(B) \in Nat
  BY <1>1, FS_Subset, FS_CardinalityType
<1>3. ASSUME NEW f \in A  PROVE f \in B
  <2>1. f \in S /\ Lexicographic(k[f], k[a])
    BY DEF Preceding
  <2>2. Lexicographic(k[f], k[b])
    BY <2>1, LexTransitive
  <2>3. QED  BY <2>1, <2>2 DEF Preceding
<1>4. a \in B /\ a \notin A
  BY LexIrreflexive DEF Preceding
<1>5. A \subseteq B /\ A # B
  BY <1>3, <1>4
<1> HIDE DEF A, B
<1>6. Cardinality(A) < Cardinality(B)
  BY <1>2, <1>5, FS_Subset
<1>7. QED  BY <1>2, <1>6 DEF A, B

\* Of finitely many keys one is the first.
LEMMA LeastExists ==
  ASSUME NEW N \in Nat, NEW S, IsFiniteSet(S), S # {}, NEW k \in [S -> [1 .. N -> Int]],
         \A e, f \in S : k[e] = k[f] => e = f
  PROVE  \E e \in S : \A f \in S \ {e} : Lexicographic(k[e], k[f])
<1> DEFINE count(e) == Cardinality(Preceding(S, k, e))
           C == {count(e) : e \in S}
<1>1. \A e \in S : count(e) \in Nat
  <2> TAKE e \in S
  <2>1. Preceding(S, k, e) \subseteq S
    BY DEF Preceding
  <2>2. IsFiniteSet(Preceding(S, k, e))
    BY <2>1, FS_Subset
  <2>3. QED  BY <2>2, FS_CardinalityType
<1>2. ASSUME NEW a \in S, NEW b \in S, Lexicographic(k[a], k[b])  PROVE count(a) < count(b)
  BY <1>2, Positions
<1> HIDE DEF count
<1>3. C \in SUBSET Nat /\ C # {}
  BY <1>1
<1>4. PICK e \in S : \A y \in C : count(e) <= y
  <2> HIDE DEF C
  <2>1. PICK x \in C : \A y \in C : x <= y
    BY <1>3, LeastNumber
  <2>2. PICK e \in S : x = count(e)
    BY DEF C
  <2>3. QED  BY <2>1, <2>2
<1>5. ASSUME NEW f \in S \ {e}  PROVE Lexicographic(k[e], k[f])
  <2>1. count(f) \in C /\ count(e) <= count(f)
    BY <1>4
  <2>2. ~Lexicographic(k[f], k[e])
    BY <1>1, <1>2, <2>1
  <2>3. k[e] # k[f]
    OBVIOUS
  <2>4. QED  BY <2>2, <2>3, LexTotal
<1>6. QED  BY <1>5

-----------------------------------------------------------------------------
(* Entries *)

\* What an entry is; a showing that is under way has one entry.
LEMMA EntryFacts ==
  ASSUME GuideOK, NEW e \in Works
  PROVE  /\ e = <<e[1], e[2]>> /\ e \in AllEntries
         /\ e[1] \in Showings /\ e[1] \in DOMAIN guide.rule /\ e[2] \in Inputs
         /\ RuleOf(e) \in Rules /\ Pri(e) \in Int /\ Pri2(e) \in Int /\ Start(e) \in Nat
         /\ Program[e[1]] \in Nat /\ Channel[e[1]] \in Nat /\ Length[e[1]] \in Nat \ {0}
<1>1. e \in AllEntries /\ e[1] \in DOMAIN guide.rule
  BY DEF Works, WorkList
<1>2. e = <<e[1], e[2]>> /\ e[1] \in Showings /\ e[2] \in Inputs
  BY <1>1 DEF AllEntries
<1>3. RuleOf(e) \in Rules
  BY <1>1 DEF GuideOK, RuleOf
<1>4. Pri(e) \in Int /\ Pri2(e) \in Int /\ Start(e) \in Nat
  BY <1>2, <1>3 DEF GuideOK, Pri, Pri2, Start
<1>5. Program[e[1]] \in Nat /\ Channel[e[1]] \in Nat /\ Length[e[1]] \in Nat \ {0}
  BY <1>2, GuideAssumption
<1>6. QED  BY <1>1, <1>2, <1>3, <1>4, <1>5

\* A showing that is under way has one entry.
LEMMA OneUnderWay ==
  ASSUME NEW e \in Works, NEW f \in Works, WasUnderWay(f), e[1] = f[1]
  PROVE  e = f
  BY DEF Works, WorkList, WasUnderWay

\* Two entries that are under way show two programs.
LEMMA TwoUnderWay ==
  ASSUME GuideOK, NEW e \in Works, NEW f \in Works, WasUnderWay(e), WasUnderWay(f), e # f
  PROVE  ~IsSameProgram(e, f)
  BY DEF GuideOK, WasUnderWay, IsSameProgram

\* The work list is finite.
LEMMA WorksFinite ==
  ASSUME GuideOK
  PROVE  IsFiniteSet(Works)
<1>1. IsFiniteSet(Showings \X Inputs)
  BY GuideAssumption, InputsAssumption, FS_Product
<1>2. Works \subseteq Showings \X Inputs
  BY DEF Works, WorkList, AllEntries
<1>3. QED  BY <1>1, <1>2, FS_Subset

\* The first entry of a part of the list.
LEMMA FirstIn ==
  ASSUME m_workList \in [Works -> Nat], NEW S \in SUBSET Works, S # {}
  PROVE  First(S) \in S /\ \A f \in S : m_workList[First(S)] <= m_workList[f]
<1> DEFINE C == {m_workList[e] : e \in S}
<1>1. C \in SUBSET Nat /\ C # {}
  OBVIOUS
<1> HIDE DEF C
<1>2. PICK x \in C : \A y \in C : x <= y
  BY <1>1, LeastNumber
<1>3. PICK e \in S : x = m_workList[e]
  BY DEF C
<1>4. \A f \in S : m_workList[e] <= m_workList[f]
  BY <1>2, <1>3 DEF C
<1>5. QED  BY <1>4 DEF First

\* The best of several entries is one of them.
LEMMA BestIn ==
  ASSUME GuideOK, m_workList \in [Works -> Nat], NEW st \in [Works -> Statuses],
         NEW S \in SUBSET Works, S # {}
  PROVE  Best(st, S) \in S
<1> DEFINE aff(e) == Affinity(st, e)
           n == Cardinality(Works)
           C == {n - aff(e) : e \in S}
<1>1. IsFiniteSet(Works) /\ n \in Nat
  BY WorksFinite, FS_CardinalityType
<1>2. ASSUME NEW e \in S  PROVE aff(e) \in Nat /\ aff(e) <= n
  <2> DEFINE A == {q \in DOMAIN st \ {e} : /\ Recording(st[q])
                                          /\ Meets(Slot(e), Slot(q))
                                          /\ MplexOk(Slot(e), Slot(q))}
  <2>1. A \subseteq Works
    OBVIOUS
  <2> HIDE DEF A
  <2>2. Cardinality(A) \in Nat /\ Cardinality(A) <= n
    BY <1>1, <2>1, FS_Subset, FS_CardinalityType
  <2>3. QED  BY <2>2 DEF A, Affinity
<1> HIDE DEF aff, n
<1>3. C \in SUBSET Nat /\ C # {}
  BY <1>1, <1>2
<1> HIDE DEF C
<1>4. PICK x \in C : \A y \in C : x <= y
  BY <1>3, LeastNumber
<1>5. PICK e \in S : x = n - aff(e)
  BY DEF C
<1>6. \A f \in S : aff(f) <= aff(e)
  BY <1>1, <1>2, <1>4, <1>5 DEF C
<1> DEFINE M == {g \in S : \A f \in S : aff(f) <= aff(g)}
<1>7. M \in SUBSET Works /\ M # {} /\ M \subseteq S
  BY <1>6
<1> HIDE DEF M
<1>8. First(M) \in S
  BY <1>7, FirstIn
<1>9. QED  BY <1>8 DEF Best, M, aff

-----------------------------------------------------------------------------
(* The rule of a showing, and the sort *)

\* One of the rules that match a showing precedes the others.
LEMMA RuleChosen ==
  ASSUME NEW active \in RuleSets, NEW pri \in Priorities, NEW s, Active(active, s) # {}
  PROVE  PruneOverlaps(active, pri, s) \in Rules
<1> DEFINE S == Active(active, s)
           k == [r \in S |-> <<Rank(RuleType[r] = "Single"), 0 - pri[r], r>>]
<1>1. S \subseteq Rules /\ IsFiniteSet(S) /\ pri \in [Rules -> Int]
  BY RulesAssumption, FS_Subset DEF Active
<1>2. ASSUME NEW r \in S  PROVE k[r] \in [1 .. 3 -> Int]
  <2>1. k[r] = <<Rank(RuleType[r] = "Single"), 0 - pri[r], r>>
    OBVIOUS
  <2> HIDE DEF k, S
  <2>2. r \in Rules
    BY <1>1
  <2>3. r \in Int /\ pri[r] \in Int
    BY <1>1, <2>2, RulesAssumption
  <2>4. Rank(RuleType[r] = "Single") \in Int
    BY DEF Rank
  <2>5. QED  BY <2>1, <2>3, <2>4
<1>3. \A a, b \in S : k[a] = k[b] => a = b
  OBVIOUS
<1>4. \A a, b \in S : Lexicographic(k[a], k[b]) =>
         IF RuleType[a] # RuleType[b] THEN RuleType[a] = "Single"
         ELSE pri[a] > pri[b] \/ (pri[a] = pri[b] /\ a < b)
  <2> TAKE a, b \in S
  <2> SUFFICES ASSUME Lexicographic(k[a], k[b])
               PROVE  IF RuleType[a] # RuleType[b] THEN RuleType[a] = "Single"
                      ELSE pri[a] > pri[b] \/ (pri[a] = pri[b] /\ a < b)
    OBVIOUS
  <2>1. PICK n \in 1 .. 3 : k[a][n] < k[b][n] /\ \A m \in 1 .. n - 1 : k[a][m] = k[b][m]
    BY <1>2 DEF Lexicographic
  <2>2. /\ k[a][1] = Rank(RuleType[a] = "Single") /\ k[b][1] = Rank(RuleType[b] = "Single")
        /\ k[a][2] = 0 - pri[a] /\ k[b][2] = 0 - pri[b] /\ k[a][3] = a /\ k[b][3] = b
    OBVIOUS
  <2>3. /\ a \in Nat /\ b \in Nat /\ pri[a] \in Int /\ pri[b] \in Int
        /\ RuleType[a] \in {"Single", "All"} /\ RuleType[b] \in {"Single", "All"}
    BY <1>1, RulesAssumption
  <2> HIDE DEF k
  <2>4. CASE n = 1
    BY <2>1, <2>2, <2>3, <2>4 DEF Rank
  <2>5. CASE n = 2
    <3>1. k[a][1] = k[b][1]
      BY <2>1, <2>5
    <3>2. QED  BY <2>1, <2>2, <2>3, <2>5, <3>1 DEF Rank
  <2>6. CASE n = 3
    <3>1. k[a][1] = k[b][1] /\ k[a][2] = k[b][2]
      BY <2>1, <2>6
    <3>2. QED  BY <2>1, <2>2, <2>3, <2>6, <3>1 DEF Rank
  <2>7. QED  BY <2>4, <2>5, <2>6
<1>5. PICK r \in S : \A f \in S \ {r} : Lexicographic(k[r], k[f])
  <2>1. k \in [S -> [1 .. 3 -> Int]]
    BY <1>2
  <2> HIDE DEF k, S
  <2>2. S # {}
    BY DEF S
  <2>3. QED  BY <1>1, <1>3, <2>1, <2>2, LeastExists
<1> HIDE DEF k
<1>6. PruneOverlaps(active, pri, s) \in S
  BY <1>4, <1>5 DEF PruneOverlaps
<1>7. QED  BY <1>1, <1>6

\* The key of an entry.
LEMMA KeyFacts ==
  ASSUME GuideOK, NEW e \in Works
  PROVE  /\ comp_priority(e) \in [1 .. 11 -> Int]
         /\ comp_priority(e)[1] = Rank(WasUnderWay(e)) /\ comp_priority(e)[2] = 0 - Pri(e)
         /\ comp_priority(e)[9] = e[2] /\ comp_priority(e)[11] = e[1]
<1>1. /\ e[1] \in Int /\ e[2] \in Int /\ RuleOf(e) \in Int /\ Pri(e) \in Int /\ Pri2(e) \in Int
      /\ Start(e) \in Int /\ Program[e[1]] \in Int /\ Channel[e[1]] \in Int
  BY EntryFacts, GuideAssumption, InputsAssumption, RulesAssumption
<1>2. /\ Rank(WasUnderWay(e)) \in Int /\ Rank(IsSingle(e)) \in Int /\ Rank(~Past(e)) \in Int
      /\ 0 - Pri(e) \in Int /\ 0 - Pri2(e) \in Int
  BY <1>1 DEF Rank
<1>3. QED  BY <1>1, <1>2 DEF comp_priority

\* What the order of two keys says of their entries.
LEMMA KeyOrder ==
  ASSUME GuideOK, NEW a \in Works, NEW b \in Works,
         Lexicographic(comp_priority(a), comp_priority(b))
  PROVE  /\ WasUnderWay(b) => WasUnderWay(a)
         /\ (WasUnderWay(a) <=> WasUnderWay(b)) => Pri(a) >= Pri(b)
<1> DEFINE x == comp_priority(a)
           y == comp_priority(b)
<1>1. /\ x \in [1 .. 11 -> Int] /\ x[1] = Rank(WasUnderWay(a)) /\ x[2] = 0 - Pri(a)
      /\ y \in [1 .. 11 -> Int] /\ y[1] = Rank(WasUnderWay(b)) /\ y[2] = 0 - Pri(b)
      /\ Pri(a) \in Int /\ Pri(b) \in Int
  BY KeyFacts, EntryFacts
<1> HIDE DEF x, y
<1>2. PICK n \in 1 .. 11 : x[n] < y[n] /\ \A m \in 1 .. n - 1 : x[m] = y[m]
  BY <1>1 DEF Lexicographic, x, y
<1>3. CASE n = 1
  BY <1>1, <1>2, <1>3 DEF Rank
<1>4. CASE n = 2
  <2>1. x[1] = y[1]
    BY <1>2, <1>4
  <2>2. QED  BY <1>1, <1>2, <1>4, <2>1 DEF Rank
<1>5. CASE n > 2
  <2>1. x[1] = y[1] /\ x[2] = y[2]
    BY <1>2, <1>5
  <2>2. QED  BY <1>1, <2>1 DEF Rank
<1>6. QED  BY <1>3, <1>4, <1>5

\* The sort gives every entry a place of its own, in the order of comp_priority.
LEMMA SortOrders ==
  ASSUME GuideOK, status \in [Works -> Statuses], SortByPriority
  PROVE  /\ m_workList' \in [Works -> Nat]
         /\ \A a, b \in Works : m_workList'[a] = m_workList'[b] => a = b
         /\ \A a, b \in Works : m_workList'[a] < m_workList'[b] =>
              /\ WasUnderWay(b) => WasUnderWay(a)
              /\ (WasUnderWay(a) <=> WasUnderWay(b)) => Pri(a) >= Pri(b)
<1> DEFINE k == [e \in Works |-> comp_priority(e)]
           W == [e \in Works |-> Cardinality(Preceding(Works, k, e))]
<1>1. m_workList' = W
  BY DEF SortByPriority, Entries, Preceding
<1>2. \A e \in Works : k[e] = comp_priority(e)
  OBVIOUS
<1>3. k \in [Works -> [1 .. 11 -> Int]]
  BY KeyFacts
<1>4. ASSUME NEW a \in Works, NEW b \in Works, k[a] = k[b]  PROVE a = b
  <2>1. a[1] = b[1] /\ a[2] = b[2]
    BY <1>2, <1>4, KeyFacts
  <2>2. QED  BY <2>1, EntryFacts
<1> HIDE DEF k
<1>5. ASSUME NEW a \in Works, NEW b \in Works, a # b
      PROVE  Lexicographic(k[a], k[b]) \/ Lexicographic(k[b], k[a])
  BY <1>3, <1>4, <1>5, LexTotal
<1>6. ASSUME NEW a \in Works, NEW b \in Works, Lexicographic(k[a], k[b])
      PROVE  W[a] \in Nat /\ W[b] \in Nat /\ W[a] < W[b]
  BY <1>3, <1>6, Positions, WorksFinite
<1>7. ASSUME NEW a \in Works  PROVE W[a] \in Nat
  <2>1. Preceding(Works, k, a) \subseteq Works
    BY DEF Preceding
  <2>2. Cardinality(Preceding(Works, k, a)) \in Nat
    BY <2>1, WorksFinite, FS_Subset, FS_CardinalityType
  <2>3. QED  BY <2>2
<1>8. W \in [Works -> Nat]
  BY <1>7
<1> HIDE DEF W
<1>9. ASSUME NEW a \in Works, NEW b \in Works, W[a] = W[b]  PROVE a = b
  BY <1>5, <1>6, <1>7, <1>9
<1>10. ASSUME NEW a \in Works, NEW b \in Works, W[a] < W[b]
       PROVE  /\ WasUnderWay(b) => WasUnderWay(a)
              /\ (WasUnderWay(a) <=> WasUnderWay(b)) => Pri(a) >= Pri(b)
  <2>1. a # b /\ ~Lexicographic(k[b], k[a])
    BY <1>6, <1>7, <1>10
  <2>2. Lexicographic(comp_priority(a), comp_priority(b))
    BY <1>2, <1>5, <2>1
  <2>3. QED  BY <2>2, KeyOrder
<1>11. QED  BY <1>1, <1>8, <1>9, <1>10

-----------------------------------------------------------------------------
(* Placing a recording *)

\* The slot of an entry.
LEMMA SlotFacts ==
  ASSUME GuideOK, NEW e \in Works
  PROVE  /\ Slot(e).start = Start(e) /\ Slot(e).end = Start(e) + Length[e[1]]
         /\ Slot(e).chan = Channel[e[1]] /\ Slot(e).input = e[2]
         /\ Slot(e).start \in Int /\ Slot(e).end \in Int
  BY EntryFacts DEF Slot

\* FindNextConflict finds q for p if it finds p for q.
LEMMA CollidesSymmetric ==
  ASSUME GuideOK, NEW p \in Works, NEW q \in Works, Collides(Slot(p), Slot(q), "Never")
  PROVE  Collides(Slot(q), Slot(p), "Never")
<1> DEFINE x == Slot(p)
           y == Slot(q)
<1>1. x.start \in Int /\ x.end \in Int /\ y.start \in Int /\ y.end \in Int
  BY SlotFacts
<1> HIDE DEF x, y
<1>2. Collides(x, y, "Never")
  BY DEF x, y
<1>3. Meets(x, y) /\ ~MplexOk(x, y) /\ x.end # y.start /\ x.start # y.end
  BY <1>2 DEF Collides
<1>4. Meets(y, x)
  BY <1>1, <1>3 DEF Meets
<1>5. ~MplexOk(y, x)
  BY <1>3 DEF MplexOk
<1>6. Collides(y, x, "Never")
  BY <1>3, <1>4, <1>5 DEF Collides
<1>7. QED  BY <1>6 DEF x, y

\* What collides when ends do not matter collides under every setting.
LEMMA CollidesAnyway ==
  ASSUME NEW x, NEW y, NEW o, Collides(x, y, "Never")
  PROVE  Collides(x, y, o)
  BY DEF Collides

\* W is st with p to be recorded, at the expense of other entries of its program.
Places(st, W, p) ==
  /\ W \in [Works -> Statuses] /\ W[p] = "WillRecord"
  /\ st[p] \in OtherShowing \cup {"Unknown"}
  /\ \A q \in Works : q # p =>
       \/ W[q] = st[q]
       \/ /\ W[q] \in OtherShowing /\ st[q] \in OtherShowing \cup {"Unknown", "WillRecord"}
          /\ IsSameProgram(q, p) /\ (IsSingle(q) => q[1] = p[1])
  /\ \A q \in Works : q # p /\ st[q] \notin UnderWay =>
       /\ q[1] = p[1] => W[q] \in OtherShowing
       /\ ~IsSingle(q) /\ IsSameProgram(q, p) => W[q] \in OtherShowing

\* What MarkOtherShowings does.
LEMMA Marks ==
  ASSUME NEW st \in [Works -> Statuses], NEW p \in Works
  PROVE  LET M == MarkOtherShowings(st, p) IN
         /\ M \in [Works -> Statuses] /\ M[p] = st[p]
         /\ \A q \in Works : q # p =>
              \/ M[q] = st[q]
              \/ /\ M[q] \in OtherShowing /\ st[q] \in OtherShowing \cup {"Unknown", "WillRecord"}
                 /\ IsSameProgram(q, p) /\ (IsSingle(q) => q[1] = p[1])
         /\ \A q \in Works : q # p /\ st[q] \notin UnderWay =>
              /\ q[1] = p[1] => M[q] \in OtherShowing
              /\ ~IsSingle(q) /\ IsSameProgram(q, p) => M[q] \in OtherShowing
<1> DEFINE M == MarkOtherShowings(st, p)
<1>1. M = [q \in Works |-> Mark(st, p, q)]
  BY DEF MarkOtherShowings
<1>2. \A q \in Works : M[q] = Mark(st, p, q)
  BY <1>1
<1>3. \A q \in Works : q[1] = p[1] => IsSameProgram(q, p)
  BY DEF IsSameProgram
<1>4. \A q \in Works : st[q] \in Statuses
  OBVIOUS
<1>5. ASSUME NEW q \in Works
      PROVE  /\ Mark(st, p, q) \in {st[q], "LaterShowing", "EarlierShowing"}
             /\ q = p => Mark(st, p, q) = st[q]
             /\ \/ Mark(st, p, q) = st[q]
                \/ /\ Mark(st, p, q) \in OtherShowing
                   /\ st[q] \in OtherShowing \cup {"Unknown", "WillRecord"}
                   /\ IsSameProgram(q, p) /\ (IsSingle(q) => q[1] = p[1])
             /\ q # p /\ st[q] \notin UnderWay =>
                  /\ q[1] = p[1] => Mark(st, p, q) \in OtherShowing
                  /\ ~IsSingle(q) /\ IsSameProgram(q, p) => Mark(st, p, q) \in OtherShowing
  BY <1>3, <1>4 DEF Mark, Statuses, OtherShowing, UnderWay
<1> HIDE DEF M
<1>6. M \in [Works -> Statuses]
  <2>1. \A q \in Works : Mark(st, p, q) \in Statuses
    BY <1>4, <1>5 DEF Statuses, OtherShowing
  <2>2. QED  BY <1>1, <2>1
<1>7. QED  BY <1>2, <1>5, <1>6 DEF M

\* Placing what has no place yet (SchedNewFirstPass, SchedNewRetryPass).
LEMMA PlacesNew ==
  ASSUME NEW st \in [Works -> Statuses], NEW p \in Works, st[p] = "Unknown"
  PROVE  Places(st, WillRecord(st, p), p)
<1> DEFINE s == [st EXCEPT ![p] = "WillRecord"]
           W == WillRecord(st, p)
<1>1. s \in [Works -> Statuses] /\ s[p] = "WillRecord" /\ \A q \in Works : q # p => s[q] = st[q]
  BY DEF Statuses
<1>2. W = MarkOtherShowings(s, p)
  BY DEF WillRecord
<1> HIDE DEF s, W
<1>3. QED  BY <1>1, <1>2, Marks DEF Places, W

\* Placing another showing of an entry that gives up its place (TryAnotherShowing).
LEMMA PlacesOther ==
  ASSUME NEW st \in [Works -> Statuses], NEW o \in Works, NEW same, NEW sessions,
         NEW p \in Substitutes(st, o, same, sessions), Recording(st[o])
  PROVE  LET s == [st EXCEPT ![o] = "LaterShowing"] IN
         /\ s \in [Works -> Statuses]
         /\ p \in Works /\ p # o /\ RuleOf(p) = RuleOf(o) /\ IsSameProgram(o, p)
         /\ st[o] = "WillRecord"
         /\ Places(st, WillRecord(s, p), p)
         /\ \A q \in Works : q # p /\ Recording(s[q]) => ~Collides(Slot(p), Slot(q), "Never")
         /\ WillRecord(s, p)[o] \in OtherShowing
<1> DEFINE s == [st EXCEPT ![o] = "LaterShowing"]
           t == [s EXCEPT ![p] = "WillRecord"]
           W == WillRecord(s, p)
<1>1. st[o] \notin UnderWay /\ p \in OtherShowings(s, o, same, sessions)
  BY DEF Substitutes
<1>2. st[o] = "WillRecord"
  BY <1>1 DEF Recording
<1>3. /\ s \in [Works -> Statuses] /\ s[o] = "LaterShowing"
      /\ \A q \in Works : q # o => s[q] = st[q]
  BY DEF Statuses, OtherShowing
<1> HIDE DEF s
<1>4. /\ p \in Works /\ p # o /\ RuleOf(p) = RuleOf(o) /\ s[p] \in OtherShowing \cup {"Unknown"}
      /\ p[1] = o[1] \/ (IsSameProgram(o, p) /\ ~IsSingle(o))
      /\ Conflicts(s, Slot(p), p, "Never") = {}
  <2>1. DOMAIN s = Works
    BY <1>3
  <2>2. /\ p \in DOMAIN s \ {o} /\ RuleOf(p) = RuleOf(o) /\ s[p] \in OtherShowing \cup {"Unknown"}
        /\ p[1] = o[1] \/ (IsSameProgram(o, p) /\ ~IsSingle(o))
        /\ Conflicts(s, Slot(p), p, "Never") = {}
    BY <1>1, Zenon DEF OtherShowings
  <2>3. QED  BY <2>1, <2>2
<1>5. IsSameProgram(o, p) /\ IsSameProgram(p, o) /\ (IsSingle(o) => p[1] = o[1])
  BY <1>4 DEF IsSameProgram
<1>6. \A q \in Works : q # p /\ Recording(s[q]) => ~Collides(Slot(p), Slot(q), "Never")
  BY <1>3, <1>4 DEF Conflicts
<1>7. t \in [Works -> Statuses] /\ t[p] = "WillRecord" /\ \A q \in Works : q # p => t[q] = s[q]
  BY <1>3, <1>4 DEF Statuses
<1>8. W = MarkOtherShowings(t, p)
  BY DEF WillRecord
<1> HIDE DEF t, W
<1>9. /\ W \in [Works -> Statuses] /\ W[p] = t[p]
      /\ \A q \in Works : q # p =>
           \/ W[q] = t[q]
           \/ /\ W[q] \in OtherShowing /\ t[q] \in OtherShowing \cup {"Unknown", "WillRecord"}
              /\ IsSameProgram(q, p) /\ (IsSingle(q) => q[1] = p[1])
      /\ \A q \in Works : q # p /\ t[q] \notin UnderWay =>
           /\ q[1] = p[1] => W[q] \in OtherShowing
           /\ ~IsSingle(q) /\ IsSameProgram(q, p) => W[q] \in OtherShowing
  BY <1>4, <1>7, <1>8, Marks
<1>10. W[o] \in OtherShowing
  BY <1>3, <1>4, <1>7, <1>9 DEF OtherShowing
<1>11. Places(st, W, p)
  <2>1. ASSUME NEW q \in Works, q # p, q # o
        PROVE  /\ t[q] = st[q]
    BY <1>3, <1>7, <2>1
  <2>2. st[p] = s[p] /\ t[o] = "LaterShowing"
    BY <1>3, <1>4, <1>7
  <2>3. ASSUME NEW q \in Works, q # p
        PROVE  /\ \/ W[q] = st[q]
                  \/ /\ W[q] \in OtherShowing /\ st[q] \in OtherShowing \cup {"Unknown", "WillRecord"}
                     /\ IsSameProgram(q, p) /\ (IsSingle(q) => q[1] = p[1])
               /\ st[q] \notin UnderWay =>
                    /\ q[1] = p[1] => W[q] \in OtherShowing
                    /\ ~IsSingle(q) /\ IsSameProgram(q, p) => W[q] \in OtherShowing
    <3>1. CASE q = o
      BY <1>2, <1>5, <1>10, <3>1
    <3>2. CASE q # o
      BY <1>9, <2>1, <2>3, <3>2
    <3>3. QED  BY <3>1, <3>2
  <2>4. QED  BY <1>4, <1>7, <1>9, <2>2, <2>3 DEF Places
<1>12. QED  BY <1>2, <1>3, <1>4, <1>5, <1>6, <1>10, <1>11 DEF s, W

\* What is recorded after a placement was recorded before, or is the new one.
LEMMA PlacedRecording ==
  ASSUME NEW st, NEW W, NEW p \in Works, Places(st, W, p)
  PROVE  /\ \A q \in Works : Recording(W[q]) => q = p \/ (Recording(st[q]) /\ W[q] = st[q])
         /\ \A q \in Works : Recording(st[q]) => \/ Recording(W[q])
                                                 \/ /\ IsSameProgram(q, p)
                                                    /\ IsSingle(q) => q[1] = p[1]
         /\ \A q \in Works : st[q] \in UnderWay => W[q] = st[q]
         /\ \A q \in Works : W[q] \in UnderWay => W[q] = st[q]
         /\ \A q \in Works : W[q] = "Failing" <=> st[q] = "Failing"
         /\ \A q \in Works : q # p /\ st[q] \in OtherShowing \cup UnderWay
                               => W[q] \in OtherShowing \cup UnderWay
         /\ ~Recording(st[p]) /\ Recording(W[p])
  BY DEF Places, Recording, UnderWay, OtherShowing

\* Nothing that was going to be recorded is lost.
LEMMA PlacedPromised ==
  ASSUME NEW st \in [Works -> Statuses], NEW W, NEW p \in Works, Places(st, W, p)
  PROVE  Promised(st) \subseteq Promised(W)
<1>1. DOMAIN W = Works /\ DOMAIN st = Works
  BY DEF Places
<1>2. ASSUME NEW e \in Works, Recording(st[e])
      PROVE  <<"program", Program[e[1]]>> \in Promised(W)
  <2>1. PICK f \in Works : Recording(W[f]) /\ Program[f[1]] = Program[e[1]]
    BY <1>2, PlacedRecording DEF IsSameProgram
  <2>2. QED  BY <1>1, <2>1 DEF Promised
<1>3. ASSUME NEW e \in Works, Recording(st[e]), IsSingle(e)
      PROVE  <<"showing", e[1]>> \in Promised(W)
  <2>1. PICK f \in Works : Recording(W[f]) /\ f[1] = e[1]
    BY <1>3, PlacedRecording
  <2>2. IsSingle(f)
    BY <1>3, <2>1 DEF IsSingle, RuleOf
  <2>3. QED  BY <1>1, <2>1, <2>2 DEF Promised
<1>4. ASSUME NEW x \in Promised(st)  PROVE x \in Promised(W)
  <2>1. CASE \E e \in Works : Recording(st[e]) /\ x = <<"program", Program[e[1]]>>
    BY <1>2, <2>1
  <2>2. CASE \E e \in Works : Recording(st[e]) /\ IsSingle(e) /\ x = <<"showing", e[1]>>
    BY <1>3, <2>2
  <2>3. QED  BY <1>1, <2>1, <2>2 DEF Promised
<1>5. QED  BY <1>4

\* A placement where nothing is in the way.
LEMMA PlacedBooked ==
  ASSUME GuideOK, NEW st, NEW W, NEW p \in Works, Places(st, W, p),
         NEW S \in SUBSET Works, Booked(st, S),
         \A q \in S : q # p /\ Recording(W[q]) => ~Collides(Slot(p), Slot(q), "Never")
  PROVE  Booked(W, S)
<1> SUFFICES ASSUME NEW a \in S, NEW b \in S, a # b, Recording(W[a]), Recording(W[b]),
                    ~(WasUnderWay(a) /\ WasUnderWay(b))
             PROVE  ~Collides(Slot(a), Slot(b), "Never")
  BY DEF Booked
<1>1. CASE a = p
  BY <1>1
<1>2. CASE b = p
  BY <1>2, CollidesSymmetric
<1>3. CASE a # p /\ b # p
  BY <1>3, PlacedRecording DEF Booked
<1>4. QED  BY <1>1, <1>2, <1>3

\* A placement keeps the other parts of the invariant: no recording whose other showings
\* are marked is of the program, and nothing more important is still to come.
LEMMA PlacedSound ==
  ASSUME GuideOK, NEW st, NEW W, NEW p \in Works, Sound(st), Places(st, W, p),
         ~WasUnderWay(p),
         \A e \in Done : /\ e # p /\ Recording(st[e]) /\ Recording(W[e]) /\ ~UnmarkedIn(st, e)
                         /\ IsSameProgram(e, p)
                         => IsSingle(p),
         \A e \in rest : ~WasUnderWay(e) => Pri(p) >= Pri(e)
  PROVE  Sound(W)
<1> USE PlacedRecording
<1>1. Kept(W)
  <2>1. W \in [Works -> Statuses]
    BY DEF Places
  <2>2. ASSUME NEW e \in Works
        PROVE  IF WasUnderWay(e) THEN W[e] = InitialStatus(guide)[e] /\ W[e] \in UnderWay
                                 ELSE W[e] \notin UnderWay
    BY DEF Sound, Kept
  <2>3. QED  BY <2>1, <2>2 DEF Kept
<1>2. Shown(W)
  <2> SUFFICES ASSUME NEW a \in Works, NEW b \in Works, a # b, a[1] = b[1],
                      Recording(W[a]), Recording(W[b])
               PROVE  FALSE
    BY DEF Shown
  <2>1. CASE a # p /\ b # p
    BY <2>1 DEF Sound, Shown
  <2>2. ASSUME NEW q \in Works, q # p, q[1] = p[1]  PROVE ~Recording(W[q])
    <3>1. ~WasUnderWay(q)
      BY <2>2, OneUnderWay
    <3>2. st[q] \notin UnderWay
      BY <3>1 DEF Sound, Kept
    <3>3. W[q] \in OtherShowing
      BY <2>2, <3>2 DEF Places
    <3>4. QED  BY <3>3 DEF Recording, UnderWay, OtherShowing
  <2>3. QED  BY <2>1, <2>2
<1>3. \A e \in Works : HasProgram(st, e) => HasProgram(W, e)
  BY DEF HasProgram, IsSameProgram
<1>4. Justified(W)
  <2> SUFFICES ASSUME NEW q \in Works, W[q] \in OtherShowing  PROVE HasProgram(W, q)
    BY DEF Justified
  <2>1. CASE st[q] \in OtherShowing
    BY <1>3, <2>1 DEF Sound, Justified
  <2>2. CASE st[q] \notin OtherShowing
    <3>1. q # p /\ IsSameProgram(q, p)
      BY <2>2 DEF Places, OtherShowing
    <3>2. QED  BY <3>1 DEF HasProgram, IsSameProgram
  <2>3. QED  BY <2>1, <2>2
<1>5. OthersMarked(W)
  <2> SUFFICES ASSUME NEW e \in Done, NEW q \in Works, e # q, Recording(W[e]),
                      ~UnmarkedIn(W, e), IsSameProgram(e, q), ~IsSingle(q)
               PROVE  W[q] \in OtherShowing \cup UnderWay
    BY DEF OthersMarked
  <2>1. e \in Works
    BY DEF Done
  <2>2. ~UnmarkedIn(st, e)
    BY DEF UnmarkedIn
  <2>3. CASE e = p
    <3>1. CASE st[q] \in UnderWay
      BY <3>1
    <3>2. CASE st[q] \notin UnderWay
      BY <2>3, <3>2 DEF Places, IsSameProgram
    <3>3. QED  BY <3>1, <3>2
  <2>4. CASE e # p /\ q # p
    BY <2>1, <2>2, <2>4 DEF Sound, OthersMarked
  <2>5. CASE e # p /\ q = p
    BY <2>1, <2>2, <2>5
  <2>6. QED  BY <2>3, <2>4, <2>5
<1>6. Ordered(W)
  <2> SUFFICES ASSUME NEW f \in Works, NEW e \in rest, W[f] = "WillRecord", ~WasUnderWay(e)
               PROVE  Pri(f) >= Pri(e)
    BY DEF Ordered
  <2>1. CASE f = p
    BY <2>1
  <2>2. CASE f # p
    BY <2>2 DEF Sound, Ordered, Recording
  <2>3. QED  BY <2>1, <2>2
<1>7. Reached(W)
  BY <1>3 DEF Sound, Reached
<1>8. QED  BY <1>1, <1>2, <1>4, <1>5, <1>6, <1>7 DEF Sound

-----------------------------------------------------------------------------
(* What the pass does not change *)

\* What follows from the guide is the same before and after a step.
LEMMA Static ==
  ASSUME UNCHANGED guide
  PROVE  /\ Works' = Works /\ InitialStatus(guide)' = InitialStatus(guide)
         /\ \A e : /\ (WasUnderWay(e)' <=> WasUnderWay(e)) /\ (IsSingle(e)' <=> IsSingle(e))
                   /\ Pri(e)' = Pri(e) /\ Slot(e)' = Slot(e)
<1>1. Works' = Works /\ InitialStatus(guide)' = InitialStatus(guide)
  BY DEF Works
<1>2. \A e : WasUnderWay(e)' <=> WasUnderWay(e)
  BY DEF WasUnderWay
<1>3. \A e : (IsSingle(e)' <=> IsSingle(e)) /\ Pri(e)' = Pri(e)
  BY DEF IsSingle, Pri, RuleOf
<1>4. \A e : Slot(e)' = Slot(e)
  BY DEF Slot, Start
<1>5. QED  BY <1>1, <1>2, <1>3, <1>4

\* The guide stays well formed.
LEMMA StaticGuide ==
  ASSUME UNCHANGED guide, GuideOK
  PROVE  GuideOK'
  BY DEF GuideOK, AllEntries

\* What is in the way of an entry does not depend on what was decided.
LEMMA StaticUnchallenged ==
  ASSUME UNCHANGED guide, status \in [Works -> Statuses], status' \in [Works -> Statuses], NEW e
  PROVE  Unchallenged(e)' <=> Unchallenged(e)
<1>1. Entries = Works /\ Entries' = Works
  BY DEF Entries
<1>2. guide'.m_openEnd = guide.m_openEnd
  OBVIOUS
<1>3. QED  BY <1>1, <1>2, Static DEF Unchallenged

\* The new status satisfies the invariant, which looks at what is still to come.
LEMMA SoundNext ==
  ASSUME UNCHANGED <<guide, m_workList>>, rest' \subseteq rest, Sound(status), Sound(status'),
         \A e \in Done' \ Done, q \in Works :
           e # q /\ Recording(status'[e]) /\ ~UnmarkedIn(status', e) /\ IsSameProgram(e, q)
             /\ ~IsSingle(q) => status'[q] \in OtherShowing \cup UnderWay,
         \A e \in (Works \ rest') \ (Works \ rest) : Unchallenged(e) => HasProgram(status', e)
  PROVE  Sound(status)'
<1> USE Static
<1>1. Kept(status)'
  BY DEF Sound, Kept
<1>2. Shown(status)'
  BY DEF Sound, Shown
<1>3. \A e : HasProgram(status, e)' <=> HasProgram(status', e)
  BY DEF HasProgram
<1>4. Justified(status)'
  BY <1>3 DEF Sound, Justified
<1>5. \A e : UnmarkedIn(status, e)' <=> UnmarkedIn(status', e)
  BY DEF UnmarkedIn, Before
<1>6. OthersMarked(status)'
  BY <1>5 DEF Sound, OthersMarked
<1>7. Ordered(status)'
  BY DEF Sound, Ordered
<1>8. Reached(status)'
  <2>1. status \in [Works -> Statuses] /\ status' \in [Works -> Statuses]
    BY DEF Sound, Kept
  <2>2. \A e : Unchallenged(e)' <=> Unchallenged(e)
    BY <2>1, StaticUnchallenged
  <2>3. QED  BY <1>3, <2>2 DEF Sound, Reached
<1>9. QED  BY <1>1, <1>2, <1>4, <1>6, <1>7, <1>8 DEF Sound

\* The same of what is saved.
LEMMA SavedNext ==
  ASSUME UNCHANGED <<guide, m_workList, rest>>, Done' = Done, Sound(status), Sound(status'),
         Sound(saved')
  PROVE  Sound(saved)'
<1> USE Static
<1>1. Kept(saved)' /\ Shown(saved)'
  BY DEF Sound, Kept, Shown
<1>2. \A e : HasProgram(saved, e)' <=> HasProgram(saved', e)
  BY DEF HasProgram
<1>3. Justified(saved)'
  BY <1>2 DEF Sound, Justified
<1>4. \A e : UnmarkedIn(saved, e)' <=> UnmarkedIn(saved', e)
  BY DEF UnmarkedIn, Before
<1>5. OthersMarked(saved)'
  BY <1>4 DEF Sound, OthersMarked
<1>6. Ordered(saved)'
  BY DEF Sound, Ordered
<1>7. Reached(saved)'
  <2>1. status \in [Works -> Statuses] /\ status' \in [Works -> Statuses]
    BY DEF Sound, Kept
  <2>2. \A e : Unchallenged(e)' <=> Unchallenged(e)
    BY <2>1, StaticUnchallenged
  <2>3. QED  BY <1>2, <2>2 DEF Sound, Reached
<1>8. QED  BY <1>1, <1>3, <1>5, <1>6, <1>7 DEF Sound

\* Bookings and promises are the same read before or after the step.
LEMMA BookedNext ==
  ASSUME UNCHANGED guide
  PROVE  /\ \A S : Booked(status, S)' <=> Booked(status', S)
         /\ Booked(saved, Works)' <=> Booked(saved', Works)
         /\ Promised(status)' = Promised(status') /\ Promised(saved)' = Promised(saved')
<1> USE Static
<1>1. \A S : Booked(status, S)' <=> Booked(status', S)
  BY DEF Booked
<1>2. Booked(saved, Works)' <=> Booked(saved', Works)
  BY DEF Booked
<1>3. Promised(status)' = Promised(status') /\ Promised(saved)' = Promised(saved')
  BY DEF Promised
<1>4. QED  BY <1>1, <1>2, <1>3

\* The list stays sorted.
LEMMA OrderNext ==
  ASSUME UNCHANGED <<guide, m_workList>>, OrderState, phase # "sort"
  PROVE  OrderState'
  BY Static DEF OrderState, Before

-----------------------------------------------------------------------------
(* The steps of the pass *)

\* No member of a set of UpTo(n, S) is outside S.
LEMMA UpToIn ==
  ASSUME NEW n, NEW S, NEW R \in UpTo(n, S)
  PROVE  R \subseteq S
<1>1. CASE R = {}
  BY <1>1
<1>2. CASE \E f \in [1 .. n -> S] : R = {f[i] : i \in 1 .. n}
  BY <1>2
<1>3. QED  BY <1>1, <1>2 DEF UpTo

\* What is under way is well formed, and the only thing recorded, when a pass begins.
LEMMA InitialKept ==
  ASSUME GuideOK
  PROVE  /\ InitialStatus(guide) \in [Works -> Statuses]
         /\ \A e \in Works : IF WasUnderWay(e) THEN InitialStatus(guide)[e] \in UnderWay
                                               ELSE InitialStatus(guide)[e] = "Unknown"
<1> DEFINE I == InitialStatus(guide)
<1>1. I = [e \in Works |->
             IF WasUnderWay(e) THEN (CHOOSE r \in guide.recording : r.entry = e).status ELSE "Unknown"]
  BY DEF InitialStatus, Works, WasUnderWay
<1>2. ASSUME NEW e \in Works, WasUnderWay(e)
      PROVE  (CHOOSE r \in guide.recording : r.entry = e).status \in UnderWay
  BY <1>2 DEF WasUnderWay, GuideOK
<1> HIDE DEF I
<1>3. \A e \in Works : IF WasUnderWay(e) THEN I[e] \in UnderWay ELSE I[e] = "Unknown"
  BY <1>1, <1>2
<1>4. UnderWay \subseteq Statuses /\ "Unknown" \in Statuses
  BY DEF Statuses
<1>5. I \in [Works -> Statuses]
  BY <1>1, <1>2, <1>4
<1>6. QED  BY <1>3, <1>5 DEF I

\* The guide a pass begins with.
LEMMA InitialGuide ==
  ASSUME Init
  PROVE  /\ GuideOK /\ live \subseteq Sessions
         /\ status = InitialStatus(guide) /\ rest = Entries
<1>1. PICK start \in Timetables, pri \in Priorities, pri2 \in Priorities2, active \in RuleSets,
           openEnd \in OpenEnds :
      \E R \in UnderWaySets(start) :
        /\ guide = [start |-> start, pri |-> pri, pri2 |-> pri2, m_openEnd |-> openEnd,
                    recording |-> R,
                    rule |-> [s \in {t \in Showings : Active(active, t) # {}} |->
                                 PruneOverlaps(active, pri, s)]]
        /\ live \in LiveSets(R)
        /\ status = InitialStatus(guide) /\ rest = Entries
  BY DEF Init
<1>11. PICK R \in UnderWaySets(start) :
         /\ guide = [start |-> start, pri |-> pri, pri2 |-> pri2, m_openEnd |-> openEnd,
                     recording |-> R,
                     rule |-> [s \in {t \in Showings : Active(active, t) # {}} |->
                                  PruneOverlaps(active, pri, s)]]
         /\ live \in LiveSets(R)
         /\ status = InitialStatus(guide) /\ rest = Entries
  BY <1>1
<1> DEFINE rule == [s \in {t \in Showings : Active(active, t) # {}} |-> PruneOverlaps(active, pri, s)]
<1>2. /\ guide.start = start /\ guide.pri = pri /\ guide.pri2 = pri2 /\ guide.recording = R
      /\ guide.rule = rule
  BY <1>11
<1>3. \A s \in DOMAIN rule : rule[s] \in Rules
  BY RuleChosen
<1>4. DOMAIN rule \subseteq Showings
  OBVIOUS
<1> HIDE DEF rule
<1>5. R \subseteq [entry : AllEntries, status : Begun]
  BY UpToIn DEF UnderWaySets
<1>6. R \subseteq [entry : AllEntries, status : UnderWay]
  BY <1>5, RulesAssumption DEF UnderWay
<1>7. \A a, b \in R : a # b => Program[a.entry[1]] # Program[b.entry[1]]
  BY DEF UnderWaySets
<1>8. start \in [Showings -> Nat] /\ pri \in [Rules -> Int] /\ pri2 \in [Showings \X Inputs -> Int]
  BY GuideAssumption, RulesAssumption
<1>9. GuideOK
  BY <1>2, <1>3, <1>4, <1>6, <1>7, <1>8 DEF GuideOK
<1>10. QED  BY <1>9, <1>11 DEF LiveSets

\* The invariant holds initially.
LEMMA InitInvariant ==
  ASSUME Init
  PROVE  IInv
<1>1. GuideOK /\ live \subseteq Sessions /\ status = InitialStatus(guide) /\ rest = Entries
  BY InitialGuide
<1>2. /\ m_workList = <<>> /\ saved = status /\ phase = "sort"
      /\ level = {} /\ sublevel = {} /\ retry = {} /\ samePriority = FALSE
      /\ placing = Nothing /\ session = Nothing /\ moved = {}
      /\ m_livetvTime = SchedTime + LiveHorizon + 1
      /\ kept = {} /\ m_recList = {}
  BY DEF Init
<1>3. status \in [Works -> Statuses] /\ Entries = Works /\ rest = Works
  BY <1>1, InitialKept DEF Entries
<1>4. \A e \in Works : IF WasUnderWay(e) THEN status[e] \in UnderWay ELSE status[e] = "Unknown"
  BY <1>1, InitialKept
<1>5. \A e \in Works : /\ status[e] \notin OtherShowing /\ status[e] # "WillRecord"
                       /\ Recording(status[e]) => WasUnderWay(e)
  BY <1>4 DEF OtherShowing, UnderWay, Recording
<1>6. TypeOK
  <2>1. m_livetvTime \in Nat
    BY <1>2, TimesAssumption
  <2>2. status \in [WorkList(guide) -> Statuses] /\ saved \in [WorkList(guide) -> Statuses]
    BY <1>2, <1>3 DEF Works
  <2>3. QED  BY <1>1, <1>2, <2>1, <2>2 DEF TypeOK
<1>7. Sound(status)
  <2>1. Kept(status)
    BY <1>1, <1>3, <1>4 DEF Kept, UnderWay
  <2>2. Shown(status)
    BY <1>5, OneUnderWay DEF Shown
  <2>3. Justified(status)
    BY <1>5 DEF Justified
  <2>4. OthersMarked(status)
    BY <1>2, <1>3 DEF OthersMarked, Done
  <2>5. Ordered(status) /\ Reached(status)
    BY <1>3, <1>5 DEF Ordered, Reached
  <2>6. QED  BY <2>1, <2>2, <2>3, <2>4, <2>5 DEF Sound
<1>8. OrderState /\ MarkState
  BY <1>2, <1>3, <1>5 DEF OrderState, MarkState
<1>9. LevelState
  BY <1>2 DEF LevelState
<1>10. MoveState
  BY <1>2, <1>5 DEF MoveState, Booked, Settled
<1>11. PlanIsTrue
  BY <1>2, <1>6 DEF PlanIsTrue
<1>12. QED  BY <1>1, <1>6, <1>7, <1>8, <1>9, <1>10, <1>11 DEF IInv

\* The plan is made by the last step only.
LEMMA NotYetPlanned ==
  ASSUME TypeOK', phase' # "done"
  PROVE  PlanIsTrue'
  BY DEF PlanIsTrue

\* The types, in terms of the entries of the pass.
LEMMA Types ==
  ASSUME TypeOK
  PROVE  /\ status \in [Works -> Statuses] /\ saved \in [Works -> Statuses] /\ Entries = Works
         /\ rest \subseteq Works /\ level \subseteq Works /\ sublevel \subseteq Works
         /\ retry \subseteq Works /\ moved \subseteq Works
  BY DEF TypeOK, Works, Entries

\* The types after a step that leaves the guide and the plan alone.
LEMMA TypesNext ==
  ASSUME TypeOK, UNCHANGED <<guide, m_recList>>,
         status' \in [Works -> Statuses], saved' \in [Works -> Statuses],
         rest' \subseteq Works, level' \subseteq Works, sublevel' \subseteq Works,
         retry' \subseteq Works, moved' \subseteq Works, samePriority' \in BOOLEAN,
         placing' \in Works \cup {Nothing}, session' = Nothing \/ session' \in kept',
         live' \cup kept' \subseteq Sessions, m_livetvTime' \in Nat,
         phase' \in {"sort", "marks", "level", "sublevel", "first", "retry", "move", "live", "moveLive",
                     "done"}
  PROVE  TypeOK'
<1>1. Entries' = Works
  BY DEF Entries
<1>2. WorkList(guide)' = Works
  BY DEF Works
<1>3. QED  BY <1>1, <1>2 DEF TypeOK

\* The sort.
LEMMA SortStep ==
  ASSUME IInv, SortByPriority
  PROVE  IInv'
<1>1. /\ UNCHANGED <<guide, status, saved, rest, level, sublevel, retry, samePriority, placing,
                     session, moved, m_livetvTime, live, kept, m_recList>>
      /\ phase = "sort" /\ phase' = "marks"
  BY DEF SortByPriority
<1>2. /\ GuideOK /\ TypeOK /\ Sound(status) /\ MarkState /\ LevelState /\ MoveState
      /\ status \in [Works -> Statuses] /\ rest = Works /\ Entries = Works
  BY <1>1, Types DEF IInv, MarkState
<1>3. TypeOK'
  BY <1>1, <1>2 DEF TypeOK, Entries
<1>4. GuideOK'
  BY <1>1, <1>2, StaticGuide
<1>5. OrderState'
  BY <1>1, <1>2, SortOrders, Static DEF OrderState, Before
<1>6. MarkState'
  BY <1>1, <1>2, Static DEF MarkState
<1>7. Sound(status)'
  <2>1. Kept(status)' /\ Shown(status)' /\ Ordered(status)'
    BY <1>1, <1>2, Static DEF Sound, Kept, Shown, Ordered
  <2>2. Justified(status)'
    BY <1>1, <1>2, Static DEF Sound, Justified, HasProgram
  <2>3. OthersMarked(status)' /\ Reached(status)'
    BY <1>1, <1>2, Static DEF OthersMarked, Done, Reached
  <2>4. QED  BY <2>1, <2>2, <2>3 DEF Sound
<1>8. LevelState'
  BY <1>1, <1>2, Static DEF LevelState
<1>9. MoveState'
  BY <1>1, <1>2, Static, BookedNext DEF MoveState, Settled
<1>10. PlanIsTrue'
  BY <1>1, <1>3, NotYetPlanned
<1>11. QED  BY <1>3, <1>4, <1>5, <1>6, <1>7, <1>8, <1>9, <1>10 DEF IInv

\* What has a status has its program recorded.
LEMMA Decided ==
  ASSUME NEW st, Kept(st), Justified(st), NEW e \in Works, st[e] # "Unknown"
  PROVE  HasProgram(st, e)
<1>1. CASE Recording(st[e])
  BY <1>1 DEF HasProgram, IsSameProgram
<1>2. CASE ~Recording(st[e])
  <2>1. st[e] \in OtherShowing
    BY <1>2 DEF Kept, Statuses, Recording
  <2>2. QED  BY <2>1 DEF Justified
<1>3. QED  BY <1>1, <1>2

\* A step of the loop that marks the other showings of what is under way.
LEMMA MarkStep ==
  ASSUME IInv, MarkUnderWay
  PROVE  IInv' /\ Promised(status) \subseteq Promised(status')
<1>1. /\ UNCHANGED <<guide, m_workList>>
      /\ UNCHANGED <<saved, level, sublevel, retry, samePriority, placing, session, moved,
                     m_livetvTime, live, kept, m_recList>>
      /\ phase = "marks"
  BY DEF MarkUnderWay, fixed
<1>2. /\ GuideOK /\ TypeOK /\ OrderState /\ Sound(status) /\ MarkState /\ LevelState /\ MoveState
      /\ status \in [Works -> Statuses] /\ rest \subseteq Works /\ Entries = Works
  BY Types DEF IInv
<1>3. /\ m_workList \in [Works -> Nat] /\ GuideOK' /\ OrderState'
      /\ Works' = Works
  BY <1>1, <1>2, StaticGuide, OrderNext, Static DEF OrderState
<1>4. Kept(status) /\ Shown(status) /\ Justified(status) /\ OthersMarked(status) /\ Reached(status)
  BY <1>2 DEF Sound
<1>5. Done = Works \ rest
  BY <1>1 DEF Done
<1>6. \A e \in Works : Recording(status[e]) => status[e] \in UnderWay /\ WasUnderWay(e)
  BY <1>1, <1>2, <1>4 DEF MarkState, Recording, Kept
<1>7. CASE rest # {} /\ status[First(rest)] \in UnderWay \ {"Failing"}
  <2> DEFINE p == First(rest)
             W == MarkOtherShowings(status, p)
  <2>1. status' = W /\ rest' = rest \ {p} /\ phase' = phase
    BY <1>7 DEF MarkUnderWay
  <2>2. p \in rest /\ p \in Works /\ status[p] \in UnderWay /\ Recording(status[p])
    BY <1>2, <1>3, <1>7, FirstIn DEF Recording
  <2> HIDE DEF p, W
  <2>3. WasUnderWay(p)
    BY <1>4, <2>2 DEF Kept
  <2>4. /\ W \in [Works -> Statuses] /\ W[p] = status[p]
        /\ \A q \in Works : q # p =>
             \/ W[q] = status[q]
             \/ /\ W[q] \in OtherShowing /\ status[q] \in OtherShowing \cup {"Unknown", "WillRecord"}
                /\ IsSameProgram(q, p) /\ (IsSingle(q) => q[1] = p[1])
        /\ \A q \in Works : q # p /\ status[q] \notin UnderWay =>
             /\ q[1] = p[1] => W[q] \in OtherShowing
             /\ ~IsSingle(q) /\ IsSameProgram(q, p) => W[q] \in OtherShowing
    BY <1>2, <2>2, Marks DEF W
  <2>5. \A q \in Works : /\ status[q] \in UnderWay <=> W[q] \in UnderWay
                         /\ W[q] \in UnderWay => W[q] = status[q]
                         /\ W[q] # "WillRecord"
                         /\ Recording(W[q]) <=> Recording(status[q])
                         /\ W[q] = status[q] \/ (W[q] \in OtherShowing /\ IsSameProgram(q, p))
                         /\ W[q] = "Failing" <=> status[q] = "Failing"
    BY <1>1, <1>2, <2>4 DEF MarkState, OtherShowing, UnderWay, Recording
  <2>6. Kept(W)
    BY <1>4, <2>4, <2>5 DEF Kept
  <2>7. Shown(W)
    BY <1>4, <2>5 DEF Shown
  <2>8. \A e : HasProgram(status, e) <=> HasProgram(W, e)
    BY <2>5 DEF HasProgram
  <2>9. Justified(W)
    <3> SUFFICES ASSUME NEW q \in Works, W[q] \in OtherShowing  PROVE HasProgram(W, q)
      BY DEF Justified
    <3>1. CASE W[q] = status[q]
      BY <1>4, <2>8, <3>1 DEF Justified
    <3>2. CASE IsSameProgram(q, p)
      BY <2>2, <2>5, <3>2 DEF HasProgram, IsSameProgram
    <3>3. QED  BY <2>5, <3>1, <3>2
  <2>10. \A e : UnmarkedIn(W, e) <=> UnmarkedIn(status, e)
    BY <2>5 DEF UnmarkedIn
  <2>11. OthersMarked(W)
    BY <1>4, <2>4, <2>5, <2>10 DEF OthersMarked, Done
  <2>12. Ordered(W) /\ Reached(W)
    BY <1>4, <2>5, <2>8 DEF Ordered, Reached
  <2>13. Sound(W)
    BY <2>6, <2>7, <2>9, <2>11, <2>12 DEF Sound
  <2>14. Done' = Works \ rest'
    BY <1>1, <1>3, <2>1 DEF Done
  <2>15. ASSUME NEW e \in Done' \ Done, NEW q \in Works, e # q, IsSameProgram(e, q), ~IsSingle(q)
         PROVE  W[q] \in OtherShowing \cup UnderWay
    <3>1. e = p
      BY <1>5, <2>1, <2>14, <2>15
    <3>2. CASE status[q] \in UnderWay
      BY <2>5, <3>2
    <3>3. CASE status[q] \notin UnderWay
      BY <2>4, <2>15, <3>1, <3>3 DEF IsSameProgram
    <3>4. QED  BY <3>2, <3>3
  <2>16. ASSUME NEW e \in (Works \ rest') \ (Works \ rest)  PROVE HasProgram(W, e)
    <3>1. e = p
      BY <2>1, <2>16
    <3>2. QED  BY <2>2, <2>5, <3>1 DEF HasProgram, IsSameProgram
  <2>17. rest' \subseteq rest
    BY <2>1
  <2>18. Sound(status')
    BY <2>1, <2>13
  <2>19. Sound(status)'
    BY <1>1, <1>2, <2>1, <2>15, <2>16, <2>17, <2>18, SoundNext
  <2>20. TypeOK'
    BY <1>1, <1>2, <1>3, <2>1, <2>4, <2>17 DEF TypeOK, Entries, Works
  <2>21. MarkState'
    BY <1>1, <1>2, <2>1, <2>3, <2>5, Static DEF MarkState
  <2>22. LevelState'
    BY <1>1, <1>2, <2>1, <2>17, Static DEF LevelState
  <2>23. MoveState'
    <3>1. Booked(status', Works)
      BY <1>6, <2>1, <2>5 DEF Booked
    <3>2. QED  BY <1>1, <2>1, <1>3, <3>1, BookedNext DEF MoveState, Settled
  <2>24. PlanIsTrue'
    BY <1>1, <2>1, <2>20, NotYetPlanned
  <2>25. Promised(status) \subseteq Promised(status')
    <3>1. DOMAIN status = Works /\ DOMAIN W = Works
      BY <1>2, <2>4
    <3>2. Promised(status) \subseteq Promised(W)
      BY <2>5, <3>1 DEF Promised
    <3>3. QED  BY <2>1, <3>2
  <2>26. QED  BY <1>3, <2>19, <2>20, <2>21, <2>22, <2>23, <2>24, <2>25 DEF IInv
<1>8. CASE ~(rest # {} /\ status[First(rest)] \in UnderWay \ {"Failing"})
  <2>1. UNCHANGED <<status, rest>> /\ phase' = "level"
    BY <1>8 DEF MarkUnderWay
  <2>2. Done' = Works
    BY <1>3, <2>1 DEF Done
  <2>3. ASSUME NEW e \in Done' \ Done, Recording(status[e])  PROVE UnmarkedIn(status, e)
    <3> DEFINE p == First(rest)
    <3>1. e \in rest /\ e \in Works
      BY <1>5, <2>2, <2>3
    <3>2. p \in rest /\ p \in Works /\ m_workList[p] <= m_workList[e]
      BY <1>2, <1>3, <3>1, FirstIn
    <3> HIDE DEF p
    <3>3. p = e \/ Before(p, e)
      <4>1. m_workList[p] \in Nat /\ m_workList[e] \in Nat
        BY <1>3, <3>1, <3>2
      <4>2. m_workList[p] = m_workList[e] => p = e
        BY <1>1, <1>2, <3>1, <3>2 DEF OrderState
      <4>3. QED  BY <3>2, <4>1, <4>2 DEF Before
    <3>4. WasUnderWay(e)
      BY <1>6, <2>3, <3>1
    <3>5. WasUnderWay(p)
      BY <1>1, <1>2, <3>1, <3>2, <3>3, <3>4 DEF OrderState
    <3>6. status[p] \in UnderWay
      BY <1>4, <3>2, <3>5 DEF Kept
    <3>7. status[p] = "Failing"
      BY <1>8, <3>1, <3>6 DEF p
    <3>8. QED  BY <3>2, <3>3, <3>4, <3>7 DEF UnmarkedIn
  <2>4. Sound(status')
    BY <1>2, <2>1
  <2>5. rest' \subseteq rest /\ (Works \ rest') \ (Works \ rest) = {}
    BY <2>1
  <2>6. \A e \in Done' \ Done : Recording(status'[e]) => UnmarkedIn(status', e)
    BY <2>1, <2>3
  <2>7. Sound(status)'
    BY <1>1, <1>2, <2>4, <2>5, <2>6, SoundNext
  <2>8. TypeOK'
    BY <1>1, <1>2, <2>1 DEF TypeOK, Entries
  <2>9. MarkState' /\ PlanIsTrue'
    BY <2>1, <2>8, NotYetPlanned DEF MarkState
  <2>10. LevelState'
    BY <1>1, <1>2, <2>1, Static DEF LevelState
  <2>11. MoveState'
    BY <1>1, <1>2, <1>3, <2>1, BookedNext DEF MoveState, Settled
  <2>12. Promised(status) \subseteq Promised(status')
    BY <2>1
  <2>13. QED  BY <1>3, <2>7, <2>8, <2>9, <2>10, <2>11, <2>12 DEF IInv
<1>9. QED  BY <1>7, <1>8

\* A sublevel is a front part of the list, of one priority.
LEMMA SublevelFacts ==
  ASSUME m_workList \in [Works -> Nat], NEW S \in SUBSET Works, S # {}
  PROVE  /\ Sublevel(S) \subseteq S
         /\ \A e \in Sublevel(S) : Pri(e) = Pri(First(S))
         /\ \A f \in Sublevel(S), e \in S : Before(e, f) => e \in Sublevel(S)
<1> DEFINE same(e) == Pri(e) = Pri(First(S)) /\ Pri2(e) = Pri2(First(S))
<1>1. Sublevel(S) = {e \in S : \A f \in S : f = e \/ Before(f, e) => same(f)}
  BY DEF Sublevel
<1>2. \A e, f, g \in S : Before(e, f) /\ Before(f, g) => Before(e, g)
  BY DEF Before
<1> HIDE DEF same
<1>3. \A f \in Sublevel(S), e \in S : Before(e, f) => e \in Sublevel(S)
  BY <1>1, <1>2
<1>4. \A e \in Sublevel(S) : same(e)
  BY <1>1
<1>5. QED  BY <1>1, <1>3, <1>4 DEF same

\* A step that changes no status and drops nothing from what is to come.
LEMMA QuietSound ==
  ASSUME IInv, UNCHANGED <<guide, m_workList>>, UNCHANGED <<status, rest>>,
         phase \notin {"sort", "marks"}, phase' \notin {"sort", "marks"}
  PROVE  /\ Sound(status)' /\ GuideOK' /\ OrderState' /\ MarkState'
         /\ Works' = Works /\ Done' = Done
<1>1. GuideOK /\ OrderState /\ Sound(status)
  BY DEF IInv
<1>2. GuideOK' /\ OrderState' /\ MarkState'
  BY <1>1, StaticGuide, OrderNext DEF MarkState
<1>3. Works' = Works
  BY Static
<1>4. Done' = Done
  BY <1>3 DEF Done
<1>5. rest' \subseteq rest /\ (Works \ rest') \ (Works \ rest) = {} /\ Sound(status')
  BY <1>1
<1>6. Sound(status)'
  BY <1>1, <1>4, <1>5, SoundNext
<1>7. QED  BY <1>2, <1>3, <1>4, <1>6

\* The next sublevel begins.
LEMMA NextSublevelStep ==
  ASSUME IInv, NextSublevel
  PROVE  IInv'
<1>1. /\ UNCHANGED <<guide, m_workList>> /\ UNCHANGED <<status, rest>>
      /\ UNCHANGED <<saved, retry, samePriority, placing, session, moved, m_livetvTime, live, kept,
                     m_recList>>
      /\ phase \in {"level", "sublevel"} /\ phase' = "first" /\ rest # {}
      /\ sublevel' = Sublevel(rest)
      /\ level' = sublevel' \cup IF phase = "sublevel" THEN level ELSE {}
  BY DEF NextSublevel, fixed
<1>2. /\ GuideOK /\ TypeOK /\ OrderState /\ LevelState /\ MoveState
      /\ rest \subseteq Works /\ level \subseteq Works
  BY Types DEF IInv
<1>3. Sound(status)' /\ GuideOK' /\ OrderState' /\ MarkState' /\ Works' = Works
  BY <1>1, QuietSound
<1>4. m_workList \in [Works -> Nat]
  BY <1>1, <1>2 DEF OrderState
<1>5. /\ sublevel' \subseteq rest
      /\ \A e \in sublevel' : Pri(e) = Pri(First(rest))
      /\ \A f \in sublevel', e \in rest : Before(e, f) => e \in sublevel'
  BY <1>1, <1>2, <1>4, SublevelFacts
<1>6. sublevel' \subseteq Works /\ level' \subseteq Works /\ level' \subseteq sublevel' \cup level
  BY <1>1, <1>2, <1>5
<1>7. TypeOK'
  BY <1>1, <1>2, <1>6, Types, TypesNext DEF TypeOK
<1>8. LevelState'
  <2>1. retry' = {}
    BY <1>1, <1>2 DEF LevelState
  <2>2. ASSUME NEW f \in level', NEW e \in rest', ~WasUnderWay(f)', ~WasUnderWay(e)'
        PROVE  Pri(f)' >= Pri(e)'
    <3>1. e \in rest /\ f \in Works /\ e \in Works /\ ~WasUnderWay(f) /\ ~WasUnderWay(e)
      BY <1>1, <1>2, <1>6, <2>2, Static
    <3>2. Pri(f)' = Pri(f) /\ Pri(e)' = Pri(e) /\ Pri(f) \in Int /\ Pri(e) \in Int
      BY <1>1, <1>2, <3>1, Static, EntryFacts
    <3>3. CASE f \in level
      BY <1>2, <3>1, <3>2, <3>3 DEF LevelState
    <3>4. CASE f \in sublevel'
      <4>1. m_workList[e] \in Nat /\ m_workList[f] \in Nat /\ (m_workList[e] = m_workList[f] => e = f)
        BY <1>1, <1>2, <1>4, <3>1 DEF OrderState
      <4>2. CASE Before(e, f)
        BY <1>5, <3>1, <3>2, <3>4, <4>2
      <4>3. CASE Before(f, e)
        BY <1>1, <1>2, <3>1, <3>2, <4>3 DEF OrderState
      <4>4. CASE e = f
        BY <3>2, <4>4
      <4>5. QED  BY <4>1, <4>2, <4>3, <4>4 DEF Before
    <3>5. QED  BY <1>6, <2>2, <3>3, <3>4
  <2>3. \A f \in sublevel', e \in rest' : Before(e, f)' => e \in sublevel'
    BY <1>1, <1>5 DEF Before
  <2>4. sublevel' \subseteq level'
    BY <1>1
  <2>5. QED  BY <1>1, <2>1, <2>2, <2>3, <2>4 DEF LevelState
<1>9. MoveState'
  BY <1>1, <1>2, <1>3, BookedNext DEF MoveState, Settled
<1>10. PlanIsTrue'
  BY <1>1, <1>7, NotYetPlanned
<1>11. QED  BY <1>3, <1>7, <1>8, <1>9, <1>10 DEF IInv

\* What a placement needs: the entry has no place, and nothing more important is to come.
LEMMA NewPlacement ==
  ASSUME IInv, phase \notin {"sort", "marks"}, NEW p \in level, status[p] = "Unknown"
  PROVE  /\ p \in Works /\ ~WasUnderWay(p)
         /\ Places(status, WillRecord(status, p), p) /\ Sound(WillRecord(status, p))
<1> DEFINE W == WillRecord(status, p)
<1>1. /\ GuideOK /\ Sound(status) /\ LevelState /\ p \in Works /\ rest \subseteq Works
      /\ status \in [Works -> Statuses]
  BY Types DEF IInv
<1>2. Places(status, W, p)
  BY <1>1, PlacesNew
<1> HIDE DEF W
<1>3. ~WasUnderWay(p)
  BY <1>1 DEF Sound, Kept, UnderWay
<1>4. \A e \in Done : e # p /\ Recording(status[e]) /\ ~UnmarkedIn(status, e) /\ IsSameProgram(e, p)
        => IsSingle(p)
  BY <1>1 DEF Sound, OthersMarked, OtherShowing, UnderWay
<1>5. \A e \in rest : ~WasUnderWay(e) => Pri(p) >= Pri(e)
  BY <1>1, <1>3 DEF LevelState
<1>6. Sound(W)
  BY <1>1, <1>2, <1>3, <1>4, <1>5, PlacedSound
<1>7. QED  BY <1>1, <1>2, <1>3, <1>6 DEF W

\* SchedNewFirstPass takes the next program of the sublevel.
LEMMA FirstPassStep ==
  ASSUME IInv, FirstPass
  PROVE  IInv' /\ Promised(status) \subseteq Promised(status')
<1> DEFINE todo == {e \in rest \cap sublevel : status[e] = "Unknown"}
           first == First(todo)
           key(e) == <<Start(e), RuleOf(e), Program[e[1]]>>
           group == {e \in rest \cap sublevel : ~Before(e, first) /\ key(e) = key(first)}
           free == {e \in group : /\ status[e] = "Unknown"
                                  /\ Conflicts(status, Slot(e), e, guide.m_openEnd) = {}}
           p == Best(status, free)
<1>1. /\ UNCHANGED <<guide, m_workList>>
      /\ UNCHANGED <<saved, phase, level, sublevel, retry, samePriority, placing, session, moved, live,
                     kept, m_recList>>
      /\ phase = "first" /\ todo # {}
      /\ rest' = {e \in rest \ group : ~Before(e, first)}
      /\ IF free = {} THEN UNCHANGED <<status, m_livetvTime>>
         ELSE /\ status' = WillRecord(status, p)
              /\ m_livetvTime' = Earlier(m_livetvTime, first)
  BY DEF FirstPass, fixed
<1>2. /\ GuideOK /\ TypeOK /\ OrderState /\ Sound(status) /\ LevelState /\ MoveState
      /\ status \in [Works -> Statuses] /\ rest \subseteq Works /\ sublevel \subseteq Works
  BY Types DEF IInv
<1>3. /\ m_workList \in [Works -> Nat] /\ GuideOK' /\ OrderState' /\ Works' = Works
      /\ Booked(status, Works) /\ sublevel \subseteq level
  BY <1>1, <1>2, StaticGuide, OrderNext, Static DEF OrderState, MoveState, LevelState
<1>4. /\ first \in rest /\ first \in sublevel /\ first \in Works /\ status[first] = "Unknown"
      /\ \A e \in todo : m_workList[first] <= m_workList[e]
  <2>1. todo \subseteq Works
    BY <1>2
  <2>2. first \in todo /\ \A e \in todo : m_workList[first] <= m_workList[e]
    BY <1>1, <1>3, <2>1, FirstIn
  <2>3. QED  BY <2>1, <2>2
<1>5. free \subseteq group /\ group \subseteq rest \cap sublevel
  OBVIOUS
<1>6. \A e \in group : Program[e[1]] = Program[first[1]]
  OBVIOUS
<1>7. \A e \in rest \cap sublevel : status[e] = "Unknown" => e \in todo
  OBVIOUS
<1>8. \A e \in free : status[e] = "Unknown" /\ Conflicts(status, Slot(e), e, guide.m_openEnd) = {}
  OBVIOUS
<1>9. \A e \in group : status[e] = "Unknown" /\ e \notin free
        => Conflicts(status, Slot(e), e, guide.m_openEnd) # {}
  OBVIOUS
<1>10. rest' \subseteq rest /\ \A e \in rest : e \in rest' \/ e \in group \/ Before(e, first)
  BY <1>1
<1> HIDE DEF todo, first, group, free
<1>11. free # {} => p \in free
  <2>1. free \subseteq Works
    BY <1>2, <1>5
  <2>2. QED  BY <1>2, <1>3, <2>1, BestIn
<1> HIDE DEF p
<1>12. Done = Works /\ Done' = Works
  BY <1>1, <1>3 DEF Done
<1>13. ASSUME free # {}
       PROVE  /\ p \in level /\ p \in Works /\ ~WasUnderWay(p) /\ status[p] = "Unknown"
              /\ Places(status, status', p) /\ Sound(status')
              /\ status' \in [Works -> Statuses] /\ Recording(status'[p])
  <2>1. p \in level /\ status[p] = "Unknown" /\ status' = WillRecord(status, p)
    BY <1>1, <1>3, <1>5, <1>8, <1>11, <1>13
  <2>2. /\ p \in Works /\ ~WasUnderWay(p) /\ Places(status, status', p) /\ Sound(status')
    BY <1>1, <2>1, NewPlacement
  <2>3. QED  BY <2>1, <2>2, PlacedRecording DEF Places
<1>14. Sound(status') /\ status' \in [Works -> Statuses]
  BY <1>1, <1>2, <1>13
<1>15. \A e \in Works : HasProgram(status, e) => HasProgram(status', e)
  <2>1. CASE free = {}
    BY <1>1, <2>1
  <2>2. CASE free # {}
    BY <1>13, <2>2, PlacedRecording DEF HasProgram, IsSameProgram
  <2>3. QED  BY <2>1, <2>2
<1>16. ASSUME NEW e \in (Works \ rest') \ (Works \ rest), Unchallenged(e)
       PROVE  HasProgram(status', e)
  <2>1. e \in rest /\ e \in Works /\ (e \in group \/ Before(e, first))
    BY <1>2, <1>10, <1>16
  <2>2. CASE status[e] # "Unknown"
    <3>1. HasProgram(status, e)
      BY <1>2, <2>1, <2>2, Decided DEF Sound
    <3>2. QED  BY <1>15, <2>1, <3>1
  <2>3. CASE status[e] = "Unknown"
    <3>1. e \in group
      <4>1. SUFFICES ASSUME Before(e, first)  PROVE FALSE
        BY <2>1
      <4>2. e \in sublevel
        BY <1>1, <1>2, <1>4, <2>1, <4>1 DEF LevelState
      <4>3. m_workList[first] <= m_workList[e]
        BY <1>4, <1>7, <2>1, <2>3, <4>2
      <4>4. QED  BY <1>3, <1>4, <2>1, <4>1, <4>3 DEF Before
    <3>2. CASE free = {}
      <4>1. PICK q \in Conflicts(status, Slot(e), e, guide.m_openEnd) : TRUE
        BY <1>9, <2>3, <3>1, <3>2
      <4>2. q \in Works /\ Recording(status[q]) /\ Collides(Slot(e), Slot(q), guide.m_openEnd)
        BY <1>2, <4>1 DEF Conflicts
      <4>3. ~WasUnderWay(e)
        BY <1>2, <2>1, <2>3 DEF Sound, Kept, UnderWay
      <4>4. WasUnderWay(q) \/ Pri(q) >= Pri(e)
        <5>1. CASE status[q] \in UnderWay
          BY <1>2, <4>2, <5>1 DEF Sound, Kept
        <5>2. CASE status[q] = "WillRecord"
          BY <1>2, <2>1, <4>2, <4>3, <5>2 DEF Sound, Ordered
        <5>3. QED  BY <4>2, <5>1, <5>2 DEF Recording
      <4>5. Entries = Works
        BY <1>2 DEF Entries
      <4>6. IsSameProgram(q, e)
        BY <1>16, <4>2, <4>4, <4>5 DEF Unchallenged
      <4>7. HasProgram(status, e)
        BY <4>2, <4>6 DEF HasProgram
      <4>8. QED  BY <1>15, <2>1, <4>7
    <3>3. CASE free # {}
      <4>1. p \in group
        BY <1>5, <1>11, <3>3
      <4>2. IsSameProgram(p, e)
        BY <1>6, <3>1, <4>1 DEF IsSameProgram
      <4>3. QED  BY <1>13, <3>3, <4>2 DEF HasProgram
    <3>4. QED  BY <3>2, <3>3
  <2>4. QED  BY <2>2, <2>3
<1>17. Sound(status)'
  BY <1>1, <1>2, <1>10, <1>12, <1>14, <1>16, SoundNext
<1>18. Booked(status', Works)
  <2>1. CASE free = {}
    BY <1>1, <1>3, <2>1
  <2>2. CASE free # {}
    <3>1. ASSUME NEW q \in Works, q # p, Recording(status'[q])
          PROVE  ~Collides(Slot(p), Slot(q), "Never")
      <4>1. Recording(status[q])
        BY <1>13, <2>2, <3>1, PlacedRecording
      <4>2. ~Collides(Slot(p), Slot(q), guide.m_openEnd)
        BY <1>2, <1>8, <1>11, <2>2, <3>1, <4>1 DEF Conflicts
      <4>3. QED  BY <4>2, CollidesAnyway
    <3>2. QED  BY <1>2, <1>3, <1>13, <2>2, <3>1, PlacedBooked
  <2>3. QED  BY <2>1, <2>2
<1>19. MoveState'
  BY <1>1, <1>3, <1>18, BookedNext DEF MoveState, Settled
<1>20. m_livetvTime' \in Nat
  <2>1. m_livetvTime \in Nat /\ Start(first) \in Nat
    BY <1>2, <1>4, EntryFacts DEF TypeOK
  <2>2. QED  BY <1>1, <2>1 DEF Earlier
<1>21. TypeOK'
  BY <1>1, <1>2, <1>10, <1>14, <1>20, Types, TypesNext DEF TypeOK
<1>22. LevelState' /\ MarkState'
  BY <1>1, <1>2, <1>10, Static DEF LevelState, MarkState, Before
<1>23. PlanIsTrue'
  BY <1>1, <1>21, NotYetPlanned
<1>24. Promised(status) \subseteq Promised(status')
  <2>1. CASE free = {}
    BY <1>1, <2>1
  <2>2. CASE free # {}
    BY <1>2, <1>13, <2>2, PlacedPromised
  <2>3. QED  BY <2>1, <2>2
<1>25. QED  BY <1>3, <1>17, <1>19, <1>21, <1>22, <1>23, <1>24 DEF IInv

\* SchedNewFirstPass is through with the sublevel.
LEMMA FirstPassEndsStep ==
  ASSUME IInv, FirstPassEnds
  PROVE  IInv'
<1>1. /\ UNCHANGED <<guide, m_workList>>
      /\ UNCHANGED <<status, saved, level, sublevel, placing, session, moved, m_livetvTime, live,
                     kept, m_recList>>
      /\ phase = "first" /\ phase' = "retry" /\ samePriority' = TRUE
      /\ Unplaced(rest \cap sublevel) = {} /\ rest' = rest \ sublevel /\ retry' = Unplaced(sublevel)
  BY DEF FirstPassEnds, fixed
<1>2. /\ GuideOK /\ TypeOK /\ OrderState /\ Sound(status) /\ LevelState /\ MoveState
      /\ rest \subseteq Works /\ sublevel \subseteq Works
  BY Types DEF IInv
<1>3. /\ GuideOK' /\ OrderState' /\ Works' = Works /\ retry' \subseteq sublevel
      /\ rest' \subseteq rest /\ Sound(status')
  BY <1>1, <1>2, StaticGuide, OrderNext, Static DEF Unplaced
<1>4. Done' = Works /\ Done = Works
  BY <1>1, <1>3 DEF Done
<1>5. ASSUME NEW e \in (Works \ rest') \ (Works \ rest)  PROVE HasProgram(status', e)
  <2>1. e \in rest \cap sublevel /\ e \in Works
    BY <1>1, <1>5
  <2>2. status[e] # "Unknown"
    BY <1>1, <2>1 DEF Unplaced
  <2>3. QED  BY <1>1, <1>2, <2>1, <2>2, Decided DEF Sound
<1>6. Sound(status)'
  BY <1>1, <1>2, <1>3, <1>4, <1>5, SoundNext
<1>7. retry' \subseteq Works /\ rest' \subseteq Works
  BY <1>2, <1>3
<1>8. TypeOK'
  BY <1>1, <1>2, <1>7, Types, TypesNext DEF TypeOK
<1>9. LevelState' /\ MarkState'
  BY <1>1, <1>2, <1>3, Static DEF LevelState, MarkState
<1>10. MoveState'
  BY <1>1, <1>2, <1>3, BookedNext DEF MoveState, Settled
<1>11. PlanIsTrue'
  BY <1>1, <1>8, NotYetPlanned
<1>12. QED  BY <1>3, <1>6, <1>8, <1>9, <1>10, <1>11 DEF IInv

\* The sublevel is through with its retries.
LEMMA SublevelEndsStep ==
  ASSUME IInv, SublevelEnds
  PROVE  IInv'
<1>1. /\ UNCHANGED <<guide, m_workList>> /\ UNCHANGED <<status, rest>>
      /\ UNCHANGED <<saved, level, sublevel, placing, session, moved, m_livetvTime, live, kept,
                     m_recList>>
      /\ phase = "retry" /\ retry = {} /\ phase' \in {"retry", "sublevel"}
  BY DEF SublevelEnds, fixed
<1>2. /\ retry' \subseteq level /\ samePriority' \in BOOLEAN /\ (phase' = "sublevel" => retry' = {})
  BY <1>1 DEF SublevelEnds, Unplaced, IInv, TypeOK
<1>3. Sound(status)' /\ GuideOK' /\ OrderState' /\ MarkState' /\ Works' = Works
  BY <1>1, QuietSound
<1>4. TypeOK /\ LevelState /\ MoveState /\ level \subseteq Works
  BY Types DEF IInv
<1>5. TypeOK'
  <2>1. retry' \subseteq Works
    BY <1>2, <1>4
  <2>2. QED  BY <1>1, <1>2, <1>4, <2>1, Types, TypesNext DEF TypeOK
<1>6. LevelState'
  BY <1>1, <1>2, <1>4, Static DEF LevelState
<1>7. MoveState'
  BY <1>1, <1>3, <1>4, BookedNext DEF MoveState, Settled
<1>8. PlanIsTrue'
  BY <1>1, <1>5, NotYetPlanned
<1>9. QED  BY <1>3, <1>5, <1>6, <1>7, <1>8 DEF IInv

\* The level is through, or all levels are.
LEMMA LevelEndsStep ==
  ASSUME IInv, LevelEnds \/ LevelsEnd
  PROVE  IInv'
<1>1. /\ UNCHANGED <<guide, m_workList>> /\ UNCHANGED <<status, rest>>
      /\ UNCHANGED <<saved, level, sublevel, retry, samePriority, placing, session, moved, m_livetvTime,
                     kept, m_recList>>
      /\ phase \in {"retry", "level"} /\ phase' \in {"level", "live"}
      /\ (phase = "retry" => retry = {}) /\ (phase' = "live" => rest = {})
      /\ live' \subseteq live
  BY DEF LevelEnds, LevelsEnd, fixed
<1>2. Sound(status)' /\ GuideOK' /\ OrderState' /\ MarkState' /\ Works' = Works
  BY <1>1, QuietSound
<1>3. TypeOK /\ LevelState /\ MoveState
  BY DEF IInv
<1>4. TypeOK'
  BY <1>1, <1>3, Types, TypesNext DEF TypeOK
<1>5. LevelState'
  BY <1>1, <1>3, Static DEF LevelState
<1>6. MoveState'
  BY <1>1, <1>2, <1>3, BookedNext DEF MoveState, Settled
<1>7. PlanIsTrue'
  BY <1>1, <1>4, NotYetPlanned
<1>8. QED  BY <1>2, <1>4, <1>5, <1>6, <1>7 DEF IInv

\* SchedLiveTV tries the next session.
LEMMA RetryLiveStep ==
  ASSUME IInv, NEW d \in live, RetryLive(d)
  PROVE  IInv'
<1>1. /\ UNCHANGED <<guide, m_workList>> /\ UNCHANGED <<status, rest>>
      /\ UNCHANGED <<level, sublevel, retry, samePriority, placing, m_livetvTime, m_recList>>
      /\ phase = "live" /\ phase' = "moveLive" /\ saved' = status /\ moved' = {}
      /\ live' = live \ {d} /\ kept' = kept \cup {d} /\ session' = d
  BY DEF RetryLive, fixed
<1>2. Sound(status)' /\ GuideOK' /\ OrderState' /\ MarkState' /\ Works' = Works /\ Done' = Done
  BY <1>1, QuietSound
<1>3. TypeOK /\ LevelState /\ MoveState /\ Sound(status) /\ Booked(status, Works)
  BY <1>1 DEF IInv, MoveState
<1>4. live' \cup kept' \subseteq Sessions /\ session' \in kept'
  BY <1>1, <1>3 DEF TypeOK
<1>5. TypeOK'
  BY <1>1, <1>3, <1>4, Types, TypesNext DEF TypeOK
<1>6. LevelState'
  BY <1>1, <1>3, Static DEF LevelState
<1>7. MoveState'
  <2>1. Sound(saved') /\ Sound(status')
    BY <1>1, <1>3
  <2>2. Sound(saved)'
    BY <1>1, <1>2, <1>3, <2>1, SavedNext
  <2>3. Booked(status, Works)' /\ Booked(saved, Works)'
    BY <1>1, <1>2, <1>3, BookedNext
  <2>4. Promised(saved)' = Promised(status)'
    BY <1>1, BookedNext
  <2>5. QED  BY <1>1, <2>2, <2>3, <2>4 DEF MoveState
<1>8. PlanIsTrue'
  BY <1>1, <1>5, NotYetPlanned
<1>9. QED  BY <1>2, <1>5, <1>6, <1>7, <1>8 DEF IInv

\* The next program of retry_list is one of them.
LEMMA RetryIn ==
  ASSUME GuideOK, NEW S \in SUBSET Works, S # {}
  PROVE  (CHOOSE e \in S : \A f \in S \ {e} : Lexicographic(comp_retry(e), comp_retry(f))) \in S
<1> DEFINE k == [e \in S |-> comp_retry(e)]
<1>1. ASSUME NEW e \in S
      PROVE  /\ comp_retry(e) \in [1 .. 10 -> Int]
             /\ comp_retry(e)[8] = 0 - e[2] /\ comp_retry(e)[10] = e[1] /\ e = <<e[1], e[2]>>
             /\ e[1] \in Int /\ e[2] \in Int
  <2>1. /\ e[1] \in Int /\ e[2] \in Int /\ RuleOf(e) \in Int /\ Pri(e) \in Int /\ Pri2(e) \in Int
        /\ Start(e) \in Int /\ Program[e[1]] \in Int /\ Channel[e[1]] \in Int /\ e = <<e[1], e[2]>>
    BY EntryFacts, GuideAssumption, InputsAssumption, RulesAssumption
  <2>2. /\ Rank(IsSingle(e)) \in Int /\ Rank(~Past(e)) \in Int
        /\ 0 - Pri(e) \in Int /\ 0 - Pri2(e) \in Int /\ 0 - Start(e) \in Int
        /\ 0 - e[2] \in Int /\ 0 - Channel[e[1]] \in Int
    BY <2>1 DEF Rank
  <2>3. QED  BY <2>1, <2>2 DEF comp_retry
<1>2. k \in [S -> [1 .. 10 -> Int]] /\ \A e \in S : k[e] = comp_retry(e)
  BY <1>1
<1> HIDE DEF k
<1>3. ASSUME NEW a \in S, NEW b \in S, k[a] = k[b]  PROVE a = b
  <2>1. a[1] = b[1] /\ 0 - a[2] = 0 - b[2]
    BY <1>1, <1>2, <1>3
  <2>2. a[2] = b[2]
    BY <1>1, <2>1
  <2>3. QED  BY <1>1, <2>1, <2>2
<1>4. IsFiniteSet(S)
  BY WorksFinite, FS_Subset
<1>5. \E e \in S : \A f \in S \ {e} : Lexicographic(k[e], k[f])
  <2>1. 10 \in Nat /\ k \in [S -> [1 .. 10 -> Int]]
    BY <1>2
  <2>2. \A a, b \in S : k[a] = k[b] => a = b
    BY <1>3
  <2>3. QED  BY <1>4, <2>1, <2>2, LeastExists, Zenon
<1>6. \E e \in S : \A f \in S \ {e} : Lexicographic(comp_retry(e), comp_retry(f))
  BY <1>2, <1>5
<1>7. QED  BY <1>6

\* SchedNewRetryPass takes the next program.
LEMMA RetryStep ==
  ASSUME IInv, Retry
  PROVE  IInv'
<1> DEFINE p == CHOOSE e \in retry : \A f \in retry \ {e} : Lexicographic(comp_retry(e), comp_retry(f))
<1>1. /\ UNCHANGED <<guide, m_workList>>
      /\ UNCHANGED <<rest, level, sublevel, samePriority, session, m_livetvTime, live, kept, m_recList>>
      /\ phase = "retry" /\ retry # {} /\ retry' = retry \ {p}
      /\ IF status[p] # "Unknown" THEN UNCHANGED <<saved, status, placing, moved, phase>>
         ELSE /\ saved' = status
              /\ status' = WillRecord(status, p)
              /\ placing' = p /\ moved' = {}
              /\ phase' = "move"
  BY DEF Retry, fixed
<1>2. /\ GuideOK /\ TypeOK /\ OrderState /\ Sound(status) /\ LevelState /\ MoveState
      /\ status \in [Works -> Statuses] /\ retry \subseteq Works /\ retry \subseteq level
  BY Types DEF IInv, LevelState
<1>3. p \in retry
  BY <1>1, <1>2, RetryIn
<1> HIDE DEF p
<1>4. CASE status[p] # "Unknown"
  <2>1. UNCHANGED <<status, rest>> /\ UNCHANGED <<saved, placing, moved, phase>>
    BY <1>1, <1>4
  <2>2. Sound(status)' /\ GuideOK' /\ OrderState' /\ MarkState' /\ Works' = Works
    BY <1>1, <2>1, QuietSound
  <2>3. TypeOK'
    <3>1. retry' \subseteq Works
      BY <1>1, <1>2
    <3>2. QED  BY <1>1, <1>2, <2>1, <3>1, Types, TypesNext DEF TypeOK
  <2>4. LevelState'
    BY <1>1, <1>2, <2>1, Static DEF LevelState
  <2>5. MoveState'
    BY <1>1, <1>2, <2>1, <2>2, BookedNext DEF MoveState, Settled
  <2>6. PlanIsTrue'
    BY <1>1, <2>1, <2>3, NotYetPlanned
  <2>7. QED  BY <2>2, <2>3, <2>4, <2>5, <2>6 DEF IInv
<1>5. CASE status[p] = "Unknown"
  <2>1. /\ saved' = status /\ status' = WillRecord(status, p)
        /\ placing' = p /\ moved' = {} /\ phase' = "move"
    BY <1>1, <1>5
  <2>2. p \in Works /\ ~WasUnderWay(p) /\ Places(status, status', p) /\ Sound(status')
    BY <1>1, <1>2, <1>3, <1>5, <2>1, NewPlacement
  <2>3. status' \in [Works -> Statuses]
    BY <2>2 DEF Places
  <2>4. GuideOK' /\ OrderState' /\ MarkState' /\ Works' = Works /\ Done' = Done
    BY <1>1, <1>2, <2>1, StaticGuide, OrderNext, Static DEF MarkState, Done
  <2>5. rest' \subseteq rest /\ (Works \ rest') \ (Works \ rest) = {} /\ Done' \ Done = {}
    BY <1>1, <2>4
  <2>6. Sound(status)'
    BY <1>1, <1>2, <2>2, <2>5, SoundNext
  <2>7. TypeOK'
    <3>1. retry' \subseteq Works
      BY <1>1, <1>2
    <3>2. QED  BY <1>1, <1>2, <2>1, <2>2, <2>3, <3>1, Types, TypesNext DEF TypeOK
  <2>8. LevelState'
    BY <1>1, <1>2, <2>1, Static DEF LevelState
  <2>9. MoveState'
    <3>1. Booked(status, Works)
      BY <1>1, <1>2 DEF MoveState
    <3>2. Booked(status', Works \ {p})
      BY <2>2, <3>1, PlacedRecording DEF Booked
    <3>3. Sound(saved') /\ Booked(saved', Works)
      BY <1>2, <2>1, <3>1
    <3>4. Sound(saved)' /\ Booked(saved, Works)'
      BY <1>1, <1>2, <2>2, <2>4, <3>3, SavedNext, BookedNext
    <3>5. Promised(saved') \subseteq Promised(status')
      BY <1>2, <2>1, <2>2, PlacedPromised
    <3>6. Promised(saved)' \subseteq Promised(status)'
      BY <1>1, <3>5, BookedNext
    <3>7. placing' \in Works' /\ ~WasUnderWay(placing)' /\ moved' = {}
      BY <1>1, <2>1, <2>2, <2>4, Static DEF WasUnderWay
    <3>8. Booked(status, Works \ {placing})'
      BY <1>1, <2>1, <2>4, <3>2, BookedNext
    <3>9. QED  BY <2>1, <3>4, <3>6, <3>7, <3>8 DEF MoveState
  <2>10. PlanIsTrue'
    BY <2>1, <2>7, NotYetPlanned
  <2>11. QED  BY <2>4, <2>6, <2>7, <2>8, <2>9, <2>10 DEF IInv
<1>6. QED  BY <1>4, <1>5

\* TryAnotherShowing finds a place: what it does to the entry q and to the others.
LEMMA AnotherPlace ==
  ASSUME IInv, phase \notin {"sort", "marks"}, NEW q \in Works, Recording(status[q]), NEW same,
         NEW sessions, Substitutes(status, q, same, sessions) # {}
  PROVE  LET s == [status EXCEPT ![q] = "LaterShowing"]
             p == Best(s, Substitutes(status, q, same, sessions))
             W == WillRecord(s, p)
         IN /\ p \in Works /\ p # q /\ Places(status, W, p) /\ Sound(W)
            /\ \A r \in Works : r # p /\ Recording(W[r]) =>
                 /\ r # q /\ Recording(status[r])
                 /\ ~Collides(Slot(p), Slot(r), "Never")
<1> DEFINE C == Substitutes(status, q, same, sessions)
           s == [status EXCEPT ![q] = "LaterShowing"]
           p == Best(s, C)
           W == WillRecord(s, p)
<1>1. /\ GuideOK /\ OrderState /\ Sound(status) /\ status \in [Works -> Statuses] /\ rest \subseteq Works
      /\ m_workList \in [Works -> Nat] /\ Kept(status)
  BY Types DEF IInv, OrderState, Sound
<1>2. s \in [Works -> Statuses]
  BY <1>1 DEF Statuses, OtherShowing
<1>3. C \subseteq Works
  <2>1. C = {} \/ C = OtherShowings(s, q, same, sessions)
    BY DEF Substitutes
  <2>2. OtherShowings(s, q, same, sessions) \subseteq DOMAIN s
    BY Zenon DEF OtherShowings
  <2>3. DOMAIN s = Works
    BY <1>2
  <2>4. QED  BY <2>1, <2>2, <2>3
<1> HIDE DEF C
<1>4. p \in C
  <2>1. C # {}
    BY DEF C
  <2>2. QED  BY <1>1, <1>2, <1>3, <2>1, BestIn
<1>5. /\ p \in Works /\ p # q /\ RuleOf(p) = RuleOf(q) /\ IsSameProgram(q, p)
      /\ status[q] = "WillRecord" /\ Places(status, W, p)
      /\ \A r \in Works : r # p /\ Recording(s[r]) => ~Collides(Slot(p), Slot(r), "Never")
      /\ W[q] \in OtherShowing
  <2>1. p \in Substitutes(status, q, same, sessions)
    BY <1>4 DEF C
  <2> HIDE DEF p
  <2>2. status \in [Works -> Statuses] /\ q \in Works /\ Recording(status[q])
    BY <1>1
  <2>3. LET z == [status EXCEPT ![q] = "LaterShowing"] IN
        /\ z \in [Works -> Statuses]
        /\ p \in Works /\ p # q /\ RuleOf(p) = RuleOf(q) /\ IsSameProgram(q, p)
        /\ status[q] = "WillRecord"
        /\ Places(status, WillRecord(z, p), p)
        /\ \A r \in Works : r # p /\ Recording(z[r]) => ~Collides(Slot(p), Slot(r), "Never")
        /\ WillRecord(z, p)[q] \in OtherShowing
    BY <2>1, <2>2, PlacesOther
  <2>4. QED  BY <2>3, Zenon
<1>6. \A r \in Works : r # q => s[r] = status[r]
  BY <1>1
<1> HIDE DEF s, p, W
<1>7. ASSUME NEW r \in Works, r # p, Recording(W[r])
      PROVE  r # q /\ Recording(status[r]) /\ ~Collides(Slot(p), Slot(r), "Never")
  <2>1. r # q
    BY <1>5, <1>7 DEF Recording, OtherShowing, UnderWay
  <2>2. Recording(status[r])
    BY <1>5, <1>7, PlacedRecording
  <2>3. QED  BY <1>5, <1>6, <1>7, <2>1, <2>2
<1>8. ~WasUnderWay(p)
  BY <1>1, <1>5 DEF Places, Kept, OtherShowing, UnderWay
<1>9. ASSUME NEW e \in Done, e # p, Recording(status[e]), Recording(W[e]), ~UnmarkedIn(status, e),
             IsSameProgram(e, p), ~IsSingle(p)
      PROVE  FALSE
  <2>1. e \in Works
    BY DEF Done
  <2>2. e # q
    BY <1>7, <1>9, <2>1
  <2>3. ~IsSingle(q) /\ IsSameProgram(e, q)
    BY <1>5, <1>9 DEF IsSingle, IsSameProgram
  <2>4. status[q] \in OtherShowing \cup UnderWay
    BY <1>1, <1>9, <2>2, <2>3 DEF Sound, OthersMarked
  <2>5. QED  BY <1>5, <2>4 DEF OtherShowing, UnderWay
<1>10. \A e \in rest : ~WasUnderWay(e) => Pri(p) >= Pri(e)
  <2>1. Pri(p) = Pri(q)
    BY <1>5 DEF Pri
  <2>2. QED  BY <1>1, <1>5, <2>1 DEF Sound, Ordered
<1>11. Sound(W)
  BY <1>1, <1>5, <1>8, <1>9, <1>10, PlacedSound
<1>12. QED  BY <1>5, <1>7, <1>11 DEF s, p, W, C

\* What both loops that move recordings away leave alone, and what they keep.
LEMMA MoveFrame ==
  ASSUME IInv, MoveConflict \/ MoveForLive, Sound(status'), status' \in [Works -> Statuses],
         m_livetvTime' \in Nat, moved' \subseteq Works,
         phase' \in {"move", "moveLive", "retry", "live"},
         phase = "move" => phase' \in {"move", "retry"}, phase = "moveLive" => phase' \in {"moveLive", "live"}
  PROVE  /\ TypeOK' /\ GuideOK' /\ OrderState' /\ Sound(status)' /\ MarkState' /\ LevelState'
         /\ PlanIsTrue' /\ Works' = Works /\ (Sound(saved) => Sound(saved)')
<1>1. /\ UNCHANGED <<guide, m_workList>>
      /\ UNCHANGED <<saved, rest, level, sublevel, retry, samePriority, placing, session, live,
                     kept, m_recList>>
      /\ phase \in {"move", "moveLive"}
  BY DEF MoveConflict, MoveForLive, fixed
<1>2. /\ GuideOK /\ TypeOK /\ OrderState /\ Sound(status) /\ LevelState /\ MoveState
  BY DEF IInv
<1>3. GuideOK' /\ OrderState' /\ MarkState' /\ Works' = Works
  BY <1>1, <1>2, StaticGuide, OrderNext, Static DEF MarkState
<1>4. Done' = Works /\ Done = Works
  BY <1>1, <1>3 DEF Done
<1>5. rest' \subseteq rest /\ (Works \ rest') \ (Works \ rest) = {} /\ Done' \ Done = {}
  BY <1>1, <1>4
<1>6. Sound(status)'
  BY <1>1, <1>2, <1>5, SoundNext
<1>7. Sound(saved) => Sound(saved)'
  BY <1>1, <1>2, <1>4, SavedNext
<1>8. TypeOK'
  BY <1>1, <1>2, Types, TypesNext DEF TypeOK
<1>9. LevelState'
  BY <1>1, <1>2, Static DEF LevelState
<1>10. PlanIsTrue'
  BY <1>1, <1>8, NotYetPlanned
<1>11. QED  BY <1>3, <1>6, <1>7, <1>8, <1>9, <1>10

\* An attempt to make room for a program goes on.
LEMMA MoveConflictStep ==
  ASSUME IInv, MoveConflict
  PROVE  IInv' /\ Promised(saved) \subseteq Promised(status')
<1> DEFINE left == Remaining(Slot(placing), placing)
           q == First(left)
           C == Substitutes(status, q, samePriority, {})
           s == [status EXCEPT ![q] = "LaterShowing"]
           p == Best(s, C)
<1>1. /\ UNCHANGED <<guide, m_workList>>
      /\ UNCHANGED <<saved, rest, level, sublevel, retry, samePriority, placing, session, live,
                     kept, m_recList>>
      /\ phase = "move"
  BY DEF MoveConflict, fixed
<1>2. /\ GuideOK /\ TypeOK /\ OrderState /\ Sound(status) /\ MoveState
      /\ m_workList \in [Works -> Nat] /\ status \in [Works -> Statuses]
      /\ saved \in [Works -> Statuses] /\ moved \subseteq Works /\ m_livetvTime \in Nat
      /\ \A a, b \in Works : m_workList[a] = m_workList[b] => a = b
  BY <1>1, Types DEF IInv, OrderState, TypeOK
<1>3. /\ placing \in Works /\ ~WasUnderWay(placing)
      /\ Booked(status, Works \ {placing})
      /\ Recording(status[placing]) =>
           \A r \in Conflicts(status, Slot(placing), placing, "Never"), m \in moved : Before(m, r)
      /\ Sound(saved) /\ Booked(saved, Works) /\ Promised(saved) \subseteq Promised(status)
  BY <1>1, <1>2 DEF MoveState, Settled
<1>4. left = {r \in Conflicts(status, Slot(placing), placing, "Never") : \A m \in moved : Before(m, r)}
  BY DEF Remaining
<1>5. \A r : r \in Conflicts(status, Slot(placing), placing, "Never") <=>
        r \in Works /\ r # placing /\ Recording(status[r]) /\ Collides(Slot(placing), Slot(r), "Never")
  BY <1>2 DEF Conflicts
<1>6. left \subseteq Works
  BY <1>4, <1>5
<1> HIDE DEF left
<1>7. CASE left = {}
  <2>1. /\ phase' = "retry" /\ moved' = {} /\ status' = status
        /\ m_livetvTime' = IF status[placing] = "WillRecord"
                           THEN Earlier(m_livetvTime, placing) ELSE m_livetvTime
    BY <1>7 DEF MoveConflict, left
  <2>2. m_livetvTime' \in Nat
    <3>1. Start(placing) \in Nat
      BY <1>2, <1>3, EntryFacts
    <3>2. QED  BY <1>2, <2>1, <3>1 DEF Earlier
  <2>3. /\ TypeOK' /\ GuideOK' /\ OrderState' /\ Sound(status)' /\ MarkState' /\ LevelState'
        /\ PlanIsTrue' /\ Works' = Works
    BY <1>1, <1>2, <2>1, <2>2, MoveFrame
  <2>4. Booked(status, Works)
    <3> SUFFICES ASSUME NEW a \in Works, NEW b \in Works, a # b, Recording(status[a]),
                        Recording(status[b]), ~(WasUnderWay(a) /\ WasUnderWay(b))
                 PROVE  ~Collides(Slot(a), Slot(b), "Never")
      BY DEF Booked
    <3>1. ASSUME NEW r \in Works, r # placing, Recording(status[r]), Recording(status[placing])
          PROVE  ~Collides(Slot(placing), Slot(r), "Never")
      BY <1>3, <1>4, <1>5, <1>7, <3>1
    <3>2. CASE a = placing
      BY <3>1, <3>2
    <3>3. CASE b = placing
      BY <1>2, <1>3, <3>1, <3>3, CollidesSymmetric
    <3>4. CASE a # placing /\ b # placing
      BY <1>3, <3>4 DEF Booked
    <3>5. QED  BY <3>2, <3>3, <3>4
  <2>5. MoveState'
    BY <1>1, <2>1, <2>3, <2>4, BookedNext DEF MoveState, Settled
  <2>6. QED  BY <1>3, <2>1, <2>3, <2>5 DEF IInv
<1>8. ASSUME left # {}  PROVE /\ q \in left /\ q \in Works /\ \A r \in left : m_workList[q] <= m_workList[r]
                              /\ Recording(status[q]) /\ q # placing
                              /\ TryAnotherShowing(q, samePriority, {})
  <2>1. q \in left /\ \A r \in left : m_workList[q] <= m_workList[r]
    BY <1>2, <1>6, <1>8, FirstIn
  <2>2. TryAnotherShowing(q, samePriority, {})
    BY <1>8 DEF MoveConflict, left
  <2>3. QED  BY <1>4, <1>5, <2>1, <2>2
<1>9. CASE left # {} /\ C = {}
  <2>1. status' = saved /\ moved' = {} /\ phase' = "retry" /\ m_livetvTime' = m_livetvTime
    BY <1>1, <1>8, <1>9 DEF TryAnotherShowing
  <2>2. /\ TypeOK' /\ GuideOK' /\ OrderState' /\ Sound(status)' /\ MarkState' /\ LevelState'
        /\ PlanIsTrue' /\ Works' = Works
    BY <1>1, <1>2, <1>3, <2>1, MoveFrame
  <2>3. MoveState'
    BY <1>1, <1>3, <2>1, <2>2, BookedNext DEF MoveState, Settled
  <2>4. QED  BY <2>1, <2>2, <2>3 DEF IInv
<1>10. CASE left # {} /\ C # {}
  <2>1. /\ status' = WillRecord(s, p) /\ moved' = moved \cup {q} /\ phase' = phase
        /\ m_livetvTime' = Earlier(m_livetvTime, p)
    BY <1>8, <1>10 DEF TryAnotherShowing
  <2>2. /\ p \in Works /\ p # q /\ Places(status, status', p) /\ Sound(status')
        /\ \A r \in Works : r # p /\ Recording(status'[r]) =>
             /\ r # q /\ Recording(status[r])
             /\ ~Collides(Slot(p), Slot(r), "Never")
    BY <1>1, <1>8, <1>10, <2>1, AnotherPlace
  <2> HIDE DEF q, C, s, p
  <2>3. status' \in [Works -> Statuses] /\ moved' \subseteq Works
    BY <1>2, <1>8, <1>10, <2>1, <2>2 DEF Places
  <2>4. m_livetvTime' \in Nat
    <3>1. Start(p) \in Nat
      BY <1>2, <2>2, EntryFacts
    <3>2. QED  BY <1>2, <2>1, <3>1 DEF Earlier
  <2>5. /\ TypeOK' /\ GuideOK' /\ OrderState' /\ Sound(status)' /\ MarkState' /\ LevelState'
        /\ PlanIsTrue' /\ Works' = Works /\ Sound(saved)'
    BY <1>1, <1>3, <2>1, <2>2, <2>3, <2>4, MoveFrame
  <2>6. Booked(status', Works \ {placing})
    BY <1>2, <1>3, <2>2, PlacedBooked
  <2>7. Promised(saved) \subseteq Promised(status')
    BY <1>2, <1>3, <2>2, PlacedPromised
  <2>8. ASSUME Recording(status'[placing]), NEW r \in Works, r # placing, Recording(status'[r]),
               Collides(Slot(placing), Slot(r), "Never"), NEW m \in moved'
        PROVE  Before(m, r)
    <3>1. p # placing
      BY <2>2, <2>8
    <3>2. r # p
      BY <1>2, <1>3, <2>2, <2>8, <3>1, CollidesSymmetric
    <3>3. r # q /\ Recording(status[r]) /\ Recording(status[placing])
      BY <1>3, <2>2, <2>8, <3>1, <3>2
    <3>4. r \in left /\ \A n \in moved : Before(n, r)
      BY <1>3, <1>4, <1>5, <2>8, <3>3
    <3>5. Before(q, r)
      <4>1. m_workList[q] <= m_workList[r] /\ m_workList[q] # m_workList[r]
        BY <1>2, <1>8, <1>10, <2>8, <3>3, <3>4
      <4>2. m_workList[q] \in Nat /\ m_workList[r] \in Nat
        BY <1>2, <1>8, <1>10, <2>8
      <4>3. QED  BY <4>1, <4>2 DEF Before
    <3>6. QED  BY <2>1, <2>8, <3>4, <3>5
  <2>9. MoveState'
    <3>1. placing' \in Works' /\ ~WasUnderWay(placing)'
      BY <1>1, <1>3, <2>5 DEF WasUnderWay
    <3>2. Booked(status, Works \ {placing})'
      BY <1>1, <2>5, <2>6, BookedNext
    <3>3. ASSUME Recording(status'[placing]), NEW r \in Conflicts(status, Slot(placing), placing, "Never")',
                 NEW m \in moved'
          PROVE  Before(m, r)'
      <4>1. Slot(placing)' = Slot(placing) /\ Slot(r)' = Slot(r)
        BY <1>1 DEF Slot, Start
      <4>2. r \in Works /\ r # placing /\ Recording(status'[r]) /\ Collides(Slot(placing), Slot(r), "Never")
        BY <1>1, <2>3, <3>3, <4>1 DEF Conflicts
      <4>3. Before(m, r)
        BY <2>8, <3>3, <4>2
      <4>4. QED  BY <1>1, <4>3 DEF Before
    <3>4. Booked(saved, Works)'
      BY <1>1, <1>3, BookedNext
    <3>5. Promised(saved)' \subseteq Promised(status)'
      BY <1>1, <2>7, BookedNext
    <3>6. phase' = "move" /\ placing' = placing
      BY <1>1, <2>1
    <3>7. QED  BY <2>5, <3>1, <3>2, <3>3, <3>4, <3>5, <3>6 DEF MoveState
  <2>10. QED  BY <2>5, <2>7, <2>9 DEF IInv
<1>11. QED  BY <1>7, <1>9, <1>10

\* An attempt to make room for live TV goes on.
LEMMA MoveForLiveStep ==
  ASSUME IInv, MoveForLive
  PROVE  IInv' /\ Promised(saved) \subseteq Promised(status')
<1> DEFINE left == Remaining(session, Nothing)
           q == First(left)
           C == Substitutes(status, q, FALSE, kept)
           s == [status EXCEPT ![q] = "LaterShowing"]
           p == Best(s, C)
<1>1. /\ UNCHANGED <<guide, m_workList>>
      /\ UNCHANGED <<saved, rest, level, sublevel, retry, samePriority, placing, session, live,
                     kept, m_recList>>
      /\ phase = "moveLive"
  BY DEF MoveForLive, fixed
<1>2. /\ GuideOK /\ TypeOK /\ OrderState /\ Sound(status) /\ MoveState
      /\ m_workList \in [Works -> Nat] /\ status \in [Works -> Statuses]
      /\ saved \in [Works -> Statuses] /\ moved \subseteq Works /\ m_livetvTime \in Nat
  BY <1>1, Types DEF IInv, OrderState, TypeOK
<1>3. /\ Booked(status, Works)
      /\ Sound(saved) /\ Booked(saved, Works) /\ Promised(saved) \subseteq Promised(status)
  BY <1>1, <1>2 DEF MoveState, Settled
<1>4. \A r \in left : r \in Works /\ Recording(status[r])
  BY <1>2 DEF Remaining, Conflicts
<1> HIDE DEF left
<1>5. CASE left = {}
  <2>1. phase' = "live" /\ moved' = {} /\ status' = status /\ m_livetvTime' = m_livetvTime
    BY <1>5 DEF MoveForLive, left
  <2>2. /\ TypeOK' /\ GuideOK' /\ OrderState' /\ Sound(status)' /\ MarkState' /\ LevelState'
        /\ PlanIsTrue' /\ Works' = Works
    BY <1>1, <1>2, <2>1, MoveFrame
  <2>3. MoveState'
    BY <1>1, <1>3, <2>1, <2>2, BookedNext DEF MoveState, Settled
  <2>4. QED  BY <1>3, <2>1, <2>2, <2>3 DEF IInv
<1>6. ASSUME left # {}
      PROVE  q \in Works /\ Recording(status[q]) /\ TryAnotherShowing(q, FALSE, kept)
  <2>1. left \subseteq Works
    BY <1>4
  <2>2. q \in left
    BY <1>2, <1>6, <2>1, FirstIn
  <2>3. TryAnotherShowing(q, FALSE, kept)
    BY <1>6 DEF MoveForLive, left
  <2>4. QED  BY <1>4, <2>2, <2>3
<1>7. CASE left # {} /\ C = {}
  <2>1. status' = saved /\ moved' = {} /\ phase' = "live" /\ m_livetvTime' = m_livetvTime
    BY <1>1, <1>6, <1>7 DEF TryAnotherShowing
  <2>2. /\ TypeOK' /\ GuideOK' /\ OrderState' /\ Sound(status)' /\ MarkState' /\ LevelState'
        /\ PlanIsTrue' /\ Works' = Works
    BY <1>1, <1>2, <1>3, <2>1, MoveFrame
  <2>3. MoveState'
    BY <1>1, <1>3, <2>1, <2>2, BookedNext DEF MoveState, Settled
  <2>4. QED  BY <2>1, <2>2, <2>3 DEF IInv
<1>8. CASE left # {} /\ C # {}
  <2>1. /\ status' = WillRecord(s, p) /\ moved' = moved \cup {q} /\ phase' = phase
        /\ m_livetvTime' = Earlier(m_livetvTime, p)
    BY <1>6, <1>8 DEF TryAnotherShowing
  <2>2. /\ p \in Works /\ Places(status, status', p) /\ Sound(status')
        /\ \A r \in Works : r # p /\ Recording(status'[r]) => ~Collides(Slot(p), Slot(r), "Never")
    BY <1>1, <1>6, <1>8, <2>1, AnotherPlace
  <2> HIDE DEF q, C, s, p
  <2>3. status' \in [Works -> Statuses] /\ moved' \subseteq Works
    BY <1>2, <1>6, <1>8, <2>1, <2>2 DEF Places
  <2>4. m_livetvTime' \in Nat
    <3>1. Start(p) \in Nat
      BY <1>2, <2>2, EntryFacts
    <3>2. QED  BY <1>2, <2>1, <3>1 DEF Earlier
  <2>5. /\ TypeOK' /\ GuideOK' /\ OrderState' /\ Sound(status)' /\ MarkState' /\ LevelState'
        /\ PlanIsTrue' /\ Works' = Works /\ Sound(saved)'
    BY <1>1, <1>3, <2>1, <2>2, <2>3, <2>4, MoveFrame
  <2>6. Booked(status', Works)
    BY <1>2, <1>3, <2>2, PlacedBooked
  <2>7. Promised(saved) \subseteq Promised(status')
    BY <1>2, <1>3, <2>2, PlacedPromised
  <2>8. MoveState'
    BY <1>1, <1>3, <2>1, <2>5, <2>6, <2>7, BookedNext DEF MoveState
  <2>9. QED  BY <2>5, <2>7, <2>8 DEF IInv
<1>9. QED  BY <1>5, <1>7, <1>8

\* The order of RecStatus::Type puts what is recorded before everything else.
LEMMA Numbers ==
  ASSUME NEW s \in Statuses
  PROVE  Number(s) \in Int /\ (Number(s) < 0 <=> Recording(s))
<1>1. /\ s = "Pending" => Number(s) = -15
      /\ s = "Failing" => Number(s) = -14
      /\ s = "Tuning" => Number(s) = -10
      /\ s = "Recording" => Number(s) = -2
      /\ s = "WillRecord" => Number(s) = -1
      /\ s = "Unknown" => Number(s) = 0
      /\ s = "EarlierShowing" => Number(s) = 4
      /\ s = "LaterShowing" => Number(s) = 8
  BY DEF Number
<1>2. s \in {"Pending", "Failing", "Tuning", "Recording", "WillRecord", "Unknown", "EarlierShowing",
             "LaterShowing"}
  BY DEF Statuses, UnderWay, OtherShowing
<1>3. Recording(s) <=> s \in {"Pending", "Failing", "Tuning", "Recording", "WillRecord"}
  BY DEF Recording, UnderWay
<1>4. QED  BY <1>1, <1>2, <1>3

\* PruneRedundants makes the plan.
LEMMA PruneStep ==
  ASSUME IInv, PruneRedundants
  PROVE  IInv'
<1> DEFINE L == {f \in Works : ~Redundant(f)}
<1>1. /\ UNCHANGED <<guide, m_workList>> /\ UNCHANGED <<status, rest>>
      /\ UNCHANGED <<saved, level, sublevel, retry, samePriority, placing, session, moved, m_livetvTime,
                     live, kept>>
      /\ phase = "live" /\ phase' = "done"
  BY DEF PruneRedundants, fixed
<1>2. /\ GuideOK /\ TypeOK /\ OrderState /\ Sound(status) /\ LevelState /\ MoveState
      /\ status \in [Works -> Statuses] /\ Entries = Works /\ m_workList \in [Works -> Nat]
      /\ \A a, b \in Works : m_workList[a] = m_workList[b] => a = b
  BY <1>1, Types DEF IInv, OrderState
<1>3. Sound(status)' /\ GuideOK' /\ OrderState' /\ MarkState' /\ Works' = Works
  BY <1>1, QuietSound
<1>4. m_recList' = {Planned(e) : e \in L}
  BY <1>2 DEF PruneRedundants
<1>5. \A e \in Works : Redundant(e) <=>
        \E f \in Works \ {e} :
          /\ f[1] = e[1]
          /\ \/ Number(status[f]) < Number(status[e])
             \/ Number(status[f]) = Number(status[e]) /\ Before(f, e)
  BY <1>2 DEF Redundant
<1>6. \A e \in Works : status[e] \in Statuses /\ Number(status[e]) \in Int
  BY <1>2, Numbers
<1>7. ASSUME NEW e \in Works, Recording(status[e])  PROVE ~Redundant(e)
  <2> SUFFICES ASSUME NEW f \in Works \ {e}, f[1] = e[1]
               PROVE  Number(status[e]) < Number(status[f])
    BY <1>5, <1>6
  <2>1. ~Recording(status[f])
    BY <1>2, <1>7 DEF Sound, Shown
  <2>2. Number(status[e]) < 0 /\ ~(Number(status[f]) < 0)
    BY <1>6, <1>7, <2>1, Numbers
  <2>3. QED  BY <1>6, <2>2
<1>8. ASSUME NEW e \in L, NEW f \in L, e[1] = f[1]  PROVE e = f
  <2> SUFFICES ASSUME e # f  PROVE FALSE
    OBVIOUS
  <2>1. e \in Works /\ f \in Works /\ ~Redundant(e) /\ ~Redundant(f)
    OBVIOUS
  <2>2. ~(Number(status[f]) < Number(status[e])) /\ ~(Number(status[e]) < Number(status[f]))
    BY <1>5, <1>8, <2>1
  <2>3. Number(status[e]) = Number(status[f])
    BY <1>6, <2>1, <2>2
  <2>4. ~Before(e, f) /\ ~Before(f, e)
    BY <1>5, <1>8, <2>1, <2>3
  <2>5. m_workList[e] = m_workList[f]
    BY <1>2, <2>1, <2>4 DEF Before
  <2>6. QED  BY <1>2, <2>1, <2>5
<1> HIDE DEF L
<1>9. \A e \in L : e \in Works
  BY DEF L
<1>10. \A e \in Works : /\ Planned(e).showing = e[1]
                        /\ Planned(e).status = IF status[e] = "Unknown" THEN "Conflict" ELSE status[e]
  BY DEF Planned
<1>11. m_recList' \subseteq [showing : Showings, input : Inputs \cup {0},
                             status : Statuses \cup {"Conflict"}]
  <2>1. ASSUME NEW e \in Works
        PROVE  Planned(e) \in [showing : Showings, input : Inputs \cup {0},
                               status : Statuses \cup {"Conflict"}]
    <3>1. e[1] \in Showings /\ e[2] \in Inputs /\ status[e] \in Statuses
      BY <1>2, <1>6, EntryFacts
    <3>2. QED  BY <3>1 DEF Planned
  <2>2. QED  BY <1>4, <1>9, <2>1
<1>12. TypeOK'
  BY <1>1, <1>2, <1>11 DEF TypeOK, Entries
<1>13. Entries' = Works
  BY <1>1, <1>2 DEF Entries
<1>14. ASSUME NEW e \in Works, Recording(status[e])
       PROVE  [showing |-> e[1], status |-> status[e], input |-> e[2]] \in m_recList'
  <2>1. e \in L
    BY <1>7, <1>14 DEF L
  <2>2. status[e] # "Unknown"
    BY <1>14 DEF Recording, UnderWay
  <2>3. Planned(e) = [showing |-> e[1], status |-> status[e], input |-> e[2]]
    BY <1>14, <2>2 DEF Planned
  <2>4. QED  BY <1>4, <2>1, <2>3
<1>15. ASSUME NEW t \in Showings  PROVE Cardinality({r \in m_recList' : r.showing = t}) <= 1
  <2> DEFINE X == {r \in m_recList' : r.showing = t}
  <2>1. ASSUME NEW a \in X, NEW b \in X  PROVE a = b
    <3>1. PICK e \in L : a = Planned(e)
      BY <1>4
    <3>2. PICK f \in L : b = Planned(f)
      BY <1>4
    <3>3. e[1] = f[1]
      BY <1>9, <1>10, <3>1, <3>2
    <3>4. QED  BY <1>8, <3>1, <3>2, <3>3
  <2> HIDE DEF X
  <2>2. CASE X = {}
    BY <2>2, FS_EmptySet DEF X
  <2>3. CASE X # {}
    <3>1. PICK a \in X : TRUE
      BY <2>3
    <3>2. X = {a}
      BY <2>1, <3>1
    <3>3. Cardinality(X) = 1
      BY <3>2, FS_Singleton
    <3>4. QED  BY <3>3 DEF X
  <2>4. QED  BY <2>2, <2>3
<1>16. ASSUME NEW r \in m_recList', NEW e \in Works, r.status = "Conflict", Recording(status[e]),
              Program[r.showing] = Program[e[1]]
       PROVE  RuleType[guide.rule[r.showing]] = "Single" \/ UnmarkedIn(status, e)
  <2>1. PICK f \in L : r = Planned(f)
    BY <1>4
  <2>2. f \in Works /\ r.showing = f[1] /\ status[f] = "Unknown"
    <3>1. f \in Works /\ status[f] # "Conflict"
      BY <1>6, <1>9 DEF Statuses, UnderWay, OtherShowing
    <3>2. QED  BY <1>10, <1>16, <2>1, <3>1
  <2>3. IsSameProgram(e, f) /\ e # f
    BY <1>16, <2>2 DEF IsSameProgram, Recording, UnderWay
  <2>4. e \in Done
    BY <1>1 DEF Done
  <2>5. IsSingle(f) \/ UnmarkedIn(status, e)
    BY <1>2, <1>16, <2>2, <2>3, <2>4 DEF Sound, OthersMarked, OtherShowing, UnderWay
  <2>6. QED  BY <2>2, <2>5 DEF IsSingle, RuleOf
<1>17. \A e : UnmarkedIn(status, e) => Unmarked(e)'
  BY <1>1, <1>13 DEF UnmarkedIn, Unmarked, WasUnderWay, Before
<1>18. PlanIsTrue'
  <2>1. ASSUME NEW e \in Entries', Recording(status'[e])
        PROVE  [showing |-> e[1], status |-> status'[e], input |-> e[2]] \in m_recList'
    BY <1>1, <1>13, <1>14, <2>1
  <2>2. ASSUME NEW r \in m_recList', NEW e \in Entries', r.status = "Conflict", Recording(status'[e]),
               Program[r.showing] = Program[e[1]]
        PROVE  RuleType[guide'.rule[r.showing]] = "Single" \/ Unmarked(e)'
    BY <1>1, <1>13, <1>16, <1>17, <2>2
  <2>3. QED  BY <1>12, <1>15, <2>1, <2>2 DEF PlanIsTrue
<1>19. LevelState'
  BY <1>1, <1>2, Static DEF LevelState
<1>20. MoveState'
  BY <1>1, <1>2, <1>3, BookedNext DEF MoveState, Settled
<1>21. QED  BY <1>3, <1>12, <1>18, <1>19, <1>20 DEF IInv

\* A step that changes nothing keeps the invariant.
LEMMA Stutter ==
  ASSUME IInv, UNCHANGED vars
  PROVE  IInv'
<1>1. /\ UNCHANGED <<guide, m_workList>> /\ UNCHANGED <<status, rest>>
      /\ UNCHANGED <<saved, phase, level, sublevel, retry, samePriority, placing, session, moved,
                     m_livetvTime, live, kept, m_recList>>
  BY DEF vars
<1>2. /\ GuideOK /\ TypeOK /\ OrderState /\ Sound(status) /\ MarkState /\ LevelState /\ MoveState
      /\ PlanIsTrue
  BY DEF IInv
<1>3. GuideOK' /\ Works' = Works
  BY <1>1, <1>2, StaticGuide, Static
<1>4. OrderState' /\ MarkState' /\ LevelState'
  BY <1>1, <1>2, <1>3, OrderNext, Static DEF OrderState, MarkState, LevelState, Before
<1>5. Done' = Done
  BY <1>1, <1>3 DEF Done
<1>6. rest' \subseteq rest /\ (Works \ rest') \ (Works \ rest) = {} /\ Sound(status')
  BY <1>1, <1>2
<1>7. Sound(status)'
  BY <1>1, <1>2, <1>5, <1>6, SoundNext
<1>8. Sound(saved) => Sound(saved)'
  BY <1>1, <1>2, <1>5, <1>6, SavedNext
<1>9. TypeOK'
  BY <1>1, <1>2 DEF TypeOK, Entries
<1>10. MoveState'
  <2>1. \A r : r \in Conflicts(status, Slot(placing), placing, "Never")'
               => r \in Conflicts(status, Slot(placing), placing, "Never")
    BY <1>1 DEF Conflicts, Slot, Start
  <2>2. phase = "move" =>
          /\ placing' \in Works /\ ~WasUnderWay(placing)' /\ Booked(status, Works \ {placing})'
          /\ Recording(status'[placing']) =>
               \A r \in Conflicts(status, Slot(placing), placing, "Never")', m \in moved' : Before(m, r)'
    BY <1>1, <1>2, <1>3, <2>1, BookedNext DEF MoveState, WasUnderWay, Before
  <2>3. phase # "move" => Booked(status, Works)'
    BY <1>1, <1>2, <1>3, BookedNext DEF MoveState
  <2>4. ~Settled => /\ Sound(saved)' /\ Booked(saved, Works)'
                    /\ Promised(saved)' \subseteq Promised(status)'
    BY <1>1, <1>2, <1>3, <1>8, BookedNext DEF MoveState
  <2>5. QED  BY <1>1, <1>3, <2>2, <2>3, <2>4 DEF MoveState, Settled
<1>11. PlanIsTrue'
  BY <1>1, <1>2, <1>9 DEF PlanIsTrue, Entries, Unmarked, WasUnderWay, Before
<1>12. QED  BY <1>3, <1>4, <1>7, <1>9, <1>10, <1>11 DEF IInv

-----------------------------------------------------------------------------
(* The theorems *)

\* The invariant holds in every state of a pass: the list is sorted, what is under way is
\* left alone, every entry that is given up is given up for a recording of its program, what
\* was placed is not less important than what is to come, and an attempt to move recordings
\* loses nothing and can be undone (FillRecordList and what it calls).
THEOREM Invariant == Spec => []IInv
<1>1. Init => IInv
  BY InitInvariant
<1>2. IInv /\ [Next]_vars => IInv'
  <2> SUFFICES ASSUME IInv, [Next]_vars  PROVE IInv'
    OBVIOUS
  <2>1. CASE SortByPriority
    BY <2>1, SortStep
  <2>2. CASE MarkUnderWay
    BY <2>2, MarkStep
  <2>3. CASE NextSublevel
    BY <2>3, NextSublevelStep
  <2>4. CASE FirstPass
    BY <2>4, FirstPassStep
  <2>5. CASE FirstPassEnds
    BY <2>5, FirstPassEndsStep
  <2>6. CASE Retry
    BY <2>6, RetryStep
  <2>7. CASE MoveConflict
    BY <2>7, MoveConflictStep
  <2>8. CASE SublevelEnds
    BY <2>8, SublevelEndsStep
  <2>9. CASE LevelEnds \/ LevelsEnd
    BY <2>9, LevelEndsStep
  <2>10. ASSUME NEW d \in live, RetryLive(d)  PROVE IInv'
    BY <2>10, RetryLiveStep
  <2>11. CASE MoveForLive
    BY <2>11, MoveForLiveStep
  <2>12. CASE PruneRedundants
    BY <2>12, PruneStep
  <2>13. CASE UNCHANGED vars
    BY <2>13, Stutter
  <2>14. QED
    BY <2>1, <2>2, <2>3, <2>4, <2>5, <2>6, <2>7, <2>8, <2>9, <2>10, <2>11, <2>12, <2>13 DEF Next
<1>3. QED  BY <1>1, <1>2, PTL DEF Spec

\* No tuner is promised twice, whatever was moved for whom: recordings that share a
\* tuner and overlap are on one multiplex, and on one input only if it can record
\* several programs, unless both were under way when the pass began
\* (FindNextConflict, TryAnotherShowing, RestoreRecStatus).
THEOREM TunersBookedOnce == Spec => []NoDoubleBooking
<1>1. IInv => NoDoubleBooking
  <2> SUFFICES ASSUME IInv, Settled, NEW p \in Entries, NEW q \in Entries,
                      Recording(status[p]), Recording(status[q]),
                      p # q, ~(WasUnderWay(p) /\ WasUnderWay(q)),
                      Group[Slot(p).input] = Group[Slot(q).input],
                      Slot(p).end > Slot(q).start, Slot(q).end > Slot(p).start
               PROVE  /\ Multiplex[Slot(p).chan] = Multiplex[Slot(q).chan]
                      /\ Multiplex[Slot(p).chan] = 0 => Slot(p).chan = Slot(q).chan
                      /\ Slot(p).input = Slot(q).input => Slot(p).input \in SchedGroup
    BY DEF NoDoubleBooking
  <2>1. p \in Works /\ q \in Works /\ GuideOK /\ Booked(status, Works)
    BY Types DEF IInv, MoveState, Settled
  <2> DEFINE x == Slot(p)
             y == Slot(q)
  <2>2. ~Collides(x, y, "Never")
    BY <2>1 DEF Booked
  <2>3. x.start \in Int /\ x.end \in Int /\ y.start \in Int /\ y.end \in Int
    BY <2>1, SlotFacts
  <2>4. Group[x.input] = Group[y.input] /\ x.end > y.start /\ y.end > x.start
    OBVIOUS
  <2> HIDE DEF x, y
  <2>5. Meets(x, y) /\ x.end # y.start /\ x.start # y.end
    BY <2>3, <2>4 DEF Meets
  <2>6. MplexOk(x, y)
    BY <2>2, <2>5 DEF Collides
  <2>7. /\ Multiplex[x.chan] = Multiplex[y.chan]
        /\ Multiplex[x.chan] = 0 => x.chan = y.chan
        /\ x.input = y.input => x.input \in SchedGroup
    BY <2>6 DEF MplexOk
  <2>8. QED  BY <2>7 DEF x, y
<1>2. QED  BY <1>1, Invariant, PTL

\* No program is recorded twice, but for single recordings and what is left unmarked
\* behind a failing recording (MarkOtherShowings, SchedNewRecords).
THEOREM ProgramsRecordedOnce == Spec => []RecordedOnce
<1>1. IInv => RecordedOnce
  <2> SUFFICES ASSUME IInv, phase \notin {"sort", "marks"}, NEW p \in Entries, NEW q \in Entries,
                      p # q, Recording(status[p]), Recording(status[q]), IsSameProgram(p, q)
               PROVE  IsSingle(p) \/ IsSingle(q) \/ Unmarked(p) \/ Unmarked(q)
    BY DEF RecordedOnce
  <2>1. p \in Works /\ q \in Works /\ GuideOK /\ Sound(status) /\ Entries = Works /\ Done = Works
    BY Types DEF IInv, Done
  <2>2. \A e : UnmarkedIn(status, e) <=> Unmarked(e)
    BY <2>1 DEF UnmarkedIn, Unmarked
  <2>3. ASSUME NEW a \in Works, NEW b \in Works, a # b, Recording(status[a]), Recording(status[b]),
               IsSameProgram(a, b), ~IsSingle(b), ~Unmarked(a)
        PROVE  WasUnderWay(b)
    <3>1. status[b] \in OtherShowing \cup UnderWay
      BY <2>1, <2>2, <2>3 DEF Sound, OthersMarked
    <3>2. status[b] \in UnderWay
      BY <2>3, <3>1 DEF Recording, OtherShowing, UnderWay
    <3>3. QED  BY <2>1, <2>3, <3>2 DEF Sound, Kept
  <2>4. IsSameProgram(q, p)
    BY DEF IsSameProgram
  <2>5. SUFFICES ASSUME ~IsSingle(p), ~IsSingle(q), ~Unmarked(p), ~Unmarked(q)  PROVE FALSE
    OBVIOUS
  <2>6. WasUnderWay(p) /\ WasUnderWay(q)
    BY <2>1, <2>3, <2>4, <2>5
  <2>7. QED  BY <2>1, <2>6, TwoUnderWay
<1>2. QED  BY <1>1, Invariant, PTL

\* A program that nothing of its priority or above is in the way of is recorded
\* (SchedNewRecords).
THEOREM UnchallengedAreRecorded == Spec => []UnchallengedIsRecorded
<1>1. IInv => UnchallengedIsRecorded
  <2> SUFFICES ASSUME IInv, phase = "done", NEW e \in Entries, Unchallenged(e)
               PROVE  <<"program", Program[e[1]]>> \in Promised(status)
    BY DEF UnchallengedIsRecorded
  <2>1. /\ e \in Works /\ rest = {} /\ Sound(status) /\ DOMAIN status = Works
    BY Types DEF IInv, LevelState, Entries
  <2>2. PICK f \in Works : Recording(status[f]) /\ IsSameProgram(f, e)
    BY <2>1 DEF Sound, Reached, HasProgram
  <2>3. QED  BY <2>1, <2>2 DEF Promised, IsSameProgram
<1>2. QED  BY <1>1, Invariant, PTL

\* The plan shows every recording on its input, one line for each showing, and reports a
\* conflict only for a program that is not recorded (PruneRedundants).
THEOREM PlanAlwaysTrue == Spec => []PlanIsTrue
<1>1. IInv => PlanIsTrue
  BY DEF IInv
<1>2. QED  BY <1>1, Invariant, PTL

\* Moving recordings to make room never loses one (SchedNewRetryPass, TryAnotherShowing,
\* RestoreRecStatus).
THEOREM MovesLoseNothing == Spec => NothingLost
<1> DEFINE Q == Settled' => Promised(IF Settled THEN status ELSE saved) \subseteq Promised(status')
<1>1. IInv /\ [Next]_vars => [Q]_vars
  <2> SUFFICES ASSUME IInv, Next, Settled'
               PROVE  Promised(IF Settled THEN status ELSE saved) \subseteq Promised(status')
    OBVIOUS
  <2>1. CASE ~Settled
    <3>1. MoveConflict \/ MoveForLive
      BY <2>1 DEF Settled, Next, SortByPriority, MarkUnderWay, NextSublevel, FirstPass, FirstPassEnds,
                  Retry, SublevelEnds, LevelEnds, LevelsEnd, RetryLive, PruneRedundants
    <3>2. QED  BY <2>1, <3>1, MoveConflictStep, MoveForLiveStep
  <2>2. CASE Settled
    <3>1. SUFFICES Promised(status) \subseteq Promised(status')
      BY <2>2
    <3>2. CASE status' = status
      BY <3>2
    <3>3. CASE MarkUnderWay
      BY <3>3, MarkStep
    <3>4. CASE FirstPass
      BY <3>4, FirstPassStep
    <3>5. status' = status \/ MarkUnderWay \/ FirstPass
      BY <2>2 DEF Settled, Next, SortByPriority, NextSublevel, FirstPassEnds, MoveConflict, MoveForLive,
                  Retry, SublevelEnds, LevelEnds, LevelsEnd, RetryLive, PruneRedundants
    <3>6. QED  BY <3>2, <3>3, <3>4, <3>5
  <2>3. QED  BY <2>1, <2>2
<1>2. QED  BY <1>1, Invariant, PTL DEF Spec, NothingLost
=============================================================================

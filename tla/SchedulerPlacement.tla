------------------------- MODULE SchedulerPlacement -------------------------
(***************************************************************************)
(* One scheduling pass of mythbackend: from the work list of matching      *)
(* showings to the plan of what is recorded when and on which input        *)
(* (Scheduler::FillRecordList and what it calls, scheduler.cpp).           *)
(*                                                                         *)
(* An entry of m_workList is a showing on an input that receives its       *)
(* channel.  The list is kept as a set with the order of its sort          *)
(* (comp_priority); a loop over a part of the list visits the entries of a *)
(* set in that order, and `rest' holds those that the loop of              *)
(* SchedNewRecords has not reached.  What the guide, the rules and the     *)
(* settings say is chosen in Init and does not change during a pass.       *)
(***************************************************************************)
EXTENDS Integers, FiniteSets, FiniteSetsExt

CONSTANTS
    Showings,      \* showings of the guide, numbers
    Program,       \* Program[s]: the program (title and episode) shown, a number
    Channel,       \* Channel[s]: its channel, a number
    Multiplex,     \* Multiplex[c]: the multiplex of channel c, 0 if not known
    Inputs,        \* capture inputs, numbers: both cardid and schedorder
    Receives,      \* Receives[i]: the channels of the input's video source
    Group,         \* Group[i]: inputs with the same group share a tuner
    SchedGroup,    \* inputs that record several programs of one multiplex
    Rules,         \* recording rules, numbers
    RuleType,      \* RuleType[r]: "Single" or "All"
    Matches,       \* Matches[r]: the showings the rule matches
    Timetables,    \* functions that give the start of each showing
    Length,        \* Length[s]: how long the showing is
    RuleSets,      \* sets of rules that are not inactive
    Priorities,    \* functions that give the priority of each rule
    Priorities2,   \* functions that give the second priority of each entry: input, channel, quality ...
    OpenEnds,      \* values of the setting SchedOpenEnd
    SchedTime,     \* m_schedTime, the time of the pass
    LiveHorizon,   \* how close a recording must be for live TV to be moved away from
    Begun,         \* statuses of recordings under way when the pass begins
    MaxRecording,  \* how many there are
    Watched        \* channels and inputs that live TV may be watched on

ASSUME GuideAssumption ==
    /\ Showings \subseteq Nat /\ IsFiniteSet(Showings)
    /\ Program \in [Showings -> Nat] /\ Channel \in [Showings -> Nat]
    /\ Multiplex \in [{Channel[s] : s \in Showings} -> Nat]
    /\ Timetables \subseteq [Showings -> Nat] /\ Length \in [Showings -> Nat \ {0}]

ASSUME InputsAssumption ==
    /\ Inputs \subseteq Nat \ {0} /\ IsFiniteSet(Inputs)
    /\ SchedGroup \subseteq Inputs
    /\ DOMAIN Group = Inputs /\ DOMAIN Receives = Inputs
    /\ \A w \in Watched : w[2] \in Inputs /\ w[1] \in Receives[w[2]]

ASSUME RulesAssumption ==
    /\ Rules \subseteq Nat /\ IsFiniteSet(Rules)
    /\ RuleType \in [Rules -> {"Single", "All"}]
    /\ Matches \in [Rules -> SUBSET Showings]
    /\ RuleSets \subseteq SUBSET Rules
    /\ Priorities \subseteq [Rules -> Int] /\ Priorities2 \subseteq [Showings \X Inputs -> Int]
    /\ OpenEnds \subseteq {"Never", "DiffChannel", "Always"}
    /\ Begun \subseteq {"Pending", "Failing", "Tuning", "Recording"}

ASSUME TimesAssumption == SchedTime \in Nat /\ LiveHorizon \in Nat /\ MaxRecording \in Nat

VARIABLES
    guide,         \* what the pass is about: guide, rules, settings, what is under way
    m_workList,    \* the position of each entry in the list
    status,        \* recording status of each entry
    saved,         \* m_savedrecstatus of each entry
    phase,         \* where the pass is
    rest,          \* entries that SchedNewRecords has not reached
    level,         \* entries of this priority level that it has reached
    sublevel,      \* entries of this priority sublevel
    retry,         \* what is left of retry_list
    samePriority,  \* parameter of SchedNewRetryPass
    placing,       \* p in SchedNewRetryPass when it is an entry
    session,       \* p in SchedNewRetryPass when it is a live TV session
    moved,         \* the conflicting entries that were moved for it
    m_livetvTime,  \* the earliest recording that was placed
    live,          \* live TV sessions not yet tried
    kept,          \* live TV sessions that SchedLiveTV has tried
    m_recList      \* the plan, once the pass is over

vars == <<guide, m_workList, status, saved, phase, rest, level, sublevel, retry, samePriority,
          placing, session, moved, m_livetvTime, live, kept, m_recList>>

fixed == <<guide, m_workList>>

Nothing == <<>>

UnderWay == {"Pending", "Failing", "Tuning", "Recording"}
OtherShowing == {"EarlierShowing", "LaterShowing"}
Statuses == UnderWay \cup OtherShowing \cup {"WillRecord", "Unknown"}

\* The static function Recording of scheduler.cpp.
Recording(s) == s \in UnderWay \cup {"WillRecord"}

-----------------------------------------------------------------------------
(* Entries, their attributes and their order. *)

AllEntries == {e \in Showings \X Inputs : Channel[e[1]] \in Receives[e[2]]}

Active(active, s) == {r \in active : s \in Matches[r]}

\* PruneOverlaps leaves the entries of one of the rules that match a showing:
\* the more specific one, then the one of higher priority, then the older one.
PruneOverlaps(active, pri, s) ==
    LET precedes(a, b) ==
            IF RuleType[a] # RuleType[b] THEN RuleType[a] = "Single"
            ELSE pri[a] > pri[b] \/ (pri[a] = pri[b] /\ a < b)
    IN CHOOSE r \in Active(active, s) : \A t \in Active(active, s) \ {r} : precedes(r, t)

\* BuildWorkList copies what is under way; AddNewRecords adds the other
\* showings on every input that receives them.
WorkList(g) ==
    {e \in AllEntries : /\ e[1] \in DOMAIN g.rule
                        /\ \A r \in g.recording : r.entry[1] = e[1] => r.entry = e}

Entries == DOMAIN status
RuleOf(e) == guide.rule[e[1]]
IsSingle(e) == RuleType[RuleOf(e)] = "Single"
Pri(e) == guide.pri[RuleOf(e)]
Pri2(e) == guide.pri2[e]
Start(e) == guide.start[e[1]]
Past(e) == Start(e) < SchedTime
WasUnderWay(e) == \E r \in guide.recording : r.entry = e

\* What FindNextConflict looks at of an entry or a live TV session.
Slot(e) == [chan |-> Channel[e[1]], input |-> e[2],
            start |-> Start(e), end |-> Start(e) + Length[e[1]]]

\* The first difference of two keys decides; the comparisons of the code are
\* given by the keys they compare.
Lexicographic(a, b) ==
    \E n \in DOMAIN a : a[n] < b[n] /\ \A m \in 1 .. n - 1 : a[m] = b[m]

Rank(b) == IF b THEN 0 ELSE 1

comp_priority_Ascending(e) ==
    <<Rank(WasUnderWay(e)), Pri(e), 0 - Pri2(e), Rank(IsSingle(e)), Rank(~Past(e)),
      Start(e), RuleOf(e), Program[e[1]], e[2], Channel[e[1]], e[1]>>

comp_priority(e) ==
    <<Rank(WasUnderWay(e)), 0 - Pri(e), 0 - Pri2(e), Rank(IsSingle(e)), Rank(~Past(e)),
      Start(e), RuleOf(e), Program[e[1]], e[2], Channel[e[1]], e[1]>>

comp_retry(e) ==
    <<0 - Pri(e), 0 - Pri2(e), Rank(IsSingle(e)), Rank(~Past(e)), 0 - Start(e), RuleOf(e),
      Program[e[1]], 0 - e[2], 0 - Channel[e[1]], e[1]>>

Before(a, b) == m_workList[a] < m_workList[b]

First(S) == CHOOSE e \in S : \A f \in S : m_workList[e] <= m_workList[f]

\* The entries of S from the first one on that have its priorities.
Sublevel(S) ==
    LET same(e) == Pri(e) = Pri(First(S)) /\ Pri2(e) = Pri2(First(S))
    IN {e \in S : \A f \in S : f = e \/ Before(f, e) => same(f)}

-----------------------------------------------------------------------------
(* Conflicts. *)

MplexOk(x, y) ==
    /\ x.input # y.input \/ x.input \in SchedGroup
    /\ \/ Multiplex[x.chan] # 0 /\ Multiplex[x.chan] = Multiplex[y.chan]
       \/ Multiplex[x.chan] = 0 /\ x.chan = y.chan

\* A slip: only the input itself is looked at.
Meets_OneInput(x, y) == x.input = y.input /\ x.end >= y.start /\ x.start <= y.end

\* The two share a tuner and overlap or touch.
Meets(x, y) ==
    /\ Group[x.input] = Group[y.input]
    /\ x.end >= y.start /\ x.start <= y.end

Collides(x, y, openEnd) ==
    /\ Meets(x, y)
    /\ ~MplexOk(x, y)
    /\ (x.end = y.start \/ x.start = y.end) =>
          \/ openEnd = "Always"
          \/ openEnd = "DiffChannel" /\ x.chan # y.chan

\* The entries FindNextConflict finds in the conflict list of an input.
Conflicts(st, x, self, openEnd) ==
    {q \in DOMAIN st \ {self} : Recording(st[q]) /\ Collides(x, Slot(q), openEnd)}

\* How many recordings would share the tuner's multiplex.
Affinity(st, e) ==
    Cardinality({q \in DOMAIN st \ {e} : /\ Recording(st[q])
                                         /\ Meets(Slot(e), Slot(q))
                                         /\ MplexOk(Slot(e), Slot(q))})

\* The first entry of highest affinity.
Best(st, S) ==
    First({e \in S : \A f \in S : Affinity(st, f) <= Affinity(st, e)})

-----------------------------------------------------------------------------
(* Showings of one program. *)

IsSameProgram(a, b) == Program[a[1]] = Program[b[1]]

Mark_OnlyBefore(st, p, q) ==
    IF q = p \/ st[q] \notin OtherShowing \cup {"Unknown", "WillRecord"} THEN st[q]
    ELSE IF q[1] = p[1] THEN "LaterShowing"
    ELSE IF IsSingle(q) \/ ~IsSameProgram(q, p) THEN st[q]
    ELSE IF Start(q) < Start(p) THEN "LaterShowing" ELSE st[q]

Mark(st, p, q) ==
    IF q = p \/ st[q] \notin OtherShowing \cup {"Unknown", "WillRecord"} THEN st[q]
    ELSE IF q[1] = p[1] THEN "LaterShowing"
    ELSE IF IsSingle(q) \/ ~IsSameProgram(q, p) THEN st[q]
    ELSE IF Start(q) < Start(p) THEN "LaterShowing" ELSE "EarlierShowing"

MarkOtherShowings(st, p) == [q \in DOMAIN st |-> Mark(st, p, q)]

WillRecord(st, p) == MarkOtherShowings([st EXCEPT ![p] = "WillRecord"], p)

\* Showings that could take the place of p; `sessions' are the live TV
\* sessions to stay clear of.
OtherShowings(st, p, same, sessions) ==
    {q \in DOMAIN st \ {p} :
        /\ RuleOf(q) = RuleOf(p)
        /\ same => Pri2(q) >= Pri2(p)
        /\ st[q] \in OtherShowing \cup {"Unknown"}
        /\ \/ q[1] = p[1]
           \/ IsSameProgram(p, q) /\ ~IsSingle(p) /\ ~(Past(q) /\ ~Past(p))
        /\ Conflicts(st, Slot(q), q, "Never") = {}
        /\ \A d \in sessions : ~Collides(Slot(q), d, "Never")}

\* What TryAnotherShowing would use instead of p.
Substitutes(st, p, same, sessions) ==
    IF st[p] \in UnderWay THEN {}
    ELSE OtherShowings([st EXCEPT ![p] = "LaterShowing"], p, same, sessions)

-----------------------------------------------------------------------------
(* The pass. *)

InitialStatus(g) ==
    [e \in WorkList(g) |->
        IF \E r \in g.recording : r.entry = e
        THEN (CHOOSE r \in g.recording : r.entry = e).status ELSE "Unknown"]

\* Sets of at most n members of S.
UpTo(n, S) == {{f[i] : i \in 1 .. n} : f \in [1 .. n -> S]} \cup {{}}

\* What is under way at SchedTime, each on a tuner of its own.
UnderWaySets(start) ==
    {R \in UpTo(MaxRecording, [entry : AllEntries, status : Begun]) :
        /\ \A r \in R : LET s == r.entry[1]
                        IN start[s] <= SchedTime /\ SchedTime <= start[s] + Length[s]
        /\ \A a, b \in R : a # b => /\ Program[a.entry[1]] # Program[b.entry[1]]
                                   /\ Group[a.entry[2]] # Group[b.entry[2]]}

\* A live TV session as SchedLiveTV describes it: it goes on for a while.
Sessions == {[chan |-> w[1], input |-> w[2], start |-> SchedTime, end |-> SchedTime + LiveHorizon] :
                w \in Watched}

LiveSets(R) ==
    {L \in SUBSET Sessions :
        /\ \A d \in L, r \in R : Group[d.input] # Group[r.entry[2]]
        /\ \A a, b \in L : a # b => Group[a.input] # Group[b.input]}

Init ==
    \E start \in Timetables, pri \in Priorities, pri2 \in Priorities2,
       active \in RuleSets, openEnd \in OpenEnds :
    \E R \in UnderWaySets(start) :
       /\ \A r \in R : Active(active, r.entry[1]) # {}
       /\ \A s \in Showings : start[s] + Length[s] >= SchedTime
       /\ guide = [start |-> start, pri |-> pri, pri2 |-> pri2, m_openEnd |-> openEnd,
                   recording |-> R,
                   rule |-> [s \in {t \in Showings : Active(active, t) # {}} |->
                                PruneOverlaps(active, pri, s)]]
       /\ live \in LiveSets(R)
       /\ status = InitialStatus(guide)
       /\ rest = Entries
    /\ m_workList = <<>>
    /\ saved = status /\ phase = "sort"
    /\ level = {} /\ sublevel = {} /\ retry = {} /\ samePriority = FALSE
    /\ placing = Nothing /\ session = Nothing /\ moved = {} /\ m_livetvTime = SchedTime + LiveHorizon + 1
    /\ kept = {} /\ m_recList = {}

Earlier(t, e) == IF Start(e) < t THEN Start(e) ELSE t

\* FillRecordList sorts the list by priority.
SortByPriority ==
    LET key == [e \in Entries |-> comp_priority(e)]
    IN /\ phase = "sort"
       /\ m_workList' = [e \in Entries |-> Cardinality({f \in Entries : Lexicographic(key[f], key[e])})]
       /\ phase' = "marks"
       /\ UNCHANGED <<guide, status, saved, rest, level, sublevel, retry, samePriority, placing,
                      session, moved, m_livetvTime, live, kept, m_recList>>

\* SchedNewRecords first marks the other showings of what is under way, but
\* the loop ends at a recording that is failing.
MarkUnderWay ==
    /\ phase = "marks"
    /\ IF rest # {} /\ status[First(rest)] \in UnderWay \ {"Failing"}
       THEN /\ status' = MarkOtherShowings(status, First(rest))
            /\ rest' = rest \ {First(rest)}
            /\ UNCHANGED phase
       ELSE phase' = "level" /\ UNCHANGED <<status, rest>>
    /\ UNCHANGED <<fixed, saved, level, sublevel, retry, samePriority, placing, session, moved,
                   m_livetvTime, live, kept, m_recList>>

NextSublevel ==
    /\ phase \in {"level", "sublevel"} /\ rest # {}
    /\ sublevel' = Sublevel(rest)
    /\ level' = sublevel' \cup IF phase = "sublevel" THEN level ELSE {}
    /\ phase' = "first"
    /\ UNCHANGED <<fixed, status, saved, rest, retry, samePriority, placing, session, moved,
                   m_livetvTime, live, kept, m_recList>>

\* SchedNewFirstPass: the next program of the sublevel, at its time, is placed
\* on the best input that is free.
FirstPass ==
    LET todo == {e \in rest \cap sublevel : status[e] = "Unknown"}
        first == First(todo)
        key(e) == <<Start(e), RuleOf(e), Program[e[1]]>>
        group == {e \in rest \cap sublevel : ~Before(e, first) /\ key(e) = key(first)}
        free == {e \in group : /\ status[e] = "Unknown"
                               /\ Conflicts(status, Slot(e), e, guide.m_openEnd) = {}}
    IN /\ phase = "first"
       /\ todo # {}
       /\ rest' = {e \in rest \ group : ~Before(e, first)}
       /\ IF free = {} THEN UNCHANGED <<status, m_livetvTime>>
          ELSE /\ status' = WillRecord(status, Best(status, free))
               /\ m_livetvTime' = Earlier(m_livetvTime, first)
       /\ UNCHANGED <<fixed, saved, phase, level, sublevel, retry, samePriority, placing,
                      session, moved, live, kept, m_recList>>

Unplaced(S) == {e \in S : status[e] = "Unknown"}

FirstPassEnds ==
    /\ phase = "first"
    /\ Unplaced(rest \cap sublevel) = {}
    /\ rest' = rest \ sublevel
    /\ retry' = Unplaced(sublevel) /\ samePriority' = TRUE
    /\ phase' = "retry"
    /\ UNCHANGED <<fixed, status, saved, level, sublevel, placing, session, moved, m_livetvTime, live,
                   kept, m_recList>>

\* SchedNewRetryPass: place the next program of retry_list as if its conflicts
\* could be moved away.
Retry ==
    LET p == CHOOSE e \in retry : \A f \in retry \ {e} : Lexicographic(comp_retry(e), comp_retry(f))
    IN /\ phase = "retry" /\ retry # {}
       /\ retry' = retry \ {p}
       /\ IF status[p] # "Unknown" THEN UNCHANGED <<saved, status, placing, moved, phase>>
          ELSE /\ saved' = status
               /\ status' = WillRecord(status, p)
               /\ placing' = p /\ moved' = {}
               /\ phase' = "move"
       /\ UNCHANGED <<fixed, rest, level, sublevel, samePriority, session, m_livetvTime, live, kept,
                      m_recList>>

\* The conflicts the loop has not come to; it goes through the list once.
Remaining(x, self) ==
    {q \in Conflicts(status, x, self, "Never") : \A m \in moved : Before(m, q)}

TryAnotherShowing_NoRestore(q, same, sessions) ==
    LET choices == Substitutes(status, q, same, sessions)
        without == [status EXCEPT ![q] = "LaterShowing"]
        best == Best(without, choices)
    IN IF choices = {}
       THEN /\ status' = without /\ moved' = {}
            /\ phase' = IF phase = "move" THEN "retry" ELSE "live"
            /\ UNCHANGED m_livetvTime
       ELSE /\ status' = WillRecord(without, best)
            /\ moved' = moved \cup {q}
            /\ m_livetvTime' = Earlier(m_livetvTime, best)
            /\ UNCHANGED phase

\* Move the next conflict away, or give up and restore all that was moved.
TryAnotherShowing(q, same, sessions) ==
    LET choices == Substitutes(status, q, same, sessions)
        without == [status EXCEPT ![q] = "LaterShowing"]
        best == Best(without, choices)
    IN IF choices = {}
       THEN /\ status' = saved /\ moved' = {}
            /\ phase' = IF phase = "move" THEN "retry" ELSE "live"
            /\ UNCHANGED m_livetvTime
       ELSE /\ status' = WillRecord(without, best)
            /\ moved' = moved \cup {q}
            /\ m_livetvTime' = Earlier(m_livetvTime, best)
            /\ UNCHANGED phase

MoveConflict ==
    /\ phase = "move"
    /\ LET left == Remaining(Slot(placing), placing)
       IN IF left # {} THEN TryAnotherShowing(First(left), samePriority, {})
          ELSE /\ phase' = "retry" /\ moved' = {}
               /\ m_livetvTime' = IF status[placing] = "WillRecord"
                                  THEN Earlier(m_livetvTime, placing) ELSE m_livetvTime
               /\ UNCHANGED status
    /\ UNCHANGED <<fixed, saved, rest, level, sublevel, retry, samePriority, placing, session, live,
                   kept, m_recList>>

\* After the sublevel, the next one of the level, or all of the level again with
\* showings of lower priority allowed.
SublevelEnds ==
    /\ phase = "retry" /\ retry = {} /\ samePriority
    /\ IF rest # {} /\ Pri(First(rest)) = Pri(First(level))
       THEN phase' = "sublevel" /\ UNCHANGED <<retry, samePriority>>
       ELSE /\ retry' = Unplaced(level) /\ samePriority' = FALSE
            /\ UNCHANGED phase
    /\ UNCHANGED <<fixed, status, saved, rest, level, sublevel, placing, session, moved, m_livetvTime,
                   live, kept, m_recList>>

LevelEnds ==
    /\ phase = "retry" /\ retry = {} /\ ~samePriority
    /\ phase' = "level"
    /\ UNCHANGED <<fixed, status, saved, rest, level, sublevel, retry, samePriority, placing,
                   session, moved, m_livetvTime, live, kept, m_recList>>

\* SchedLiveTV is called when all is placed; it has nothing to do when no
\* recording begins soon.
LevelsEnd ==
    /\ phase = "level" /\ rest = {}
    /\ phase' = "live"
    /\ live' = IF m_livetvTime - SchedTime > LiveHorizon THEN {} ELSE live
    /\ UNCHANGED <<fixed, status, saved, rest, level, sublevel, retry, samePriority, placing,
                   session, moved, m_livetvTime, kept, m_recList>>

\* The sessions differ in what they show only, which decides their order.
RetryLive(d) ==
    /\ phase = "live"
    /\ saved' = status
    /\ live' = live \ {d} /\ kept' = kept \cup {d}
    /\ session' = d /\ moved' = {}
    /\ phase' = "moveLive"
    /\ UNCHANGED <<fixed, status, rest, level, sublevel, retry, samePriority, placing,
                   m_livetvTime, m_recList>>

MoveForLive ==
    /\ phase = "moveLive"
    /\ LET left == Remaining(session, Nothing)
       IN IF left # {} THEN TryAnotherShowing(First(left), FALSE, kept)
          ELSE phase' = "live" /\ moved' = {} /\ UNCHANGED <<status, m_livetvTime>>
    /\ UNCHANGED <<fixed, saved, rest, level, sublevel, retry, samePriority, placing, session, live,
                   kept, m_recList>>

\* The numbers of enum RecStatus::Type.
Number(s) ==
    CASE s = "Pending" -> -15 [] s = "Failing" -> -14 [] s = "Tuning" -> -10
      [] s = "Recording" -> -2 [] s = "WillRecord" -> -1 [] s = "Unknown" -> 0
      [] s = "EarlierShowing" -> 4 [] s = "LaterShowing" -> 8

Redundant_Last(e) ==
    \E f \in Entries \ {e} :
        /\ f[1] = e[1]
        /\ \/ Number(status[f]) > Number(status[e])
           \/ Number(status[f]) = Number(status[e]) /\ Before(f, e)

\* PruneRedundants leaves one entry of each showing, the first in the order of
\* comp_redundant, and says what is in conflict.
Redundant(e) ==
    \E f \in Entries \ {e} :
        /\ f[1] = e[1]
        /\ \/ Number(status[f]) < Number(status[e])
           \/ Number(status[f]) = Number(status[e]) /\ Before(f, e)

Planned(e) ==
    [showing |-> e[1],
     status |-> IF status[e] = "Unknown" THEN "Conflict" ELSE status[e],
     input |-> IF Recording(status[e]) THEN e[2] ELSE 0]

PruneRedundants ==
    /\ phase = "live" /\ live = {}
    /\ m_recList' = {Planned(e) : e \in {f \in Entries : ~Redundant(f)}}
    /\ phase' = "done"
    /\ UNCHANGED <<fixed, status, saved, rest, level, sublevel, retry, samePriority, placing,
                   session, moved, m_livetvTime, live, kept>>

Next ==
    \/ SortByPriority \/ MarkUnderWay \/ NextSublevel \/ FirstPass \/ FirstPassEnds
    \/ Retry \/ MoveConflict \/ SublevelEnds \/ LevelEnds \/ LevelsEnd
    \/ (\E d \in live : RetryLive(d)) \/ MoveForLive \/ PruneRedundants

Spec == Init /\ [][Next]_vars

-----------------------------------------------------------------------------
(* Properties. *)

TypeOK ==
    /\ status \in [WorkList(guide) -> Statuses] /\ saved \in [WorkList(guide) -> Statuses]
    /\ rest \subseteq Entries /\ level \subseteq Entries /\ sublevel \subseteq Entries
    /\ retry \subseteq Entries /\ moved \subseteq Entries /\ samePriority \in BOOLEAN
    /\ placing \in Entries \cup {Nothing} /\ (session = Nothing \/ session \in kept)
    /\ live \cup kept \subseteq Sessions /\ m_livetvTime \in Nat
    /\ phase \in {"sort", "marks", "level", "sublevel", "first", "retry", "move", "live", "moveLive",
                  "done"}
    /\ m_recList \subseteq [showing : Showings, input : Inputs \cup {0},
                            status : Statuses \cup {"Conflict"}]

\* No attempt to move conflicts away is under way.
Settled == phase \notin {"move", "moveLive"}

\* No tuner is promised twice, whatever was moved for whom: recordings that
\* share a tuner and overlap are on one multiplex, and on one input only if it
\* can record several programs, unless both were under way when the pass began
\* (FindNextConflict, TryAnotherShowing, RestoreRecStatus).
NoDoubleBooking ==
    Settled => \A p, q \in {e \in Entries : Recording(status[e])} :
        LET x == Slot(p) y == Slot(q)
        IN p # q /\ ~(WasUnderWay(p) /\ WasUnderWay(q)) /\ Group[x.input] = Group[y.input]
           /\ x.end > y.start /\ y.end > x.start
           => /\ Multiplex[x.chan] = Multiplex[y.chan]
              /\ Multiplex[x.chan] = 0 => x.chan = y.chan
              /\ x.input = y.input => x.input \in SchedGroup

\* A recording under way whose other showings SchedNewRecords does not mark:
\* it is failing, or it stands behind one that is.
Unmarked(e) ==
    /\ WasUnderWay(e)
    /\ \E f \in Entries : status[f] = "Failing" /\ (f = e \/ Before(f, e))

\* No program is recorded twice, but for single recordings, which are recorded
\* as asked for (MarkOtherShowings).
RecordedOnce ==
    Settled /\ phase \notin {"sort", "marks"} => \A p, q \in Entries :
        p # q /\ Recording(status[p]) /\ Recording(status[q]) /\ IsSameProgram(p, q)
            => IsSingle(p) \/ IsSingle(q) \/ Unmarked(p) \/ Unmarked(q)

\* What is going to be recorded: programs, and the showings of single recordings.
Promised(st) ==
    {<<"program", Program[e[1]]>> : e \in {f \in DOMAIN st : Recording(st[f])}}
    \cup {<<"showing", e[1]>> : e \in {f \in DOMAIN st : Recording(st[f]) /\ IsSingle(f)}}

\* Moving recordings to make room never loses one: what was going to be recorded
\* before an attempt is after it, at another time or on another input
\* (SchedNewRetryPass, TryAnotherShowing, RestoreRecStatus).
NothingLost ==
    [][Settled' => Promised(IF Settled THEN status ELSE saved) \subseteq Promised(status')]_vars

\* Nothing of the entry's priority or above, and nothing under way, is in its way.
Unchallenged(e) ==
    \A q \in Entries :
        (WasUnderWay(q) \/ Pri(q) >= Pri(e)) /\ ~IsSameProgram(q, e)
            => ~Collides(Slot(e), Slot(q), guide.m_openEnd)

\* A program is recorded if at one of its showings nothing of its priority or
\* above, and nothing under way, is in the way: what is less important cannot
\* take its place, whatever is moved (SchedNewRecords).
UnchallengedIsRecorded ==
    phase = "done" => \A e \in Entries :
        Unchallenged(e) => <<"program", Program[e[1]]>> \in Promised(status)

\* The plan shows every recording on its input, and reports a conflict only for
\* a program that is not recorded (PruneRedundants, comp_redundant).
PlanIsTrue ==
    /\ TypeOK
    /\ phase = "done" =>
        /\ \A e \in Entries : Recording(status[e]) =>
              [showing |-> e[1], status |-> status[e], input |-> e[2]] \in m_recList
        /\ \A s \in Showings : Cardinality({r \in m_recList : r.showing = s}) <= 1
        /\ \A r \in m_recList, e \in Entries :
              r.status = "Conflict" /\ Recording(status[e]) /\ Program[r.showing] = Program[e[1]]
                  => RuleType[guide.rule[r.showing]] = "Single" \/ Unmarked(e)

=============================================================================

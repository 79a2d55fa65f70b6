-------------------------- MODULE ChoresTickProofs --------------------------
(***************************************************************************)
(* Proofs about the slots of a scheduled chore, for every calendar, every  *)
(* schedule and every run of the clock.                                    *)
(*                                                                         *)
(* First the search: next_after jumps over days and hours, and what it     *)
(* jumps over holds no slot.  The recursive functions of CronSchedule are  *)
(* shown to be the functions that name the first match and the matches of  *)
(* a window: these satisfy the same equation, and where two solutions of   *)
(* it differed they would also differ later, so not at the last place.     *)
(*                                                                         *)
(* Then the slots. TickInv: what a pass is still to act on, a runner       *)
(* carries or a record retains is in no record a run of it would repeat.   *)
(* SlotInv: a slot the window has passed is answered, reported, or behind  *)
(* a MISSED record; it does not need the runners to be quick.              *)
(***************************************************************************)
EXTENDS ChoresTick, SequenceTheorems, FiniteSetTheorems, WellFoundedInduction, TLAPS

-----------------------------------------------------------------------------
(* Least and greatest elements of bounded sets of integers.                *)

(* A set of subsets of a finite set has a smallest one.                    *)
LEMMA SmallestSet ==
  ASSUME NEW S, IsFiniteSet(S), NEW Some, Some \subseteq SUBSET S, Some # {}
  PROVE  \E T \in Some : \A U \in Some : U \subseteq T => U = T
<1>1. PICK T \in Some : \A U \in Some : <<U, T>> \notin StrictSubsetOrdering(S)
  <2>1. IsWellFoundedOn(StrictSubsetOrdering(S), SUBSET S)
    BY FS_StrictSubsetOrderingWellFounded, FS_FiniteSubsetsOfFinite, Zenon
  <2> QED
    BY <2>1, WFMin, Zenon
<1>2. ASSUME NEW U \in Some, U \subseteq T, U # T PROVE FALSE
  <2>1. <<U, T>> \in (SUBSET S) \X (SUBSET S)
    BY <1>1
  <2> QED
    BY <1>1, <1>2, <2>1 DEF StrictSubsetOrdering
<1> QED
  BY <1>1, <1>2

(* A bounded set of integers that is not empty has a greatest element.     *)
LEMMA Greatest ==
  ASSUME NEW a \in Int, NEW b \in Int, NEW T, T \subseteq a .. b, T # {}
  PROVE  \E y \in T : \A x \in T : x <= y
<1> DEFINE From(y) == {x \in T : x >= y}
           Some == {From(y) : y \in T}
<1>1. IsFiniteSet(a .. b) /\ Some \subseteq SUBSET (a .. b) /\ Some # {}
  BY FS_Interval
<1>2. \E U \in Some : \A V \in Some : V \subseteq U => V = U
  <2> DEFINE S == a .. b
  <2>1. IsFiniteSet(S) /\ Some \subseteq SUBSET S /\ Some # {}
    BY <1>1
  <2> HIDE DEF Some, S
  <2> QED
    BY <2>1, SmallestSet, SMT
<1>3. PICK y \in T : \A V \in Some : V \subseteq From(y) => V = From(y)
  BY <1>2
<1>4. ASSUME NEW x \in T, ~(x <= y) PROVE FALSE
  <2>1. x \in Int /\ y \in Int
    OBVIOUS
  <2>2. From(x) \subseteq From(y)
    <3>1. ASSUME NEW z \in From(x) PROVE z \in From(y)
      <4>1. z \in T /\ z \in Int /\ z >= x
        BY <3>1
      <4> QED
        BY <1>4, <2>1, <4>1
    <3> HIDE DEF From
    <3> QED
      BY <3>1
  <2>3. y \in From(y) /\ y \notin From(x)
    BY <1>4, <2>1
  <2>4. From(x) \in Some
    OBVIOUS
  <2>5. From(x) = From(y)
    <3> HIDE DEF Some, From
    <3> QED
      BY <1>3, <2>2, <2>4
  <2> QED
    BY <2>3, <2>5
<1> QED
  BY <1>4

(* And a least one.                                                        *)
LEMMA Least ==
  ASSUME NEW a \in Int, NEW b \in Int, NEW T, T \subseteq a .. b, T # {}
  PROVE  \E y \in T : \A x \in T : y <= x
<1> DEFINE N == {x \in (-b) .. (-a) : -x \in T}
<1>1. \A y \in T : -y \in N /\ -(-y) = y
  OBVIOUS
<1>2. N \subseteq (-b) .. (-a) /\ -b \in Int /\ -a \in Int
  OBVIOUS
<1>3. N # {}
  <2> HIDE DEF N
  <2> QED
    BY <1>1
<1>4. PICK n \in N : \A m \in N : m <= n
  <2> HIDE DEF N
  <2>1. \E n \in N : \A m \in N : m <= n
    BY <1>2, <1>3, Greatest
  <2> QED
    BY <2>1
<1>5. \A x \in T : -n <= x
  BY <1>1, <1>4
<1>6. -n \in T
  OBVIOUS
<1> QED
  BY <1>5, <1>6

-----------------------------------------------------------------------------
(* The search for the next slot.                                           *)

(* The minutes up to the end of the unit of M minutes that holds c are in  *)
(* the same unit.                                                          *)
LEMMA SameUnit ==
  ASSUME NEW M \in Nat \ {0}, NEW c \in Nat
  PROVE  /\ (c \div M + 1) * M \in (c + 1) .. (c + M)
         /\ \A x \in c .. ((c \div M + 1) * M - 1) : x \div M = c \div M
  OBVIOUS

(* Where the search goes from a minute that is no slot.                    *)
Jump(s, c) ==
  IF Month(c) \notin s.months \/ ~DayMatches(s, c) THEN NextDay(c)
  ELSE IF Hour(c) \notin s.hours THEN NextHour(c)
  ELSE c + 1

DayLength == HourSize * DaySize

(* A jump goes forward, by a day at most, and over no slot.                *)
LEMMA JumpsOverNothing ==
  ASSUME NEW s, NEW c \in Nat, ~Matches(s, c)
  PROVE  /\ Jump(s, c) \in (c + 1) .. (c + DayLength)
         /\ \A x \in c .. (Jump(s, c) - 1) : ~Matches(s, x)
<1>1. HourSize \in Nat \ {0} /\ DaySize \in Nat \ {0}
  BY CalendarAssumption
<1>2. DayLength \in Nat \ {0} /\ HourSize <= DayLength
  BY <1>1 DEF DayLength
<1>3. CASE Month(c) \notin s.months \/ ~DayMatches(s, c)
  <2>1. Jump(s, c) = (c \div DayLength + 1) * DayLength
    <3>1. Jump(s, c) = (c \div DayLength + 1) * HourSize * DaySize
      BY <1>3 DEF Jump, NextDay, Day, DayLength
    <3>2. c \div DayLength + 1 \in Nat
      BY <1>2
    <3> QED
      BY <1>1, <3>1, <3>2 DEF DayLength
  <2>2. \A x \in c .. (Jump(s, c) - 1) : Day(x) = Day(c)
    BY <1>2, <2>1, SameUnit DEF Day, DayLength
  <2>3. \A x \in c .. (Jump(s, c) - 1) : ~Matches(s, x)
    BY <1>3, <2>2 DEF Matches, Month, DayMatches
  <2> QED
    BY <1>2, <2>1, <2>3, SameUnit
<1>4. CASE ~(Month(c) \notin s.months \/ ~DayMatches(s, c)) /\ Hour(c) \notin s.hours
  <2>1. Jump(s, c) = (c \div HourSize + 1) * HourSize
    BY <1>4 DEF Jump, NextHour
  <2>2. \A x \in c .. (Jump(s, c) - 1) : Hour(x) = Hour(c)
    BY <1>1, <2>1, SameUnit DEF Hour
  <2>3. \A x \in c .. (Jump(s, c) - 1) : ~Matches(s, x)
    BY <1>4, <2>2 DEF Matches
  <2>4. Jump(s, c) \in (c + 1) .. (c + HourSize)
    BY <1>1, <2>1, SameUnit
  <2> QED
    BY <1>1, <1>2, <2>3, <2>4
<1>5. CASE ~(Month(c) \notin s.months \/ ~DayMatches(s, c)) /\ Hour(c) \in s.hours
  <2>1. Jump(s, c) = c + 1
    BY <1>5 DEF Jump
  <2>2. \A x \in c .. (Jump(s, c) - 1) : x = c
    BY <2>1
  <2> QED
    BY <1>2, <2>1, <2>2
<1> QED
  BY <1>3, <1>4, <1>5

(* The slots before `end', and the first of them.                          *)
Found(s, c, end) == {x \in c .. (end - 1) : Matches(s, x)}

FirstFound(s, c, end) ==
  IF Found(s, c, end) = {} THEN end
  ELSE CHOOSE x \in Found(s, c, end) : \A y \in Found(s, c, end) : x <= y

(* The first slot is one, and no slot is before it.                        *)
LEMMA FirstIsFirst ==
  ASSUME NEW s, NEW c \in Nat, NEW end \in Nat, Found(s, c, end) # {}
  PROVE  /\ FirstFound(s, c, end) \in Found(s, c, end)
         /\ \A y \in Found(s, c, end) : FirstFound(s, c, end) <= y
<1> DEFINE T == Found(s, c, end)
<1>1. T \subseteq c .. (end - 1) /\ T # {} /\ end - 1 \in Int /\ c \in Int
  BY DEF Found
<1> HIDE DEF T
<1>2. \E x \in T : \A y \in T : x <= y
  BY <1>1, Least
<1>3. FirstFound(s, c, end) = CHOOSE x \in T : \A y \in T : x <= y
  BY <1>1 DEF FirstFound, T
<1>4. FirstFound(s, c, end) \in T /\ \A y \in T : FirstFound(s, c, end) <= y
  BY <1>2, <1>3
<1> QED
  BY <1>4 DEF T

(* A slot is the first one from where it is.                               *)
LEMMA FirstAtSlot ==
  ASSUME NEW s, NEW c \in Nat, NEW end \in Nat, c < end, Matches(s, c)
  PROVE  FirstFound(s, c, end) = c
<1>1. c \in Found(s, c, end)
  BY DEF Found
<1>2. FirstFound(s, c, end) \in c .. (end - 1) /\ FirstFound(s, c, end) <= c
  BY <1>1, FirstIsFirst DEF Found
<1> QED
  BY <1>2

(* Before a jump and after it the first slot is the same.                  *)
LEMMA FirstAcrossJump ==
  ASSUME NEW s, NEW c \in Nat, NEW end \in Nat, ~Matches(s, c)
  PROVE  FirstFound(s, c, end) = FirstFound(s, Jump(s, c), end)
<1>1. Jump(s, c) \in Int /\ c < Jump(s, c) /\ \A x \in c .. (Jump(s, c) - 1) : ~Matches(s, x)
  <2>1. c + DayLength \in Int
    BY CalendarAssumption DEF DayLength
  <2> QED
    BY <2>1, JumpsOverNothing
<1>2. ASSUME NEW x PROVE x \in Found(s, c, end) <=> x \in Found(s, Jump(s, c), end)
  <2>1. x \in Int /\ c <= x /\ Matches(s, x) => Jump(s, c) <= x
    BY <1>1
  <2> QED
    BY <1>1, <2>1 DEF Found
<1>3. Found(s, c, end) = Found(s, Jump(s, c), end)
  BY <1>2
<1> QED
  BY <1>3 DEF FirstFound

(* The equation of next_after's search, and its solution.                  *)
Search(s, end, S, g) ==
  [c \in S |-> IF c >= end THEN end
               ELSE IF Month(c) \notin s.months \/ ~DayMatches(s, c) THEN g[NextDay(c)]
               ELSE IF Hour(c) \notin s.hours THEN g[NextHour(c)]
               ELSE IF Minute(c) \in s.minutes THEN c
               ELSE g[c + 1]]

(* What the search does at a minute.                                       *)
LEMMA SearchAt ==
  ASSUME NEW s, NEW end, NEW S, NEW g, NEW c \in S
  PROVE  Search(s, end, S, g)[c] =
           IF c >= end THEN end ELSE IF Matches(s, c) THEN c ELSE g[Jump(s, c)]
  BY DEF Search, Matches, Jump

(* next_after finds the first slot within the horizon.                     *)
LEMMA NextAfterFinds ==
  ASSUME NEW s, NEW at \in Nat
  PROVE  NextAfter(s, at) = FirstFound(s, at + 1, at + 1 + Horizon)
<1> DEFINE end == at + 1 + Horizon
           S == (at + 1) .. (end + 2 * HourSize * DaySize)
           first == [c \in S |-> FirstFound(s, c, end)]
<1>1. end \in Nat /\ at + 1 < end /\ DayLength \in Nat \ {0} /\ Horizon \in Nat
  BY CalendarAssumption DEF DayLength
<1>2. S = (at + 1) .. (end + 2 * DayLength)
  BY CalendarAssumption DEF DayLength
<1> HIDE DEF end, S
<1>3. \A c \in S : c \in Nat
  BY <1>1, <1>2
<1>4. ASSUME NEW c \in S, c < end, ~Matches(s, c)
      PROVE  Jump(s, c) \in S /\ c < Jump(s, c)
  BY <1>1, <1>2, <1>3, <1>4, JumpsOverNothing
<1>5. first = Search(s, end, S, first)
  <2>1. ASSUME NEW c \in S PROVE first[c] = Search(s, end, S, first)[c]
    <3>1. CASE c >= end
      <4>1. Found(s, c, end) = {}
        BY <1>1, <1>3, <3>1 DEF Found
      <4> QED
        BY <3>1, <4>1, SearchAt DEF FirstFound
    <3>2. CASE c < end /\ Matches(s, c)
      BY <1>1, <1>3, <3>2, SearchAt, FirstAtSlot
    <3>3. CASE c < end /\ ~Matches(s, c)
      <4>1. first[Jump(s, c)] = FirstFound(s, Jump(s, c), end)
        BY <1>4, <3>3
      <4>2. FirstFound(s, c, end) = FirstFound(s, Jump(s, c), end)
        BY <1>1, <1>3, <3>3, FirstAcrossJump
      <4>3. Search(s, end, S, first)[c] = first[Jump(s, c)]
        BY <1>1, <1>3, <3>3, SearchAt
      <4> QED
        BY <4>1, <4>2, <4>3
    <3> QED
      BY <1>1, <1>3, <3>1, <3>2, <3>3
  <2> HIDE DEF first
  <2>2. DOMAIN first = S /\ first = [c \in S |-> first[c]]
    BY DEF first
  <2>3. Search(s, end, S, first) = [c \in S |-> Search(s, end, S, first)[c]]
    BY DEF Search
  <2> QED
    BY <2>1, <2>2, <2>3
<1>6. ASSUME NEW g, g = Search(s, end, S, g) PROVE g = first
  <2> DEFINE Differ == {c \in S : g[c] # first[c]}
  <2>1. ASSUME Differ # {} PROVE FALSE
    <3>1. PICK c \in Differ : \A x \in Differ : x <= c
      <4>1. Differ \subseteq (at + 1) .. (end + 2 * DayLength) /\ at + 1 \in Int
            /\ end + 2 * DayLength \in Int
        BY <1>1, <1>2
      <4> HIDE DEF Differ
      <4> QED
        BY <2>1, <4>1, Greatest
    <3>2. c \in S /\ g[c] = Search(s, end, S, g)[c] /\ first[c] = Search(s, end, S, first)[c]
      <4> HIDE DEF first
      <4> QED
        BY <1>5, <1>6
    <3>3. g[c] # first[c]
      OBVIOUS
    <3> HIDE DEF first
    <3>4. c < end /\ ~Matches(s, c)
      BY <1>1, <1>3, <3>2, <3>3, SearchAt
    <3>5. g[c] = g[Jump(s, c)] /\ first[c] = first[Jump(s, c)]
      BY <1>1, <1>3, <3>2, <3>4, SearchAt
    <3>6. Jump(s, c) \in S /\ c < Jump(s, c)
      BY <1>4, <3>2, <3>4
    <3>7. Jump(s, c) \in Differ
      BY <3>3, <3>5, <3>6
    <3> QED
      BY <1>3, <3>1, <3>2, <3>6, <3>7
  <2>2. \A c \in S : g[c] = first[c]
    BY <2>1
  <2>3. g = [c \in S |-> g[c]]
    BY <1>6 DEF Search
  <2> QED
    BY <2>2, <2>3
<1>7. NextAfter(s, at) = (CHOOSE g : g = Search(s, end, S, g))[at + 1]
  BY DEF NextAfter, Search, end, S
<1>8. (CHOOSE g : g = Search(s, end, S, g)) = first
  <2> HIDE DEF first
  <2> QED
    BY <1>5, <1>6
<1>9. at + 1 \in S
  BY <1>1, <1>2
<1> QED
  BY <1>7, <1>8, <1>9 DEF end

-----------------------------------------------------------------------------
(* The slots of a window.                                                  *)

SlotsIn(s, from, end) == {at \in (from + 1) .. end : Matches(s, at)}

(* The next slot is the first one of the window, or the window has none.   *)
LEMMA NextIsFirst ==
  ASSUME NEW s, NEW from \in Nat, NEW end \in Nat, end <= from + Horizon
  PROVE  /\ NextAfter(s, from) \in Int /\ from < NextAfter(s, from)
         /\ NextAfter(s, from) <= end => Matches(s, NextAfter(s, from))
         /\ \A at \in SlotsIn(s, from, end) : NextAfter(s, from) <= at
<1> DEFINE c == from + 1
           last == from + 1 + Horizon
<1>1. c \in Nat /\ last \in Nat /\ c < last /\ end < last /\ Horizon \in Nat
  BY CalendarAssumption
<1>2. NextAfter(s, from) = FirstFound(s, c, last)
  BY NextAfterFinds
<1>3. SlotsIn(s, from, end) \subseteq Found(s, c, last)
  BY <1>1 DEF SlotsIn, Found
<1>4. c = from + 1
  OBVIOUS
<1> HIDE DEF c, last
<1>5. CASE Found(s, c, last) = {}
  BY <1>1, <1>2, <1>3, <1>4, <1>5 DEF FirstFound
<1>6. CASE Found(s, c, last) # {}
  <2>1. FirstFound(s, c, last) \in Found(s, c, last)
        /\ \A y \in Found(s, c, last) : FirstFound(s, c, last) <= y
    BY <1>1, <1>6, FirstIsFirst
  <2>2. FirstFound(s, c, last) \in Int /\ c <= FirstFound(s, c, last)
        /\ Matches(s, FirstFound(s, c, last))
    BY <1>1, <2>1 DEF Found
  <2> QED
    BY <1>1, <1>2, <1>3, <1>4, <2>1, <2>2
<1> QED
  BY <1>5, <1>6

(* The equation of slots_between's loop.                                   *)
Collect(s, start, end, g) ==
  [from \in start .. end |->
     IF NextAfter(s, from) > end THEN {}
     ELSE {NextAfter(s, from)} \cup g[NextAfter(s, from)]]

(* A window no longer than the horizon is collected whole.                 *)
LEMMA SlotsBetweenAreTheSlots ==
  ASSUME NEW s, NEW start \in Nat, NEW end \in Nat, end <= start + Horizon
  PROVE  SlotsBetween(s, start, end) = SlotsIn(s, start, end)
<1> DEFINE S == start .. end
           all == [from \in S |-> SlotsIn(s, from, end)]
<1>1. \A from \in S : from \in Nat /\ from <= end /\ end <= from + Horizon
  BY CalendarAssumption
<1>2. ASSUME NEW from \in S, NextAfter(s, from) <= end
      PROVE  NextAfter(s, from) \in S /\ from < NextAfter(s, from)
  BY <1>1, <1>2, NextIsFirst
<1>3. ASSUME NEW from \in S, NextAfter(s, from) > end
      PROVE  SlotsIn(s, from, end) = {}
  <2>1. \A at \in SlotsIn(s, from, end) : NextAfter(s, from) <= at /\ NextAfter(s, from) \in Int
    BY <1>1, NextIsFirst
  <2>2. \A at \in SlotsIn(s, from, end) : at \in Int /\ at <= end
    BY <1>1 DEF SlotsIn
  <2> QED
    BY <1>3, <2>1, <2>2
<1>4. ASSUME NEW from \in S, NextAfter(s, from) <= end
      PROVE  SlotsIn(s, from, end)
               = {NextAfter(s, from)} \cup SlotsIn(s, NextAfter(s, from), end)
  <2> DEFINE next == NextAfter(s, from)
  <2>1. next \in Int /\ from < next /\ Matches(s, next)
        /\ \A at \in SlotsIn(s, from, end) : next <= at
    BY <1>1, <1>4, NextIsFirst
  <2>2. next <= end
    BY <1>4
  <2> HIDE DEF next
  <2>3. ASSUME NEW at
        PROVE  at \in SlotsIn(s, from, end) <=> at \in {next} \cup SlotsIn(s, next, end)
    <3>1. at \in SlotsIn(s, from, end) <=> at \in Int /\ from < at /\ at <= end /\ Matches(s, at)
      BY <1>1 DEF SlotsIn
    <3>2. at \in SlotsIn(s, next, end) <=> at \in Int /\ next < at /\ at <= end /\ Matches(s, at)
      BY <1>1, <2>1 DEF SlotsIn
    <3>3. at \in SlotsIn(s, from, end) => next <= at
      BY <2>1
    <3>4. from \in Int /\ end \in Int
      BY <1>1
    <3> QED
      BY <2>1, <2>2, <3>1, <3>2, <3>3, <3>4
  <2>4. SlotsIn(s, from, end) = {next} \cup SlotsIn(s, next, end)
    BY <2>3
  <2> QED
    BY <2>4 DEF next
<1>5. all = Collect(s, start, end, all)
  <2>1. ASSUME NEW from \in S PROVE all[from] = Collect(s, start, end, all)[from]
    <3>1. CASE NextAfter(s, from) > end
      BY <1>3, <3>1 DEF Collect
    <3>2. CASE NextAfter(s, from) <= end
      <4>1. ~(NextAfter(s, from) > end)
        BY <1>2, <3>2
      <4> QED
        BY <1>2, <1>4, <3>2, <4>1 DEF Collect
    <3>3. NextAfter(s, from) \in Int
      BY <1>1, NextIsFirst
    <3> QED
      BY <3>1, <3>2, <3>3
  <2> HIDE DEF all
  <2>2. all = [from \in S |-> all[from]]
    BY DEF all
  <2>3. Collect(s, start, end, all) = [from \in S |-> Collect(s, start, end, all)[from]]
    BY DEF Collect
  <2> QED
    BY <2>1, <2>2, <2>3
<1>6. ASSUME NEW g, g = Collect(s, start, end, g) PROVE g = all
  <2> DEFINE Differ == {from \in S : g[from] # all[from]}
  <2>1. ASSUME Differ # {} PROVE FALSE
    <3>1. PICK from \in Differ : \A x \in Differ : x <= from
      <4>1. Differ \subseteq start .. end /\ start \in Int /\ end \in Int
        OBVIOUS
      <4> HIDE DEF Differ
      <4> QED
        BY <2>1, <4>1, Greatest
    <3>2. from \in S /\ g[from] # all[from]
      OBVIOUS
    <3> HIDE DEF all
    <3>3. g[from] = Collect(s, start, end, g)[from] /\ all[from] = Collect(s, start, end, all)[from]
      BY <1>5, <1>6
    <3>4. ~(NextAfter(s, from) > end)
      BY <3>2, <3>3 DEF Collect
    <3>5. NextAfter(s, from) \in Int /\ NextAfter(s, from) <= end
      BY <1>1, <3>2, <3>4, NextIsFirst
    <3>6. NextAfter(s, from) \in S /\ from < NextAfter(s, from) /\ from \in Int
      BY <1>1, <1>2, <3>2, <3>5
    <3>7. g[NextAfter(s, from)] # all[NextAfter(s, from)]
      BY <3>2, <3>3, <3>4 DEF Collect
    <3>8. NextAfter(s, from) \in Differ
      BY <3>6, <3>7
    <3>9. NextAfter(s, from) <= from
      BY <3>1, <3>8
    <3> QED
      BY <3>5, <3>6, <3>9
  <2>2. \A from \in S : g[from] = all[from]
    BY <2>1
  <2>3. g = [from \in S |-> g[from]]
    BY <1>6 DEF Collect
  <2> QED
    BY <2>2, <2>3
<1>7. CASE start > end
  <2>1. SlotsIn(s, start, end) = {}
    BY <1>7 DEF SlotsIn
  <2> QED
    BY <1>7, <2>1 DEF SlotsBetween
<1>8. CASE start <= end
  <2>1. SlotsBetween(s, start, end) = (CHOOSE g : g = Collect(s, start, end, g))[start]
    BY <1>8 DEF SlotsBetween, Collect
  <2>2. (CHOOSE g : g = Collect(s, start, end, g)) = all
    <3> HIDE DEF all
    <3> QED
      BY <1>5, <1>6
  <2>3. start \in S
    BY <1>8
  <2> QED
    BY <2>1, <2>2, <2>3
<1> QED
  BY <1>7, <1>8

(* next_after with its jumps finds exactly the minutes that match, for     *)
(* every calendar and every schedule (domain/schedule.py                   *)
(* Schedule.next_after, matches).                                          *)
THEOREM SearchFindsEverySlot == Spec => []SlotsAreTheMatches
<1>1. SlotsAreTheMatches
  <2>1. ASSUME NEW start \in 0 .. Horizon, NEW end \in 0 .. Horizon
        PROVE  SlotsBetween(schedule, start, end)
                 = {at \in (start + 1) .. end : Matches(schedule, at)}
    <3>1. start \in Nat /\ end \in Nat /\ end <= start + Horizon
      BY CalendarAssumption
    <3> QED
      BY <3>1, SlotsBetweenAreTheSlots DEF SlotsIn
  <2> QED
    BY <2>1 DEF SlotsAreTheMatches
<1> QED
  BY <1>1, PTL

-----------------------------------------------------------------------------
(* The slots on record and those still to be acted on.                     *)

Statuses == {"RUN", "MISSED", "INVALID", "DEFERRED_BATTERY", "SKIPPED_OVERLAP",
             "SKIPPED_PAUSED", "SKIPPED_CEILING", "SKIPPED_OFFLINE"}
Records == [status : Statuses, at : Nat, slots : SUBSET Nat, asked : BOOLEAN]
Passes == [at : {"idle", "consider", "missed", "admit", "armed"},
           previous : Nat \cup {Never},
           due : [fire : SUBSET Nat, missed : SUBSET Nat], retained : BOOLEAN]

TypeInv ==
  /\ now \in Nat /\ now <= MaxNow
  /\ mark \in Nat \cup {Never} /\ mark <= now
  /\ records \in Seq(Records)
  /\ pass \in Passes /\ pass.previous <= now
  /\ launched \in Seq(SUBSET Nat)

(* Records are in the order of the clock, a record is about slots that     *)
(* have come, and an asked run is about none.                              *)
Ordered(rs, end) ==
  /\ \A i \in DOMAIN rs : rs[i].at <= end
  /\ \A i, j \in DOMAIN rs : i <= j => rs[i].at <= rs[j].at
HaveCome(rs) ==
  \A i \in DOMAIN rs : /\ rs[i].slots \subseteq 0 .. rs[i].at
                       /\ rs[i].asked => rs[i].slots = {}

(* Nothing is on record for the slots; or nothing that a run of them       *)
(* would repeat, where `again' says whether missed slots are caught up on. *)
Unreported(S, rs) ==
  \A i \in DOMAIN rs : rs[i].status \in {"RUN", "MISSED"} => S \cap rs[i].slots = {}
Repeats(r, again) == r.status = "RUN" \/ (r.status = "MISSED" /\ ~again)
Unused(S, rs, again) ==
  \A i \in DOMAIN rs : Repeats(rs[i], again) => S \cap rs[i].slots = {}

(* The slots of the verdict a pass still acts on.                          *)
VerdictOpen ==
  /\ pass.at \in {"missed", "admit"} =>
       pass.due.fire \subseteq 0 .. now /\ Unused(pass.due.fire, records, schedule.catchUp)
  /\ pass.at = "missed" =>
       /\ pass.due.missed \subseteq 0 .. now /\ Unreported(pass.due.missed, records)
       /\ ~schedule.catchUp => pass.due.fire \cap pass.due.missed = {}

(* The slots of a launched runner; there is one at most, and no pass that  *)
(* could still launch another.                                             *)
LaunchOpen ==
  launched # <<>> =>
    /\ Len(launched) = 1 /\ pass.at \in {"idle", "armed"}
    /\ launched[1] \subseteq 0 .. now /\ Unused(launched[1], records, schedule.catchUp)

(* The slots the last record keeps for AC power.                           *)
RetainedOpen == Retained => Unused(Latest.slots, records, schedule.catchUp)

RunsApart == OneRunPerSlot /\ MissedIsNotReplayed

TickInv ==
  /\ TypeInv /\ Ordered(records, now) /\ HaveCome(records)
  /\ VerdictOpen /\ LaunchOpen /\ RetainedOpen /\ RunsApart

(* The newest of some records is one of them, and none is newer.           *)
LEMMA NewestIsLast ==
  ASSUME NEW n \in Nat, NEW K, K \subseteq 1 .. n, K # {}
  PROVE  Newest(K) \in K /\ \A m \in K : m <= Newest(K)
<1>1. \E k \in K : \A m \in K : m <= k
  <2>1. 1 \in Int /\ n \in Int
    OBVIOUS
  <2> QED
    BY <2>1, Greatest
<1> QED
  BY <1>1 DEF Newest

(* A record has its fields.                                                *)
LEMMA RecordTyped ==
  ASSUME TypeInv, NEW i \in DOMAIN records
  PROVE  /\ records[i] \in Records /\ i \in Nat
         /\ records[i].at \in Nat /\ records[i].slots \subseteq Nat
<1>1. i \in 1 .. Len(records) /\ records \in Seq(Records)
  BY DEF TypeInv
<1>2. records[i] \in Records
  BY <1>1
<1> QED
  BY <1>1, <1>2 DEF Records

(* The window opens no earlier than any record that consumes a slot.       *)
LEMMA WindowOpens ==
  ASSUME NEW previous \in Nat \cup {Never}, previous <= now,
         TypeInv, Ordered(records, now)
  PROVE  /\ WindowStart(previous) \in 0 .. now
         /\ \A i \in Consuming : records[i].at <= WindowStart(previous)
<1>1. Consuming \subseteq 1 .. Len(records) /\ DOMAIN records = 1 .. Len(records)
      /\ Len(records) \in Nat
  BY DEF Consuming, Cron, TypeInv
<1>2. CASE Consuming # {}
  <2>1. Newest(Consuming) \in Consuming /\ \A m \in Consuming : m <= Newest(Consuming)
    BY <1>1, <1>2, NewestIsLast
  <2>2. WindowStart(previous) = records[Newest(Consuming)].at
    BY <1>2 DEF WindowStart
  <2>3. records[Newest(Consuming)].at \in Nat
    BY <1>1, <2>1, RecordTyped
  <2>4. records[Newest(Consuming)].at <= now
    BY <1>1, <2>1 DEF Ordered
  <2>5. \A i \in Consuming : records[i].at <= records[Newest(Consuming)].at
    BY <1>1, <2>1 DEF Ordered
  <2>6. now \in Nat
    BY DEF TypeInv
  <2> QED
    BY <2>2, <2>3, <2>4, <2>5, <2>6
<1>3. CASE Consuming = {}
  BY <1>3 DEF WindowStart, Never, TypeInv
<1> QED
  BY <1>2, <1>3

(* The latest record is one of the records about slots.                    *)
LEMMA LatestIsRecord ==
  ASSUME TypeInv, Cron # {}
  PROVE  Newest(Cron) \in DOMAIN records /\ Newest(Cron) \in Cron
<1>1. Cron \subseteq 1 .. Len(records) /\ DOMAIN records = 1 .. Len(records)
      /\ Len(records) \in Nat
  BY DEF Cron, TypeInv
<1> QED
  BY <1>1, NewestIsLast

(* What a pass finds due has come, and nothing is on record for it.        *)
LEMMA DueIsFresh ==
  ASSUME TickInv
  PROVE  /\ Due \in [fire : SUBSET (0 .. now), missed : SUBSET (0 .. now)]
         /\ Unused(Due.fire, records, schedule.catchUp)
         /\ Unreported(Due.missed, records)
         /\ ~schedule.catchUp => Due.fire \cap Due.missed = {}
<1>0. TypeInv /\ Ordered(records, now) /\ HaveCome(records) /\ RetainedOpen
  BY DEF TickInv
<1>1. CASE Retained
  <2>1. Due = [fire |-> Latest.slots, missed |-> {}]
    BY <1>1 DEF Due
  <2>2. Unused(Latest.slots, records, schedule.catchUp)
    BY <1>0, <1>1 DEF RetainedOpen
  <2>3. Newest(Cron) \in DOMAIN records
    BY <1>0, <1>1, LatestIsRecord DEF Retained
  <2>4. Latest.slots \subseteq 0 .. Latest.at /\ Latest.at <= now /\ Latest.at \in Nat
    BY <1>0, <2>3, RecordTyped DEF HaveCome, Ordered, Latest
  <2>5. Latest.slots \subseteq 0 .. now
    <3> HIDE DEF Latest
    <3> QED
      BY <1>0, <2>4 DEF TypeInv
  <2>6. Unreported({}, records)
    BY DEF Unreported
  <2> HIDE DEF Latest
  <2> QED
    BY <2>1, <2>2, <2>5, <2>6
<1>2. CASE ~Retained
  <2> DEFINE start == WindowStart(pass.previous)
             slots == SlotsBetween(schedule, start, now)
             newest == {Newest(slots)}
  <2>1. start \in 0 .. now /\ \A i \in Consuming : records[i].at <= start
    <3>1. pass.previous \in Nat \cup {Never} /\ pass.previous <= now
      BY <1>0 DEF TypeInv, Passes
    <3> QED
      BY <1>0, <3>1, WindowOpens
  <2>2. Due = DuePolicy(schedule, start, now, Grace)
    BY <1>2 DEF Due
  <2> HIDE DEF start
  <2>3. slots \subseteq (start + 1) .. now
    <3>1. start \in Nat /\ now \in Nat /\ now <= start + Horizon
      BY <1>0, <2>1, CalendarAssumption, TickAssumption DEF TypeInv
    <3> QED
      BY <3>1, SlotsBetweenAreTheSlots DEF SlotsIn
  <2> HIDE DEF slots
  <2>4. slots # {} => Newest(slots) \in slots
    <3>1. start + 1 \in Int /\ now \in Int
      BY <1>0, <2>1 DEF TypeInv
    <3>2. slots # {} => \E y \in slots : \A x \in slots : x <= y
      BY <2>3, <3>1, Greatest
    <3> QED
      BY <3>2 DEF Newest
  <2>5. /\ Due.fire \subseteq slots /\ Due.missed \subseteq slots
        /\ Due = [fire |-> Due.fire, missed |-> Due.missed]
        /\ ~schedule.catchUp => Due.fire \cap Due.missed = {}
    <3>1. CASE slots = {}
      <4>1. Due = [fire |-> {}, missed |-> {}]
        BY <2>2, <3>1 DEF DuePolicy, NothingDue, slots
      <4> QED
        BY <4>1
    <3>2. CASE slots # {} /\ now - Newest(slots) <= Grace
      <4>1. Due = [fire |-> newest, missed |-> slots \ newest]
        BY <2>2, <3>2 DEF DuePolicy, slots
      <4> QED
        BY <2>4, <3>2, <4>1
    <3>3. CASE slots # {} /\ ~(now - Newest(slots) <= Grace)
      <4>1. Due = [fire |-> IF schedule.catchUp THEN newest ELSE {}, missed |-> slots]
        BY <2>2, <3>3 DEF DuePolicy, slots
      <4> QED
        BY <2>4, <3>3, <4>1
    <3> QED
      BY <3>1, <3>2, <3>3
  <2>6. slots \subseteq 0 .. now
    BY <1>0, <2>1, <2>3 DEF TypeInv
  <2>7. Unreported(slots, records)
    <3>1. SUFFICES ASSUME NEW i \in DOMAIN records, records[i].status \in {"RUN", "MISSED"},
                          NEW at \in slots, at \in records[i].slots
                   PROVE  FALSE
      BY DEF Unreported
    <3>2. ~records[i].asked
      BY <1>0, <3>1 DEF HaveCome
    <3>3. i \in Consuming
      BY <3>1, <3>2 DEF Consuming, Cron, SlotConsuming
    <3>4. at <= records[i].at
      BY <1>0, <3>1 DEF HaveCome
    <3>5. records[i].at \in Nat /\ at \in Int /\ start \in Int /\ start < at
      <4>1. start \in Int /\ now \in Int
        BY <1>0, <2>1 DEF TypeInv
      <4> QED
        BY <1>0, <2>3, <4>1, RecordTyped
    <3> QED
      BY <2>1, <3>3, <3>4, <3>5
  <2>8. Unused(Due.fire, records, schedule.catchUp)
    <3> HIDE DEF Due
    <3> QED
      BY <2>5, <2>7 DEF Unused, Unreported, Repeats
  <2>9. Unreported(Due.missed, records)
    BY <2>5, <2>7 DEF Unreported
  <2> QED
    BY <2>5, <2>6, <2>8, <2>9
<1> QED
  BY <1>1, <1>2

(* Records are only added.                                                 *)
LEMMA AddedRecords ==
  ASSUME NEW rs \in Seq(Records), NEW r \in Records
  PROVE  /\ Append(rs, r) \in Seq(Records)
         /\ DOMAIN Append(rs, r) = DOMAIN rs \cup {Len(rs) + 1}
         /\ DOMAIN rs = 1 .. Len(rs) /\ Len(rs) \in Nat
         /\ \A i \in DOMAIN rs : Append(rs, r)[i] = rs[i] /\ i <= Len(rs)
         /\ Append(rs, r)[Len(rs) + 1] = r
  OBVIOUS

(* Slots that nothing repeats stay such when the record added does not.    *)
LEMMA StillUnused ==
  ASSUME NEW rs \in Seq(Records), NEW r \in Records, NEW S, NEW again,
         Unused(S, rs, again), Repeats(r, again) => S \cap r.slots = {}
  PROVE  Unused(S, Append(rs, r), again)
<1> DEFINE new == Append(rs, r)
<1>1. /\ DOMAIN new = DOMAIN rs \cup {Len(rs) + 1}
      /\ \A i \in DOMAIN rs : new[i] = rs[i]
      /\ new[Len(rs) + 1] = r
  BY AddedRecords
<1> HIDE DEF new
<1>2. Unused(S, new, again)
  BY <1>1 DEF Unused
<1> QED
  BY <1>2 DEF new

(* What the records say stays true of them when one is added now.          *)
LEMMA RecordAdded ==
  ASSUME TickInv, NEW r \in Records,
         records' = Append(records, r), now' = now, schedule' = schedule,
         r.at = now, r.slots \subseteq 0 .. now, r.asked => r.slots = {},
         r.status = "RUN" => Unused(r.slots, records, schedule.catchUp),
         r.status = "MISSED" => Unreported(r.slots, records)
  PROVE  /\ records' \in Seq(Records) /\ Ordered(records, now)' /\ HaveCome(records)'
         /\ RunsApart'
<1> DEFINE new == Append(records, r)
           n == Len(records)
<1>0. TypeInv /\ Ordered(records, now) /\ HaveCome(records) /\ RunsApart
  BY DEF TickInv
<1>1. /\ new \in Seq(Records) /\ DOMAIN new = DOMAIN records \cup {n + 1}
      /\ DOMAIN records = 1 .. n /\ n \in Nat
      /\ \A i \in DOMAIN records : new[i] = records[i] /\ i <= n
      /\ new[n + 1] = r
  BY <1>0, AddedRecords DEF TypeInv
<1>2. records' = new
  OBVIOUS
<1> HIDE DEF new, n
<1>3. now \in Nat
  BY <1>0 DEF TypeInv
<1>4. Ordered(records, now)'
  <2>1. ASSUME NEW i \in DOMAIN new PROVE new[i].at <= now
    BY <1>0, <1>1, <1>3, <2>1 DEF Ordered
  <2>2. ASSUME NEW i \in DOMAIN new, NEW j \in DOMAIN new, i <= j
        PROVE  new[i].at <= new[j].at
    <3>1. CASE j = n + 1
      BY <1>1, <2>1, <3>1
    <3>2. CASE j # n + 1
      BY <1>0, <1>1, <2>2, <3>2 DEF Ordered
    <3> QED
      BY <3>1, <3>2
  <2> QED
    BY <1>2, <2>1, <2>2 DEF Ordered
<1>5. HaveCome(records)'
  BY <1>0, <1>1, <1>2 DEF HaveCome
<1>6. OneRunPerSlot'
  <2>1. ASSUME NEW i \in DOMAIN new, NEW j \in DOMAIN new, i # j,
               new[i].status = "RUN", new[j].status = "RUN"
        PROVE  new[i].slots \cap new[j].slots = {}
    <3>1. CASE i = n + 1
      BY <1>1, <2>1, <3>1 DEF Unused, Repeats
    <3>2. CASE j = n + 1
      BY <1>1, <2>1, <3>2 DEF Unused, Repeats
    <3>3. CASE i # n + 1 /\ j # n + 1
      BY <1>0, <1>1, <2>1, <3>3 DEF RunsApart, OneRunPerSlot
    <3> QED
      BY <3>1, <3>2, <3>3
  <2> QED
    BY <1>2, <2>1 DEF OneRunPerSlot
<1>7. MissedIsNotReplayed'
  <2>1. ASSUME NEW i \in DOMAIN new, NEW j \in DOMAIN new, i # j, new[i].status = "MISSED",
               new[j].status = "MISSED" \/ (new[j].status = "RUN" /\ ~schedule.catchUp)
        PROVE  new[i].slots \cap new[j].slots = {}
    <3>1. CASE i = n + 1
      BY <1>1, <2>1, <3>1 DEF Unreported
    <3>2. CASE j = n + 1 /\ new[j].status = "MISSED"
      BY <1>1, <2>1, <3>2 DEF Unreported
    <3>3. CASE j = n + 1 /\ new[j].status = "RUN" /\ ~schedule.catchUp
      BY <1>1, <2>1, <3>3 DEF Unused, Repeats
    <3>4. CASE i # n + 1 /\ j # n + 1
      BY <1>0, <1>1, <2>1, <3>4 DEF RunsApart, MissedIsNotReplayed
    <3> QED
      BY <2>1, <3>1, <3>2, <3>3, <3>4
  <2> QED
    BY <1>2, <2>1 DEF MissedIsNotReplayed
<1> QED
  BY <1>1, <1>2, <1>4, <1>5, <1>6, <1>7 DEF RunsApart

(* A record about slots is the latest one; an asked run leaves that as it  *)
(* was.                                                                    *)
LEMMA LatestAfter ==
  ASSUME TypeInv, NEW r \in Records, records' = Append(records, r)
  PROVE  /\ ~r.asked => Latest' = r
         /\ r.asked => Retained' = Retained /\ (Retained => Latest' = Latest)
<1> DEFINE n == Len(records)
<1>1. /\ DOMAIN records' = DOMAIN records \cup {n + 1}
      /\ DOMAIN records = 1 .. n /\ n \in Nat
      /\ \A i \in DOMAIN records : records'[i] = records[i] /\ i <= n
      /\ records'[n + 1] = r
  BY AddedRecords DEF TypeInv
<1> HIDE DEF n
<1>2. ASSUME ~r.asked PROVE Latest' = r
  <2>1. n + 1 \in Cron' /\ Cron' \subseteq 1 .. (n + 1) /\ n + 1 \in Nat
    BY <1>1, <1>2 DEF Cron
  <2>2. Newest(Cron') \in Cron' /\ n + 1 <= Newest(Cron')
    BY <2>1, NewestIsLast
  <2>3. Newest(Cron') = n + 1
    <3>1. \A m \in Cron' : m \in Int /\ m <= n + 1
      BY <1>1, <2>1
    <3>2. Newest(Cron') \in Int /\ Newest(Cron') <= n + 1
      BY <2>2, <3>1
    <3> QED
      BY <2>1, <2>2, <3>2
  <2>4. Newest(Cron') = Newest(Cron)'
    BY DEF Newest
  <2> QED
    BY <1>1, <2>3, <2>4 DEF Latest
<1>3. ASSUME r.asked PROVE Retained' = Retained /\ (Retained => Latest' = Latest)
  <2>1. Cron' = Cron
    BY <1>1, <1>3 DEF Cron
  <2>2. Newest(Cron)' = Newest(Cron)
    BY <2>1 DEF Newest
  <2>3. Cron # {} => Latest' = Latest
    <3>1. Cron # {} => Newest(Cron) \in DOMAIN records
      BY LatestIsRecord
    <3> QED
      BY <1>1, <2>2, <3>1 DEF Latest
  <2> QED
    BY <2>1, <2>3 DEF Retained
<1> QED
  BY <1>2, <1>3

(* What an added record does to the slots that may still be launched.      *)
LEMMA RetainedAfter ==
  ASSUME TickInv, NEW r \in Records, records' = Append(records, r), schedule' = schedule,
         ~r.asked => (r.status = "DEFERRED_BATTERY" =>
                        Unused(r.slots, records, schedule.catchUp)),
         r.asked => r.slots = {}
  PROVE  RetainedOpen'
<1>0. TypeInv /\ RetainedOpen /\ records \in Seq(Records)
  BY DEF TickInv, TypeInv
<1>1. CASE ~r.asked
  <2>1. Latest' = r
    BY <1>0, <1>1, LatestAfter
  <2>2. ASSUME r.status = "DEFERRED_BATTERY"
        PROVE  Unused(r.slots, Append(records, r), schedule.catchUp)
    <3>1. ~Repeats(r, schedule.catchUp)
      BY <2>2 DEF Repeats
    <3> QED
      BY <1>0, <1>1, <2>2, <3>1, StillUnused
  <2>3. Retained' => r.status = "DEFERRED_BATTERY"
    BY <2>1 DEF Retained
  <2>4. Unused(r.slots, records', schedule'.catchUp) => RetainedOpen'
    BY <2>1 DEF RetainedOpen, Unused, Repeats
  <2> QED
    BY <2>2, <2>3, <2>4 DEF RetainedOpen
<1>2. CASE r.asked
  <2>1. Retained' = Retained /\ (Retained => Latest' = Latest)
    BY <1>0, <1>2, LatestAfter
  <2>2. ASSUME Retained
        PROVE  Unused(Latest.slots, Append(records, r), schedule.catchUp)
    <3>1. Unused(Latest.slots, records, schedule.catchUp)
      BY <1>0, <2>2 DEF RetainedOpen
    <3>2. Latest.slots \cap r.slots = {}
      BY <1>2
    <3> HIDE DEF Latest
    <3> QED
      BY <1>0, <3>1, <3>2, StillUnused
  <2>3. Retained' => Retained /\ Latest' = Latest
    BY <2>1
  <2> QED
    BY <2>2, <2>3 DEF RetainedOpen, Unused, Repeats
<1> QED
  BY <1>1, <1>2

(* So do slots that nothing reports.                                       *)
LEMMA StillUnreported ==
  ASSUME NEW rs \in Seq(Records), NEW r \in Records, NEW S,
         Unreported(S, rs), S \cap r.slots = {}
  PROVE  Unreported(S, Append(rs, r))
<1> DEFINE new == Append(rs, r)
<1>1. /\ DOMAIN new = DOMAIN rs \cup {Len(rs) + 1}
      /\ \A i \in DOMAIN rs : new[i] = rs[i]
      /\ new[Len(rs) + 1] = r
  BY AddedRecords
<1> HIDE DEF new
<1>2. Unreported(S, new)
  BY <1>1 DEF Unreported
<1> QED
  BY <1>2 DEF new

(* A record made now is a record.                                          *)
LEMMA RecordMade ==
  ASSUME now \in Nat, NEW status \in Statuses, NEW slots, slots \subseteq 0 .. now,
         NEW asked \in BOOLEAN
  PROVE  /\ Record(status, slots, asked) \in Records
         /\ Record(status, slots, asked).status = status
         /\ Record(status, slots, asked).at = now
         /\ Record(status, slots, asked).slots = slots
         /\ Record(status, slots, asked).asked = asked
<1>1. slots \subseteq Nat
  OBVIOUS
<1> QED
  BY <1>1 DEF Record, Records

(* And one about slots is not an asked one.                                *)
LEMMA SlotRecordMade ==
  ASSUME now \in Nat, NEW status \in Statuses, NEW slots, slots \subseteq 0 .. now
  PROVE  /\ Record(status, slots, FALSE) \in Records
         /\ Record(status, slots, FALSE).status = status
         /\ Record(status, slots, FALSE).at = now
         /\ Record(status, slots, FALSE).slots = slots
         /\ ~Record(status, slots, FALSE).asked
<1>1. slots \subseteq Nat
  OBVIOUS
<1> QED
  BY <1>1 DEF Record, Records

(* The records say the same while none is added and the clock goes on.     *)
LEMMA NoRecordAdded ==
  ASSUME TickInv, records' = records, schedule' = schedule, now' \in Nat, now <= now'
  PROVE  /\ records' \in Seq(Records) /\ Ordered(records, now)' /\ HaveCome(records)'
         /\ RetainedOpen' /\ RunsApart'
<1>0. TypeInv /\ Ordered(records, now) /\ HaveCome(records) /\ RetainedOpen /\ RunsApart
  BY DEF TickInv
<1>1. records' \in Seq(Records) /\ HaveCome(records)'
  BY <1>0 DEF TypeInv, HaveCome
<1>2. Ordered(records, now)'
  <2>1. \A i \in DOMAIN records : records[i].at <= now'
    <3>1. \A i \in DOMAIN records : records[i].at \in Nat /\ records[i].at <= now
      BY <1>0, RecordTyped DEF Ordered
    <3> QED
      BY <1>0, <3>1 DEF TypeInv
  <2> QED
    BY <1>0, <2>1 DEF Ordered
<1>3. RunsApart'
  BY <1>0 DEF RunsApart, OneRunPerSlot, MissedIsNotReplayed
<1>4. RetainedOpen'
  <2>1. Retained' = Retained /\ Latest' = Latest
    BY DEF Retained, Latest, Cron, Newest
  <2> QED
    BY <1>0, <2>1 DEF RetainedOpen
<1> QED
  BY <1>1, <1>2, <1>3, <1>4

(* No runner waits while a pass considers the chore or acts on a verdict.  *)
LEMMA NoRunnerWaits ==
  ASSUME TickInv, pass.at \in {"consider", "missed", "admit"}
  PROVE  launched = <<>>
  BY DEF TickInv, LaunchOpen

(* A record made by a pass that is then over, or has none to launch.       *)
LEMMA PassRecords ==
  ASSUME TickInv, pass.at \in {"consider", "missed", "admit"},
         NEW status \in Statuses \ {"RUN"}, NEW slots, slots \subseteq 0 .. now,
         status = "MISSED" => Unreported(slots, records),
         status = "DEFERRED_BATTERY" => Unused(slots, records, schedule.catchUp),
         Put(status, slots), PassGoes("armed"),
         now' = now, schedule' = schedule, mark' = mark, launched' = launched
  PROVE  TickInv'
<1> DEFINE r == Record(status, slots, FALSE)
<1>0. TypeInv /\ now \in Nat
  BY DEF TickInv, TypeInv
<1>1. /\ r \in Records /\ r.status = status /\ r.at = now /\ r.slots = slots
      /\ ~r.asked
  BY <1>0, SlotRecordMade
<1>2. records' = Append(records, r)
  BY DEF Put
<1> HIDE DEF r
<1>3. /\ records' \in Seq(Records) /\ Ordered(records, now)' /\ HaveCome(records)'
      /\ RunsApart'
  BY <1>1, <1>2, RecordAdded
<1>4. RetainedOpen'
  BY <1>1, <1>2, RetainedAfter
<1>5. pass' \in Passes /\ pass'.at = "armed" /\ pass'.previous = pass.previous
  BY <1>0 DEF PassGoes, TypeInv, Passes
<1>6. TypeInv'
  BY <1>0, <1>3, <1>5 DEF TypeInv
<1>7. VerdictOpen' /\ LaunchOpen'
  BY <1>5, NoRunnerWaits DEF VerdictOpen, LaunchOpen
<1> QED
  BY <1>3, <1>4, <1>6, <1>7 DEF TickInv

(* A run that is about no slot.                                            *)
LEMMA OtherRun ==
  ASSUME TickInv, NEW asked \in BOOLEAN,
         records' = Append(records, Record("RUN", {}, asked)),
         now' = now, schedule' = schedule, mark' = mark, launched' = launched,
         pass' = pass
  PROVE  TickInv'
<1> DEFINE r == Record("RUN", {}, asked)
<1>0. TypeInv /\ now \in Nat /\ records \in Seq(Records) /\ VerdictOpen /\ LaunchOpen
  BY DEF TickInv, TypeInv
<1>1. /\ r \in Records /\ r.status = "RUN" /\ r.at = now /\ r.slots = {}
      /\ r.asked = asked
  BY <1>0, RecordMade DEF Statuses
<1>2. records' = Append(records, r)
  OBVIOUS
<1> HIDE DEF r
<1>3. /\ records' \in Seq(Records) /\ Ordered(records, now)' /\ HaveCome(records)'
      /\ RunsApart'
  <2>1. Unused(r.slots, records, schedule.catchUp)
    BY <1>1 DEF Unused
  <2> QED
    BY <1>1, <1>2, <2>1, RecordAdded
<1>4. RetainedOpen'
  BY <1>1, <1>2, RetainedAfter
<1>5. TypeInv'
  BY <1>0, <1>3 DEF TypeInv
<1>6. ASSUME NEW S
      PROVE  /\ Unused(S, records, schedule.catchUp) => Unused(S, records', schedule.catchUp)
             /\ Unreported(S, records) => Unreported(S, records')
  <2>1. S \cap r.slots = {}
    BY <1>1
  <2> QED
    BY <1>0, <1>1, <1>2, <2>1, StillUnused, StillUnreported
<1>7. VerdictOpen'
  BY <1>0, <1>6 DEF VerdictOpen
<1>8. LaunchOpen'
  BY <1>0, <1>6 DEF LaunchOpen
<1> QED
  BY <1>3, <1>4, <1>5, <1>7, <1>8 DEF TickInv

(* A pass starts, ends or dies, a launch fails, a runner vanishes, and     *)
(* what happens around them: nothing is recorded, decided or launched.     *)
LEMMA NothingDecided ==
  ASSUME TickInv, records' = records, schedule' = schedule,
         now' \in Nat, now <= now', now' <= MaxNow,
         mark' \in {mark, now}, pass' \in Passes, pass'.previous <= now',
         \/ pass' = pass
         \/ /\ pass'.at \notin {"missed", "admit"}
            /\ launched # <<>> => pass'.at \in {"idle", "armed"},
         launched' \in {launched, <<>>}
  PROVE  TickInv'
<1>0. TypeInv /\ VerdictOpen /\ LaunchOpen /\ now \in Nat
  BY DEF TickInv, TypeInv
<1>1. /\ records' \in Seq(Records) /\ Ordered(records, now)' /\ HaveCome(records)'
      /\ RetainedOpen' /\ RunsApart'
  BY NoRecordAdded
<1>2. TypeInv'
  <2>1. mark' \in Nat \cup {Never} /\ mark' <= now'
    BY <1>0 DEF TypeInv, Never
  <2>2. launched' \in Seq(SUBSET Nat)
    <3>1. launched \in Seq(SUBSET Nat)
      BY <1>0 DEF TypeInv
    <3>2. <<>> \in Seq(SUBSET Nat)
      OBVIOUS
    <3> QED
      BY <3>1, <3>2
  <2> QED
    BY <1>1, <2>1, <2>2 DEF TypeInv
<1>3. 0 .. now \subseteq 0 .. now'
  BY <1>0
<1>4. VerdictOpen'
  <2>1. CASE pass' = pass
    BY <1>0, <1>3, <2>1 DEF VerdictOpen
  <2>2. CASE pass'.at \notin {"missed", "admit"}
    BY <2>2 DEF VerdictOpen
  <2> QED
    BY <2>1, <2>2
<1>5. LaunchOpen'
  <2>1. CASE launched' = <<>>
    BY <2>1 DEF LaunchOpen
  <2>2. CASE launched' = launched /\ launched # <<>>
    <3>1. pass'.at \in {"idle", "armed"}
      BY <1>0, <2>2 DEF LaunchOpen
    <3> QED
      BY <1>0, <1>3, <2>2, <3>1 DEF LaunchOpen
  <2> QED
    BY <2>1, <2>2
<1> QED
  BY <1>1, <1>2, <1>4, <1>5 DEF TickInv

(* The verdict of a pass opens only slots that nothing is on record for.   *)
LEMMA ConsiderKeeps ==
  ASSUME TickInv, Consider
  PROVE  TickInv'
<1> DEFINE next == IF Due.missed # {} THEN "missed"
                   ELSE IF Retained \/ Due.fire # {} THEN "admit" ELSE "armed"
<1>0. TypeInv /\ now \in Nat /\ launched = <<>> /\ Considered(next)
  BY NoRunnerWaits DEF Consider, Considered, TickInv, TypeInv
<1>1. /\ Due \in [fire : SUBSET (0 .. now), missed : SUBSET (0 .. now)]
      /\ Unused(Due.fire, records, schedule.catchUp)
      /\ Unreported(Due.missed, records)
      /\ ~schedule.catchUp => Due.fire \cap Due.missed = {}
  BY DueIsFresh
<1>2. /\ pass' = [pass EXCEPT !.due = Due, !.retained = Retained, !.at = next]
      /\ UNCHANGED <<world, records, mark, launched>>
  BY <1>0 DEF Considered, vars, history
<1>3. next \in {"missed", "admit", "armed"} /\ Retained \in BOOLEAN
  BY DEF Retained
<1> HIDE DEF next
<1>4. Due \in [fire : SUBSET Nat, missed : SUBSET Nat]
  <2> HIDE DEF Due
  <2>1. 0 .. now \subseteq Nat
    OBVIOUS
  <2> QED
    BY <1>1, <2>1
<1>5. /\ pass' \in Passes /\ pass'.due = Due /\ pass'.previous = pass.previous
      /\ pass'.at = next
  <2> HIDE DEF Due, Retained
  <2> QED
    BY <1>0, <1>2, <1>3, <1>4 DEF TypeInv, Passes
<1>6. /\ records' \in Seq(Records) /\ Ordered(records, now)' /\ HaveCome(records)'
      /\ RetainedOpen' /\ RunsApart'
  BY <1>0, <1>2, NoRecordAdded DEF world
<1>7. TypeInv'
  BY <1>0, <1>2, <1>5, <1>6 DEF TypeInv, world
<1>8. VerdictOpen'
  <2> HIDE DEF Due
  <2> QED
    BY <1>1, <1>2, <1>5 DEF VerdictOpen, world
<1>9. LaunchOpen'
  BY <1>0, <1>2 DEF LaunchOpen
<1> QED
  BY <1>6, <1>7, <1>8, <1>9 DEF TickInv

(* The slots counted in a MISSED record are in no other one, and what      *)
(* fires beside it is not among them unless it is caught up on.            *)
LEMMA RecordMissedKeeps ==
  ASSUME TickInv, RecordMissed
  PROVE  TickInv'
<1> DEFINE missed == pass.due.missed
           fire == pass.due.fire
           r == Record("MISSED", missed, FALSE)
<1>0. /\ TypeInv /\ now \in Nat /\ records \in Seq(Records) /\ launched = <<>>
      /\ pass.at = "missed" /\ now' = now /\ schedule' = schedule /\ mark' = mark
      /\ launched' = launched
  BY NoRunnerWaits DEF TickInv, TypeInv, RecordMissed, world
<1>1. /\ fire \subseteq 0 .. now /\ Unused(fire, records, schedule.catchUp)
      /\ missed \subseteq 0 .. now /\ Unreported(missed, records)
      /\ ~schedule.catchUp => fire \cap missed = {}
  BY <1>0 DEF TickInv, VerdictOpen
<1>2. records' = Append(records, r)
  BY DEF RecordMissed, Put
<1>3. /\ pass' \in Passes /\ pass'.due = pass.due /\ pass'.previous = pass.previous
      /\ pass'.at \in {"armed", "admit"}
  <2>1. pass' = [pass EXCEPT !.at = IF fire = {} THEN "armed" ELSE "admit"]
    BY DEF RecordMissed, PassGoes
  <2> QED
    BY <1>0, <2>1 DEF TypeInv, Passes
<1>4. r \in Records /\ r.status = "MISSED" /\ r.at = now /\ r.slots = missed /\ ~r.asked
  <2> HIDE DEF missed
  <2>1. "MISSED" \in Statuses /\ missed \subseteq Nat
    BY <1>0, <1>1 DEF Statuses
  <2> QED
    BY <1>0, <2>1 DEF Record, Records
<1> HIDE DEF r
<1>5. /\ records' \in Seq(Records) /\ Ordered(records, now)' /\ HaveCome(records)'
      /\ RunsApart'
  <2> HIDE DEF missed
  <2> QED
    BY <1>0, <1>1, <1>2, <1>4, RecordAdded
<1>6. RetainedOpen'
  BY <1>0, <1>2, <1>4, RetainedAfter
<1>7. Unused(fire, Append(records, r), schedule.catchUp)
  <2>1. Repeats(r, schedule.catchUp) => fire \cap r.slots = {}
    BY <1>1, <1>4 DEF Repeats
  <2> HIDE DEF fire
  <2> QED
    BY <1>0, <1>1, <1>4, <2>1, StillUnused
<1>8. VerdictOpen'
  <2>1. pass'.due.fire = fire
    BY <1>3
  <2> HIDE DEF fire
  <2> QED
    BY <1>0, <1>1, <1>2, <1>3, <1>7, <2>1 DEF VerdictOpen
<1>9. TypeInv' /\ LaunchOpen'
  BY <1>0, <1>3, <1>5 DEF TypeInv, LaunchOpen
<1> QED
  BY <1>5, <1>6, <1>8, <1>9 DEF TickInv

(* The one launched runner is admitted, and none is left.                  *)
LEMMA RunnerRecords ==
  ASSUME TickInv, launched # <<>>, launched' = Tail(launched),
         NEW status \in Statuses \ {"MISSED"}, Put(status, Head(launched)),
         now' = now, schedule' = schedule, mark' = mark, pass' = pass
  PROVE  TickInv'
<1> DEFINE slots == launched[1]
           r == Record(status, slots, FALSE)
<1>0. TypeInv /\ now \in Nat /\ VerdictOpen /\ LaunchOpen /\ launched \in Seq(SUBSET Nat)
  BY DEF TickInv, TypeInv
<1>1. /\ Len(launched) = 1 /\ pass.at \in {"idle", "armed"}
      /\ slots \subseteq 0 .. now /\ Unused(slots, records, schedule.catchUp)
  BY <1>0 DEF LaunchOpen
<1>2. launched' = <<>> /\ Head(launched) = slots
  BY <1>0, <1>1
<1>3. records' = Append(records, r)
  BY <1>2 DEF Put
<1> HIDE DEF slots
<1>4. r \in Records /\ r.status = status /\ r.at = now /\ r.slots = slots /\ ~r.asked
  <2>1. status \in Statuses /\ slots \subseteq Nat
    BY <1>0, <1>1
  <2> QED
    BY <1>0, <2>1 DEF Record, Records
<1> HIDE DEF r
<1>5. /\ records' \in Seq(Records) /\ Ordered(records, now)' /\ HaveCome(records)'
      /\ RunsApart'
  BY <1>1, <1>3, <1>4, RecordAdded
<1>6. RetainedOpen'
  BY <1>1, <1>3, <1>4, RetainedAfter
<1>7. TypeInv'
  BY <1>0, <1>2, <1>5 DEF TypeInv
<1>8. VerdictOpen' /\ LaunchOpen'
  BY <1>1, <1>2 DEF VerdictOpen, LaunchOpen
<1> QED
  BY <1>5, <1>6, <1>7, <1>8 DEF TickInv

(* Nothing is open before the first pass.                                  *)
LEMMA TickStarts ==
  ASSUME Init
  PROVE  TickInv
<1>1. TypeInv
  <2>1. Idle \in Passes /\ Idle.previous = Never
    BY DEF Idle, Passes, NothingDue, Never
  <2> QED
    BY <2>1, TickAssumption DEF Init, TypeInv, Never
<1>2. records = <<>> /\ launched = <<>> /\ pass.at = "idle" /\ DOMAIN records = {}
  BY DEF Init, Idle
<1>3. ~Retained
  BY <1>2 DEF Retained, Cron
<1> QED
  BY <1>1, <1>2, <1>3 DEF TickInv, Ordered, HaveCome, VerdictOpen, LaunchOpen,
     RetainedOpen, RunsApart, OneRunPerSlot, MissedIsNotReplayed

(* Every step keeps the slots apart, while a launched runner reaches its   *)
(* admission before the clock moves or the next pass starts.               *)
LEMMA TickStep ==
  ASSUME ~SlowStart, TickInv, [Next]_vars
  PROVE  TickInv'
<1>0. /\ TypeInv /\ now \in Nat /\ now <= MaxNow /\ pass \in Passes /\ pass.previous <= now
      /\ mark \in Nat \cup {Never} /\ mark <= now /\ launched \in Seq(SUBSET Nat)
      /\ MaxNow \in Nat
  BY TickAssumption DEF TickInv, TypeInv
<1>1. Idle \in Passes /\ Idle.previous = Never /\ Idle.at = "idle"
  BY DEF Idle, Passes, NothingDue, Never
<1>2. ASSUME NEW there \in {"idle", "consider", "missed", "admit", "armed"}, PassGoes(there)
      PROVE  /\ pass' \in Passes /\ pass'.at = there /\ pass'.due = pass.due
             /\ pass'.previous = pass.previous
  BY <1>0, <1>2 DEF PassGoes, Passes
<1>3. Never <= now
  BY <1>0 DEF Never
<1>4. CASE PassStarts
  <2>1. launched = <<>>
    BY <1>4 DEF PassStarts
  <2>2. pass' \in Passes /\ pass'.previous = mark /\ pass'.at = "consider"
    BY <1>0, <1>1, <1>4 DEF PassStarts, Passes
  <2> QED
    BY <1>0, <1>4, <2>1, <2>2, NothingDecided DEF PassStarts, world
<1>5. CASE PassOver
  <2>1. CASE UNCHANGED records
    BY <1>0, <1>2, <1>5, <2>1, NothingDecided DEF PassOver, world
  <2>2. CASE Put("INVALID", {})
    BY <1>5, <2>2, PassRecords DEF PassOver, world, Statuses
  <2> QED
    BY <1>5, <2>1, <2>2 DEF PassOver
<1>6. CASE Consider
  BY <1>6, ConsiderKeeps
<1>7. CASE RecordMissed
  BY <1>7, RecordMissedKeeps
<1>8. CASE PassRefuses
  <2> DEFINE fire == pass.due.fire
  <2>1. pass.at = "admit" /\ launched' = launched /\ mark' = mark /\ PassGoes("armed")
        /\ now' = now /\ schedule' = schedule
    BY <1>8 DEF PassRefuses, world
  <2>2. fire \subseteq 0 .. now /\ Unused(fire, records, schedule.catchUp)
    BY <2>1 DEF TickInv, VerdictOpen
  <2>3. CASE UNCHANGED records
    <3>1. launched = <<>>
      BY <2>1, NoRunnerWaits
    <3> QED
      BY <1>0, <1>2, <2>1, <2>3, <3>1, NothingDecided
  <2>4. ASSUME NEW status \in Refusals \cup {"DEFERRED_BATTERY"}, Put(status, fire)
        PROVE  TickInv'
    <3>1. status \in Statuses \ {"RUN"} /\ status # "MISSED"
      BY TickAssumption DEF Refusals, Statuses
    <3> HIDE DEF fire
    <3> QED
      BY <2>1, <2>2, <2>4, <3>1, PassRecords
  <2> QED
    BY <1>8, <2>3, <2>4 DEF PassRefuses
<1>9. CASE PassLaunches
  <2>1. /\ pass.at = "admit" /\ PassGoes("armed") /\ mark' = mark
        /\ now' = now /\ schedule' = schedule /\ records' = records
        /\ launched' = Append(launched, pass.due.fire)
    BY <1>9 DEF PassLaunches, world
  <2>2. launched = <<>>
    BY <2>1, NoRunnerWaits
  <2>3. /\ pass.due.fire \subseteq 0 .. now
        /\ Unused(pass.due.fire, records, schedule.catchUp)
    BY <2>1 DEF TickInv, VerdictOpen
  <2>4. pass' \in Passes /\ pass'.at = "armed" /\ pass'.previous = pass.previous
    BY <1>2, <2>1
  <2>5. pass.due.fire \in SUBSET Nat
    BY <1>0 DEF Passes
  <2>6. /\ launched' \in Seq(SUBSET Nat) /\ Len(launched') = 1
        /\ launched'[1] = pass.due.fire
    BY <2>1, <2>2, <2>5
  <2>7. /\ records' \in Seq(Records) /\ Ordered(records, now)' /\ HaveCome(records)'
        /\ RetainedOpen' /\ RunsApart'
    BY <1>0, <2>1, NoRecordAdded
  <2>8. TypeInv'
    BY <1>0, <2>1, <2>4, <2>6, <2>7 DEF TypeInv
  <2>9. VerdictOpen' /\ LaunchOpen'
    BY <2>1, <2>3, <2>4, <2>6 DEF VerdictOpen, LaunchOpen
  <2> QED
    BY <2>7, <2>8, <2>9 DEF TickInv
<1>10. CASE LaunchFails
  <2>1. pass.at = "admit"
    BY <1>10 DEF LaunchFails
  <2>2. launched = <<>>
    BY <2>1, NoRunnerWaits
  <2> QED
    BY <1>0, <1>2, <1>10, <2>2, NothingDecided DEF LaunchFails, world
<1>11. CASE MarkTick
  BY <1>0, <1>1, <1>3, <1>11, NothingDecided DEF MarkTick, world
<1>12. CASE PassDies
  BY <1>0, <1>1, <1>3, <1>12, NothingDecided DEF PassDies, world
<1>13. CASE RunnerAdmits
  <2>1. /\ launched # <<>> /\ launched' = Tail(launched) /\ mark' = mark /\ pass' = pass
        /\ now' = now /\ schedule' = schedule
    BY <1>13 DEF RunnerAdmits, world
  <2>2. CASE UNCHANGED records
    <3>1. LaunchOpen
      BY DEF TickInv
    <3>2. launched' = <<>>
      BY <1>0, <2>1, <3>1 DEF LaunchOpen
    <3> QED
      BY <1>0, <2>1, <2>2, <3>2, NothingDecided
  <2>3. ASSUME NEW status \in Refusals \cup {"DEFERRED_BATTERY", "RUN", "INVALID"},
               Put(status, Head(launched))
        PROVE  TickInv'
    <3>1. status \in Statuses \ {"MISSED"}
      BY TickAssumption DEF Refusals, Statuses
    <3> QED
      BY <2>1, <2>3, <3>1, RunnerRecords
  <2> QED
    BY <1>13, <2>2, <2>3 DEF RunnerAdmits
<1>14. CASE RunnerVanishes
  <2>1. LaunchOpen
    BY DEF TickInv
  <2>2. launched' = <<>>
    BY <1>0, <1>14, <2>1 DEF RunnerVanishes, LaunchOpen
  <2> QED
    BY <1>0, <1>14, <2>2, NothingDecided DEF RunnerVanishes, world, history
<1>15. CASE RunEnds
  BY <1>0, <1>15, NothingDecided DEF RunEnds, world
<1>16. CASE ClockTicks
  <2>1. now' \in Nat /\ now <= now' /\ now' <= MaxNow /\ pass.previous <= now'
    <3>1. pass.previous \in Int
      BY <1>0 DEF Passes, Never
    <3> QED
      BY <1>0, <1>16, <3>1 DEF ClockTicks
  <2> QED
    BY <1>0, <1>16, <2>1, NothingDecided DEF ClockTicks
<1>17. CASE PowerChanges
  BY <1>0, <1>17, NothingDecided DEF PowerChanges
<1>18. CASE Edit
  BY <1>0, <1>18, NothingDecided DEF Edit
<1>19. CASE TypedRun
  BY <1>19, OtherRun DEF TypedRun, Put, world
<1>20. CASE AskedRun
  BY <1>20, OtherRun DEF AskedRun, world, history
<1>21. CASE UNCHANGED vars
  BY <1>0, <1>21, NothingDecided DEF vars, world
<1> QED
  BY <1>4, <1>5, <1>6, <1>7, <1>8, <1>9, <1>10, <1>11, <1>12, <1>13, <1>14, <1>15,
     <1>16, <1>17, <1>18, <1>19, <1>20, <1>21 DEF Next, PassStep

(* A slot is launched into a run at most once while a launched runner      *)
(* reaches its admission before the next pass (tick.py:316-360).           *)
THEOREM OneRunPerSlotHolds ==
  ASSUME ~SlowStart
  PROVE  Spec => []OneRunPerSlot
<1>1. TickInv => OneRunPerSlot
  BY DEF TickInv, RunsApart
<1> QED
  BY <1>1, TickStarts, TickStep, PTL DEF Spec

(* Missed is recorded once and not replayed: a slot counted in a MISSED    *)
(* record is in no other one, and without catch_up no run is launched for  *)
(* it (CHORES.DESIGN.md:36-38, 194).                                       *)
THEOREM MissedIsNotReplayedHolds ==
  ASSUME ~SlowStart
  PROVE  Spec => []MissedIsNotReplayed
<1>1. TickInv => MissedIsNotReplayed
  BY DEF TickInv, RunsApart
<1> QED
  BY <1>1, TickStarts, TickStep, PTL DEF Spec

-----------------------------------------------------------------------------
(* What the window passes over.  Nothing below asks when a runner reaches  *)
(* its admission.                                                          *)

(* A slot still in hand that the window has passed is answered, or         *)
(* reported, or behind a MISSED record.                                    *)
StillInHand ==
  \A s \in Nat \ {0} :
    /\ Waiting(s) /\ Consuming # {} /\ s <= WindowStart(mark)
    /\ s \notin answered /\ ~ReportedMissed(s)
    => BehindMissed(s)

SlotInv ==
  /\ TypeInv /\ Ordered(records, now) /\ firstMark \in Nat \cup {Never}
  /\ StillInHand

(* What a step may lose, as LostOnlyTwoWays has it.                        *)
LosesTwoWays ==
  \A s \in Minutes : Lost(s)' /\ ~Lost(s) => BehindMissed(s)' \/ Consuming = {}

(* A record that consumes a slot is the newest such; the others stay.      *)
LEMMA ConsumingAfter ==
  ASSUME TypeInv, NEW r \in Records, records' = Append(records, r),
         ~r.asked, SlotConsuming(r)
  PROVE  /\ Consuming' = Consuming \cup {Len(records) + 1}
         /\ \A i \in Consuming : records'[i] = records[i] /\ i < Len(records) + 1
         /\ records'[Len(records) + 1] = r
         /\ WindowStart(mark)' = r.at
         /\ \A s : ReportedMissed(s) => ReportedMissed(s)'
         /\ \A s : BehindMissed(s) => BehindMissed(s)'
<1> DEFINE n == Len(records)
<1>1. /\ DOMAIN records' = DOMAIN records \cup {n + 1}
      /\ DOMAIN records = 1 .. n /\ n \in Nat
      /\ \A i \in DOMAIN records : records'[i] = records[i] /\ i <= n
      /\ records'[n + 1] = r
  BY AddedRecords DEF TypeInv
<1> HIDE DEF n
<1>2. Consuming' = Consuming \cup {n + 1}
  BY <1>1 DEF Consuming, Cron, SlotConsuming
<1>3. \A i \in Consuming : records'[i] = records[i] /\ i \in Nat /\ i < n + 1
  BY <1>1 DEF Consuming, Cron
<1>4. WindowStart(mark)' = r.at
  <2>0. n + 1 \in Nat /\ DOMAIN records' = 1 .. (n + 1)
    BY <1>1
  <2>1. Consuming' \subseteq 1 .. (n + 1) /\ Consuming' # {} /\ n + 1 \in Nat
    <3>1. Consuming' \subseteq DOMAIN records'
      BY DEF Consuming, Cron
    <3> QED
      BY <1>2, <2>0, <3>1
  <2>2. Newest(Consuming') \in Consuming' /\ \A m \in Consuming' : m <= Newest(Consuming')
    BY <2>1, NewestIsLast
  <2>3. Newest(Consuming') \in 1 .. (n + 1) /\ n + 1 <= Newest(Consuming')
    BY <1>2, <2>1, <2>2
  <2>4. Newest(Consuming') = n + 1
    BY <1>1, <2>3
  <2>5. Newest(Consuming)' = Newest(Consuming')
    BY DEF Newest
  <2> QED
    BY <1>1, <2>1, <2>4, <2>5 DEF WindowStart
<1>5. \A s : ReportedMissed(s) => ReportedMissed(s)'
  BY <1>1 DEF ReportedMissed
<1>6. ASSUME NEW s, BehindMissed(s)
      PROVE  BehindMissed(s)'
  <2>1. PICK i \in Consuming : /\ records[i].status = "MISSED" /\ s <= records[i].at
                               /\ \A j \in Consuming : j < i => records[j].at < s
    BY <1>6 DEF BehindMissed
  <2>2. i \in Consuming' /\ records'[i].status = "MISSED" /\ s <= records'[i].at
    BY <1>2, <1>3, <2>1
  <2>3. ASSUME NEW j \in Consuming', j < i
        PROVE  records'[j].at < s
    <3>1. j # n + 1
      BY <1>1, <1>3, <2>1, <2>3
    <3>2. j \in Consuming
      BY <1>2, <3>1
    <3> QED
      BY <1>3, <2>1, <2>3, <3>2
  <2> QED
    BY <2>2, <2>3 DEF BehindMissed
<1>7. \A s : BehindMissed(s) => BehindMissed(s)'
  BY <1>6
<1> QED
  BY <1>1, <1>2, <1>3, <1>4, <1>5, <1>7 DEF n

(* A step that moves no window loses only slots that were in hand, and     *)
(* takes none in hand that the window has passed.                          *)
LEMMA WindowStays ==
  ASSUME SlotInv, schedule' = schedule,
         \/ records' = records
         \/ \E r \in Records : /\ records' = Append(records, r)
                               /\ r.asked \/ ~SlotConsuming(r)
                               /\ r.status # "MISSED",
         answered' = answered, firstMark' \in {firstMark, now},
         \A s \in Nat : Waiting(s)' => Waiting(s) \/ Consuming = {} \/ WindowStart(mark) < s
  PROVE  StillInHand' /\ LosesTwoWays
<1>0. TypeInv /\ Ordered(records, now) /\ firstMark \in Nat \cup {Never} /\ StillInHand
      /\ records \in Seq(Records) /\ now \in Nat /\ mark \in Nat \cup {Never} /\ mark <= now
  BY DEF SlotInv, TypeInv
<1>1. /\ Consuming' = Consuming
      /\ \A i \in Consuming : records'[i] = records[i]
      /\ \A s : ReportedMissed(s)' <=> ReportedMissed(s)
  <2>1. CASE records' = records
    BY <2>1 DEF Consuming, Cron, SlotConsuming, ReportedMissed
  <2>2. ASSUME NEW r \in Records, records' = Append(records, r),
               r.asked \/ ~SlotConsuming(r), r.status # "MISSED"
        PROVE  /\ Consuming' = Consuming
               /\ \A i \in Consuming : records'[i] = records[i]
               /\ \A s : ReportedMissed(s)' <=> ReportedMissed(s)
    <3> DEFINE n == Len(records)
    <3>1. /\ DOMAIN records' = DOMAIN records \cup {n + 1}
          /\ DOMAIN records = 1 .. n /\ n \in Nat
          /\ \A i \in DOMAIN records : records'[i] = records[i] /\ i <= n
          /\ records'[n + 1] = r
      BY <1>0, <2>2, AddedRecords
    <3> HIDE DEF n
    <3>2. Consuming' = Consuming
      BY <2>2, <3>1 DEF Consuming, Cron, SlotConsuming
    <3>3. \A i \in Consuming : records'[i] = records[i]
      BY <3>1 DEF Consuming, Cron
    <3>4. \A s : ReportedMissed(s)' <=> ReportedMissed(s)
      BY <2>2, <3>1 DEF ReportedMissed
    <3> QED
      BY <3>2, <3>3, <3>4
  <2> QED
    BY <2>1, <2>2
<1>2. Consuming # {} => WindowStart(mark)' = WindowStart(mark)
  <2>1. Newest(Consuming)' = Newest(Consuming)
    BY <1>1 DEF Newest
  <2>2. Consuming # {} => Newest(Consuming) \in Consuming
    <3>1. Consuming \subseteq 1 .. Len(records) /\ Len(records) \in Nat
      BY <1>0 DEF Consuming, Cron
    <3> QED
      BY <3>1, NewestIsLast
  <2> QED
    BY <1>1, <2>1, <2>2 DEF WindowStart
<1>3. \A s : BehindMissed(s)' <=> BehindMissed(s)
  BY <1>1 DEF BehindMissed
<1>4. WindowStart(mark) \in 0 .. now
  BY <1>0, WindowOpens
<1>5. StillInHand'
  <2>1. SUFFICES ASSUME NEW s \in Nat \ {0},
                        Waiting(s)', Consuming' # {}, s <= WindowStart(mark)',
                        s \notin answered', ~ReportedMissed(s)'
                 PROVE  BehindMissed(s)'
    BY DEF StillInHand
  <2>2. Consuming # {} /\ s <= WindowStart(mark) /\ s \notin answered /\ ~ReportedMissed(s)
    BY <1>1, <1>2, <2>1
  <2>3. Waiting(s)
    BY <1>4, <2>1, <2>2
  <2>4. BehindMissed(s)
    BY <1>0, <2>2, <2>3 DEF StillInHand
  <2> QED
    BY <1>3, <2>4
<1>6. LosesTwoWays
  <2>1. SUFFICES ASSUME NEW s \in Minutes, Lost(s)', ~Lost(s), Consuming # {}
                 PROVE  BehindMissed(s)'
    BY DEF LosesTwoWays
  <2>2. /\ firstMark' # Never /\ firstMark' < s /\ s <= WindowStart(mark)'
        /\ Matches(schedule, s) /\ ~ReportedMissed(s)' /\ s \notin answered'
    BY <2>1 DEF Lost
  <2>3. s <= WindowStart(mark) /\ s \notin answered /\ ~ReportedMissed(s)
    BY <1>1, <1>2, <2>1, <2>2
  <2>4. s \in Nat
    BY TickAssumption DEF Minutes
  <2>5. firstMark' = firstMark
    BY <1>0, <1>4, <2>2, <2>3, <2>4
  <2>6. Waiting(s)
    BY <2>1, <2>2, <2>3, <2>5 DEF Lost
  <2>7. s \in Nat \ {0}
    BY <1>0, <2>2, <2>4, <2>5 DEF Never
  <2>8. BehindMissed(s)
    BY <1>0, <2>1, <2>3, <2>6, <2>7 DEF StillInHand
  <2> QED
    BY <1>3, <2>8
<1> QED
  BY <1>5, <1>6

(* A record that answers for the slots in hand and in the window loses     *)
(* none.                                                                   *)
LEMMA AnsweredLosesNone ==
  ASSUME SlotInv, NEW r \in Records, records' = Append(records, r),
         ~r.asked, SlotConsuming(r), r.at = now,
         schedule' = schedule, firstMark' = firstMark, Answer,
         \A s \in Nat : Waiting(s)' => Waiting(s)
  PROVE  StillInHand' /\ LosesTwoWays
<1>0. TypeInv /\ Ordered(records, now) /\ firstMark \in Nat \cup {Never} /\ StillInHand
      /\ now \in Nat /\ mark \in Nat \cup {Never} /\ mark <= now /\ now <= MaxNow
      /\ MaxNow \in Nat /\ MaxNow <= Horizon
  BY TickAssumption DEF SlotInv, TypeInv
<1>1. /\ WindowStart(mark)' = now
      /\ \A s : ReportedMissed(s) => ReportedMissed(s)'
  BY <1>0, ConsumingAfter
<1>2. ASSUME NEW s \in Nat \ {0}, s <= now, s \notin answered'
      PROVE  s \notin answered /\ s \notin Window /\ ~Waiting(s)
  <2>1. s \in 1 .. now
    BY <1>0, <1>2
  <2> QED
    BY <1>2, <2>1 DEF Answer
<1>3. StillInHand'
  BY <1>1, <1>2 DEF StillInHand
<1>4. LosesTwoWays
  <2>1. SUFFICES ASSUME NEW s \in Minutes, Lost(s)', ~Lost(s)
                 PROVE  FALSE
    BY DEF LosesTwoWays
  <2>2. /\ firstMark # Never /\ firstMark < s /\ s <= now
        /\ Matches(schedule, s) /\ ~ReportedMissed(s) /\ s \notin answered'
    BY <1>1, <2>1 DEF Lost
  <2>3. s \in Nat \ {0}
    BY <1>0, <2>2 DEF Never, Minutes
  <2>4. s \notin answered /\ s \notin Window /\ ~Waiting(s)
    BY <1>2, <2>2, <2>3
  <2>5. WindowStart(mark) \in 0 .. now
    BY <1>0, WindowOpens
  <2>6. s <= WindowStart(mark)
    <3>1. Window = SlotsIn(schedule, WindowStart(mark), now)
      <4>1. WindowStart(mark) \in Nat /\ now \in Nat /\ now <= WindowStart(mark) + Horizon
        BY <1>0, <2>5, CalendarAssumption
      <4> QED
        BY <4>1, SlotsBetweenAreTheSlots DEF Window
    <3>2. ~(s \in (WindowStart(mark) + 1) .. now)
      BY <2>2, <2>4, <3>1 DEF SlotsIn
    <3> QED
      BY <1>0, <2>2, <2>3, <2>5, <3>2
  <2> QED
    BY <2>1, <2>2, <2>4, <2>6 DEF Lost
<1> QED
  BY <1>3, <1>4

(* A MISSED record opens the window past slots it does not count: they are *)
(* behind it.                                                              *)
LEMMA MissedLosesBehind ==
  ASSUME SlotInv, NEW r \in Records, records' = Append(records, r),
         ~r.asked, r.status = "MISSED", r.at = now,
         schedule' = schedule, firstMark' = firstMark, answered' = answered,
         \A s \in Nat : Waiting(s)' => Waiting(s)
  PROVE  StillInHand' /\ LosesTwoWays
<1>0. TypeInv /\ Ordered(records, now) /\ firstMark \in Nat \cup {Never} /\ StillInHand
      /\ now \in Nat /\ mark \in Nat \cup {Never} /\ mark <= now /\ MaxNow \in Nat
  BY TickAssumption DEF SlotInv, TypeInv
<1> DEFINE n == Len(records)
<1>1. /\ Consuming' = Consuming \cup {n + 1}
      /\ \A i \in Consuming : records'[i] = records[i] /\ i < n + 1
      /\ records'[n + 1] = r
      /\ WindowStart(mark)' = now
      /\ \A s : ReportedMissed(s) => ReportedMissed(s)'
      /\ \A s : BehindMissed(s) => BehindMissed(s)'
  <2>1. SlotConsuming(r)
    BY DEF SlotConsuming
  <2> QED
    BY <1>0, <2>1, ConsumingAfter
<1>2. n \in Nat /\ DOMAIN records = 1 .. n
  BY <1>0 DEF TypeInv
<1> HIDE DEF n
<1>3. /\ WindowStart(mark) \in 0 .. now
      /\ \A i \in Consuming : records[i].at <= WindowStart(mark) /\ records[i].at \in Nat
  <2>1. \A i \in Consuming : records[i].at \in Nat
    BY <1>0, RecordTyped DEF Consuming, Cron
  <2> QED
    BY <1>0, <2>1, WindowOpens
<1>4. ASSUME NEW s \in Nat, s <= now,
             Consuming = {} \/ WindowStart(mark) < s
      PROVE  BehindMissed(s)'
  <2>1. n + 1 \in Consuming' /\ records'[n + 1].status = "MISSED" /\ s <= records'[n + 1].at
    BY <1>1, <1>4
  <2>2. ASSUME NEW j \in Consuming', j < n + 1
        PROVE  records'[j].at < s
    <3>1. j \in Consuming
      BY <1>1, <1>2, <2>2
    <3>2. records'[j] = records[j] /\ records[j].at <= WindowStart(mark)
          /\ records[j].at \in Nat /\ WindowStart(mark) < s
      BY <1>1, <1>3, <1>4, <3>1
    <3> QED
      BY <1>3, <3>2
  <2> QED
    BY <2>1, <2>2 DEF BehindMissed
<1>5. ASSUME NEW s \in Nat \ {0}, s <= now, Waiting(s), s \notin answered, ~ReportedMissed(s)
      PROVE  BehindMissed(s)'
  <2>1. CASE Consuming = {} \/ WindowStart(mark) < s
    BY <1>4, <1>5, <2>1
  <2>2. CASE Consuming # {} /\ ~(WindowStart(mark) < s)
    <3>1. s <= WindowStart(mark)
      BY <1>3, <2>2
    <3>2. BehindMissed(s)
      BY <1>0, <1>5, <2>2, <3>1 DEF StillInHand
    <3> QED
      BY <1>1, <3>2
  <2> QED
    BY <2>1, <2>2
<1>6. StillInHand'
  <2>1. SUFFICES ASSUME NEW s \in Nat \ {0},
                        Waiting(s)', s <= WindowStart(mark)',
                        s \notin answered', ~ReportedMissed(s)'
                 PROVE  BehindMissed(s)'
    BY DEF StillInHand
  <2> QED
    BY <1>1, <1>5, <2>1
<1>7. LosesTwoWays
  <2>1. SUFFICES ASSUME NEW s \in Minutes, Lost(s)', ~Lost(s)
                 PROVE  BehindMissed(s)'
    BY DEF LosesTwoWays
  <2>2. /\ firstMark # Never /\ firstMark < s /\ s <= now
        /\ Matches(schedule, s) /\ ~ReportedMissed(s) /\ s \notin answered
    BY <1>1, <2>1 DEF Lost
  <2>3. s \in Nat \ {0}
    BY <1>0, <2>2 DEF Never, Minutes
  <2>4. CASE Waiting(s)
    BY <1>5, <2>2, <2>3, <2>4
  <2>5. CASE ~Waiting(s)
    <3>1. ~(s <= WindowStart(mark))
      BY <2>1, <2>2, <2>5 DEF Lost
    <3>2. WindowStart(mark) < s
      BY <1>3, <2>3, <3>1
    <3> QED
      BY <1>4, <2>2, <2>3, <3>2
  <2> QED
    BY <2>4, <2>5
<1> QED
  BY <1>6, <1>7

(* A step that records nothing.                                            *)
LEMMA NothingRecorded ==
  ASSUME SlotInv, records' = records, schedule' = schedule,
         now' \in Nat, now <= now', now' <= MaxNow,
         mark' \in {mark, now}, pass' \in Passes, pass'.previous <= now',
         launched' \in Seq(SUBSET Nat),
         answered' = answered, firstMark' \in {firstMark, now},
         \A s \in Nat : Waiting(s)' => Waiting(s) \/ Consuming = {} \/ WindowStart(mark) < s
  PROVE  SlotInv' /\ LosesTwoWays
<1>0. TypeInv /\ Ordered(records, now) /\ firstMark \in Nat \cup {Never} /\ now \in Nat
      /\ mark \in Nat \cup {Never} /\ mark <= now /\ records \in Seq(Records)
  BY DEF SlotInv, TypeInv
<1>1. StillInHand' /\ LosesTwoWays
  BY WindowStays
<1>2. TypeInv'
  <2>1. mark' \in Nat \cup {Never} /\ mark' <= now'
    BY <1>0 DEF Never
  <2> QED
    BY <1>0, <2>1 DEF TypeInv
<1>3. Ordered(records, now)'
  <2>1. \A i \in DOMAIN records : records[i].at <= now'
    <3>1. \A i \in DOMAIN records : records[i].at \in Nat /\ records[i].at <= now
      BY <1>0, RecordTyped DEF Ordered
    <3> QED
      BY <1>0, <3>1
  <2> QED
    BY <1>0, <2>1 DEF Ordered
<1>4. (firstMark \in Nat \cup {Never})'
  BY <1>0
<1> QED
  BY <1>1, <1>2, <1>3, <1>4 DEF SlotInv

(* A step that records something keeps the types and the order.            *)
LEMMA SomethingRecorded ==
  ASSUME SlotInv, NEW r \in Records, r.at = now, records' = Append(records, r),
         now' = now, mark' = mark, pass' \in Passes, pass'.previous <= now,
         launched' \in Seq(SUBSET Nat), firstMark' = firstMark
  PROVE  TypeInv' /\ Ordered(records, now)' /\ (firstMark \in Nat \cup {Never})'
<1>0. TypeInv /\ Ordered(records, now) /\ firstMark \in Nat \cup {Never} /\ now \in Nat
      /\ records \in Seq(Records)
  BY DEF SlotInv, TypeInv
<1> DEFINE n == Len(records)
<1>1. /\ records' \in Seq(Records)
      /\ DOMAIN records' = DOMAIN records \cup {n + 1}
      /\ DOMAIN records = 1 .. n /\ n \in Nat
      /\ \A i \in DOMAIN records : records'[i] = records[i] /\ i <= n
      /\ records'[n + 1] = r
  BY <1>0, AddedRecords
<1> HIDE DEF n
<1>2. TypeInv'
  BY <1>0, <1>1 DEF TypeInv
<1>3. Ordered(records, now)'
  <2>1. \A i \in DOMAIN records' : records'[i].at <= now'
    BY <1>0, <1>1 DEF Ordered
  <2>2. ASSUME NEW i \in DOMAIN records', NEW j \in DOMAIN records', i <= j
        PROVE  records'[i].at <= records'[j].at
    <3>1. CASE j = n + 1
      BY <1>1, <2>1, <3>1
    <3>2. CASE j # n + 1
      <4>1. j \in DOMAIN records /\ j <= n
        BY <1>1, <3>2
      <4>2. i \in DOMAIN records
        BY <1>1, <2>2, <4>1
      <4> QED
        BY <1>0, <1>1, <2>2, <4>1, <4>2 DEF Ordered
    <3> QED
      BY <3>1, <3>2
  <2> QED
    BY <2>1, <2>2 DEF Ordered
<1>4. (firstMark \in Nat \cup {Never})'
  BY <1>0
<1> QED
  BY <1>2, <1>3, <1>4

(* A record of any slots made now is a record.                             *)
LEMMA SlotRecordIs ==
  ASSUME now \in Nat, NEW status \in Statuses, NEW slots \in SUBSET Nat
  PROVE  /\ Record(status, slots, FALSE) \in Records
         /\ Record(status, slots, FALSE).status = status
         /\ Record(status, slots, FALSE).at = now
         /\ Record(status, slots, FALSE).slots = slots
         /\ ~Record(status, slots, FALSE).asked
  BY DEF Record, Records

(* What is in hand through the records alone stays so while they stay.     *)
LEMMA RetainedStays ==
  ASSUME records' = records
  PROVE  Retained' = Retained /\ Latest' = Latest
  BY DEF Retained, Latest, Cron, Newest

(* A runner that leaves takes its slots with it, and no other.             *)
LEMMA LaunchedRest ==
  ASSUME launched \in Seq(SUBSET Nat), launched # <<>>
  PROVE  /\ Tail(launched) \in Seq(SUBSET Nat) /\ Head(launched) \in SUBSET Nat
         /\ \A s : (\E i \in DOMAIN Tail(launched) : s \in Tail(launched)[i])
                     => \E i \in DOMAIN launched : s \in launched[i]
         /\ \A s : s \in Head(launched) => \E i \in DOMAIN launched : s \in launched[i]
<1> DEFINE n == Len(launched)
<1>1. /\ n \in Nat /\ n >= 1 /\ DOMAIN launched = 1 .. n
      /\ Tail(launched) \in Seq(SUBSET Nat) /\ Head(launched) = launched[1]
      /\ DOMAIN Tail(launched) = 1 .. (n - 1)
      /\ \A i \in 1 .. (n - 1) : Tail(launched)[i] = launched[i + 1]
  OBVIOUS
<1> HIDE DEF n
<1>2. 1 \in DOMAIN launched /\ launched[1] \in SUBSET Nat
  BY <1>1
<1>3. ASSUME NEW s, NEW i \in DOMAIN Tail(launched), s \in Tail(launched)[i]
      PROVE  \E k \in DOMAIN launched : s \in launched[k]
  <2>1. i + 1 \in DOMAIN launched /\ s \in launched[i + 1]
    BY <1>1, <1>3
  <2> QED
    BY <2>1
<1> QED
  BY <1>1, <1>2, <1>3

(* The verdict of a pass is about slots kept for AC power, or about slots  *)
(* the window has not passed.                                              *)
LEMMA DueIsAhead ==
  ASSUME TypeInv, Ordered(records, now)
  PROVE  /\ Due \in [fire : SUBSET Nat, missed : SUBSET Nat]
         /\ \A s \in Due.fire \cup Due.missed :
              \/ Retained /\ s \in Latest.slots
              \/ Consuming = {}
              \/ WindowStart(mark) < s
<1>1. CASE Retained
  <2>1. Due = [fire |-> Latest.slots, missed |-> {}]
    BY <1>1 DEF Due
  <2>2. Newest(Cron) \in DOMAIN records
    BY <1>1, LatestIsRecord DEF Retained
  <2>3. Latest.slots \subseteq Nat
    BY <2>2, RecordTyped DEF Latest
  <2> HIDE DEF Latest
  <2> QED
    BY <1>1, <2>1, <2>3
<1>2. CASE ~Retained
  <2> DEFINE start == WindowStart(pass.previous)
             slots == SlotsBetween(schedule, start, now)
             newest == {Newest(slots)}
  <2>0. now \in Nat /\ now <= MaxNow
    BY DEF TypeInv
  <2>1. start \in 0 .. now
    <3>1. pass.previous \in Nat \cup {Never} /\ pass.previous <= now
      BY DEF TypeInv, Passes
    <3> QED
      BY <3>1, WindowOpens
  <2>2. Due = DuePolicy(schedule, start, now, Grace)
    BY <1>2 DEF Due
  <2>3. Consuming # {} => start = WindowStart(mark)
    BY DEF WindowStart
  <2> HIDE DEF start
  <2>4. slots \subseteq (start + 1) .. now
    <3>1. start \in Nat /\ now \in Nat /\ now <= start + Horizon
      BY <2>0, <2>1, CalendarAssumption, TickAssumption
    <3> QED
      BY <3>1, SlotsBetweenAreTheSlots DEF SlotsIn
  <2> HIDE DEF slots
  <2>5. slots # {} => Newest(slots) \in slots
    <3>1. start + 1 \in Int /\ now \in Int
      BY <2>0, <2>1
    <3>2. slots # {} => \E y \in slots : \A x \in slots : x <= y
      BY <2>4, <3>1, Greatest
    <3> QED
      BY <3>2 DEF Newest
  <2>6. /\ Due.fire \subseteq slots /\ Due.missed \subseteq slots
        /\ Due = [fire |-> Due.fire, missed |-> Due.missed]
    <3>1. CASE slots = {}
      <4>1. Due = [fire |-> {}, missed |-> {}]
        BY <2>2, <3>1 DEF DuePolicy, NothingDue, slots
      <4> QED
        BY <4>1
    <3>2. CASE slots # {} /\ now - Newest(slots) <= Grace
      <4>1. Due = [fire |-> newest, missed |-> slots \ newest]
        BY <2>2, <3>2 DEF DuePolicy, slots
      <4> QED
        BY <2>5, <3>2, <4>1
    <3>3. CASE slots # {} /\ ~(now - Newest(slots) <= Grace)
      <4>1. Due = [fire |-> IF schedule.catchUp THEN newest ELSE {}, missed |-> slots]
        BY <2>2, <3>3 DEF DuePolicy, slots
      <4> QED
        BY <2>5, <3>3, <4>1
    <3> QED
      BY <3>1, <3>2, <3>3
  <2>7. ASSUME NEW s \in slots
        PROVE  s \in Nat /\ start < s
    BY <2>0, <2>1, <2>4, <2>7
  <2> HIDE DEF Due
  <2> QED
    BY <2>3, <2>6, <2>7
<1> QED
  BY <1>1, <1>2

(* A pass that records nothing and hands nothing over: what waits after    *)
(* such a step is its verdict, or waited before.                           *)
LEMMA PassOnly ==
  ASSUME SlotInv, records' = records, schedule' = schedule, now' = now,
         launched' = launched, mark' \in {mark, now},
         pass' \in Passes, pass'.previous <= now,
         answered' = answered, firstMark' \in {firstMark, now},
         \A s \in Nat :
           pass'.at \in {"missed", "admit"} /\ s \in pass'.due.fire \cup pass'.due.missed
             => Waiting(s) \/ Consuming = {} \/ WindowStart(mark) < s
  PROVE  SlotInv' /\ LosesTwoWays
<1>1. now \in Nat /\ now <= MaxNow /\ launched \in Seq(SUBSET Nat)
  BY DEF SlotInv, TypeInv
<1>2. \A s \in Nat : Waiting(s)' => Waiting(s) \/ Consuming = {} \/ WindowStart(mark) < s
  <2>1. Retained' = Retained /\ Latest' = Latest
    BY RetainedStays
  <2> QED
    BY <2>1 DEF Waiting
<1> QED
  BY <1>1, <1>2, NothingRecorded

(* The runner and the pass record what they hold: it stays on record when  *)
(* it is kept for AC power, and is answered when it is not.                *)
LEMMA SlotsRecorded ==
  ASSUME SlotInv, NEW status \in Statuses \ {"MISSED"}, NEW slots \in SUBSET Nat,
         Put(status, slots),
         now' = now, schedule' = schedule, mark' = mark, firstMark' = firstMark,
         pass' \in Passes, pass'.previous <= now, launched' \in Seq(SUBSET Nat),
         \/ status \in {"DEFERRED_BATTERY", "INVALID"} /\ answered' = answered
         \/ status \notin {"DEFERRED_BATTERY", "INVALID"} /\ Answer,
         status = "DEFERRED_BATTERY" => \A s \in slots : Waiting(s),
         pass'.at \in {"missed", "admit"} => pass'.at = pass.at /\ pass'.due = pass.due,
         \A s : (\E i \in DOMAIN launched' : s \in launched'[i])
                  => \E i \in DOMAIN launched : s \in launched[i]
  PROVE  SlotInv' /\ LosesTwoWays
<1> DEFINE r == Record(status, slots, FALSE)
<1>0. TypeInv /\ now \in Nat
  BY DEF SlotInv, TypeInv
<1>1. /\ r \in Records /\ r.status = status /\ r.at = now /\ r.slots = slots
      /\ ~r.asked
  <2>1. status \in Statuses
    OBVIOUS
  <2> QED
    BY <1>0, <2>1, SlotRecordIs
<1>2. records' = Append(records, r)
  BY DEF Put
<1> HIDE DEF r
<1>3. TypeInv' /\ Ordered(records, now)' /\ (firstMark \in Nat \cup {Never})'
  BY <1>1, <1>2, SomethingRecorded
<1>4. \A s \in Nat : Waiting(s)' => Waiting(s)
  <2>1. Latest' = r
    BY <1>0, <1>1, <1>2, LatestAfter
  <2>2. \A s : Retained' /\ s \in Latest'.slots => Waiting(s)
    BY <1>1, <2>1 DEF Retained
  <2>3. \A s \in Nat : pass'.at \in {"missed", "admit"}
                        /\ s \in pass'.due.fire \cup pass'.due.missed => Waiting(s)
    BY DEF Waiting
  <2>4. \A s \in Nat : (\E i \in DOMAIN launched' : s \in launched'[i]) => Waiting(s)
    BY DEF Waiting
  <2>5. ASSUME NEW s \in Nat, Waiting(s)'
        PROVE  \/ pass'.at \in {"missed", "admit"} /\ s \in pass'.due.fire \cup pass'.due.missed
               \/ \E i \in DOMAIN launched' : s \in launched'[i]
               \/ Retained' /\ s \in Latest'.slots
    BY <2>5 DEF Waiting
  <2> QED
    BY <2>2, <2>3, <2>4, <2>5
<1>5. StillInHand' /\ LosesTwoWays
  <2>1. CASE status \in {"DEFERRED_BATTERY", "INVALID"} /\ answered' = answered
    <3>1. ~SlotConsuming(r) /\ r.status # "MISSED"
      BY <1>1, <2>1 DEF SlotConsuming
    <3> QED
      BY <1>1, <1>2, <1>4, <2>1, <3>1, WindowStays
  <2>2. CASE status \notin {"DEFERRED_BATTERY", "INVALID"} /\ Answer
    <3>1. SlotConsuming(r)
      BY <1>1, <2>2 DEF SlotConsuming
    <3> QED
      BY <1>1, <1>2, <1>4, <2>2, <3>1, AnsweredLosesNone
  <2> QED
    BY <2>1, <2>2
<1> QED
  BY <1>3, <1>5 DEF SlotInv

(* Before the first pass nothing is in hand.                               *)
LEMMA SlotsStart ==
  ASSUME Init
  PROVE  SlotInv
<1>1. TickInv
  BY TickStarts
<1>2. Consuming = {}
  BY DEF Init, Consuming, Cron
<1>3. firstMark \in Nat \cup {Never}
  BY DEF Init
<1> QED
  BY <1>1, <1>2, <1>3 DEF TickInv, SlotInv, StillInHand

(* Every step, whatever it records, launches or loses.                     *)
LEMMA SlotStep ==
  ASSUME SlotInv, Next
  PROVE  SlotInv' /\ LosesTwoWays
<1>0. /\ TypeInv /\ Ordered(records, now) /\ now \in Nat /\ now <= MaxNow
      /\ pass \in Passes /\ pass.previous <= now
      /\ mark \in Nat \cup {Never} /\ mark <= now /\ launched \in Seq(SUBSET Nat)
      /\ MaxNow \in Nat /\ Never <= now
      /\ pass.due.fire \in SUBSET Nat /\ pass.due.missed \in SUBSET Nat
      /\ pass.previous \in Nat \cup {Never}
  BY TickAssumption DEF SlotInv, TypeInv, Passes, Never
<1>1. Idle \in Passes /\ Idle.previous = Never /\ Idle.at = "idle"
  BY DEF Idle, Passes, NothingDue, Never
<1>2. ASSUME NEW there \in {"idle", "consider", "missed", "admit", "armed"}, PassGoes(there)
      PROVE  /\ pass' \in Passes /\ pass'.at = there /\ pass'.due = pass.due
             /\ pass'.previous = pass.previous
  BY <1>0, <1>2 DEF PassGoes, Passes
<1>3. CASE PassStarts
  <2>1. pass' \in Passes /\ pass'.previous = mark /\ pass'.at = "consider"
    BY <1>0, <1>1, <1>3 DEF PassStarts, Passes
  <2> QED
    BY <1>0, <1>3, <2>1, PassOnly DEF PassStarts, world, history
<1>4. CASE PassOver
  <2>1. pass' \in Passes /\ pass'.at = "armed" /\ pass'.previous <= now
    BY <1>0, <1>2, <1>4 DEF PassOver
  <2>2. CASE UNCHANGED records
    BY <1>0, <1>4, <2>1, <2>2, PassOnly DEF PassOver, world, history
  <2>3. CASE Put("INVALID", {})
    BY <1>0, <1>4, <2>1, <2>3, SlotsRecorded DEF PassOver, world, history, Statuses
  <2> QED
    BY <1>4, <2>2, <2>3 DEF PassOver
<1>5. CASE Consider
  <2> DEFINE next == IF Due.missed # {} THEN "missed"
                     ELSE IF Retained \/ Due.fire # {} THEN "admit" ELSE "armed"
  <2>1. pass' = [pass EXCEPT !.due = Due, !.retained = Retained, !.at = next]
    BY <1>5 DEF Consider, Considered
  <2>2. next \in {"missed", "admit", "armed"}
    OBVIOUS
  <2>3. Retained \in BOOLEAN
    BY DEF Retained
  <2>4. /\ Due \in [fire : SUBSET Nat, missed : SUBSET Nat]
        /\ \A s \in Due.fire \cup Due.missed :
             \/ Retained /\ s \in Latest.slots
             \/ Consuming = {}
             \/ WindowStart(mark) < s
    BY <1>0, DueIsAhead
  <2> HIDE DEF next
  <2>5. pass' \in Passes /\ pass'.due = Due /\ pass'.previous = pass.previous
    BY <1>0, <2>1, <2>2, <2>3, <2>4 DEF Passes
  <2>6. \A s \in Nat : s \in pass'.due.fire \cup pass'.due.missed
                         => Waiting(s) \/ Consuming = {} \/ WindowStart(mark) < s
    BY <2>4, <2>5 DEF Waiting
  <2>7. /\ records' = records /\ schedule' = schedule /\ now' = now /\ launched' = launched
        /\ mark' = mark /\ answered' = answered /\ firstMark' = firstMark
    BY <1>5 DEF Consider, Considered, world, history
  <2> QED
    BY <1>0, <2>5, <2>6, <2>7, PassOnly
<1>6. CASE RecordMissed
  <2> DEFINE r == Record("MISSED", pass.due.missed, FALSE)
             there == IF pass.due.fire = {} THEN "armed" ELSE "admit"
  <2>1. /\ pass.at = "missed" /\ records' = Append(records, r) /\ PassGoes(there)
        /\ now' = now /\ schedule' = schedule /\ mark' = mark /\ launched' = launched
        /\ firstMark' = firstMark /\ answered' = answered
    BY <1>6 DEF RecordMissed, Put, world, history
  <2>2. there \in {"idle", "consider", "missed", "admit", "armed"}
    OBVIOUS
  <2>3. r \in Records /\ r.status = "MISSED" /\ r.at = now /\ ~r.asked
    <3>1. "MISSED" \in Statuses
      BY DEF Statuses
    <3> QED
      BY <1>0, <3>1, SlotRecordIs
  <2> HIDE DEF r, there
  <2>4. pass' \in Passes /\ pass'.due = pass.due /\ pass'.previous <= now
    BY <1>0, <1>2, <2>1, <2>2
  <2>5. TypeInv' /\ Ordered(records, now)' /\ (firstMark \in Nat \cup {Never})'
    BY <1>0, <2>1, <2>3, <2>4, SomethingRecorded
  <2>6. \A s \in Nat : Waiting(s)' => Waiting(s)
    <3>1. Latest' = r
      BY <1>0, <2>1, <2>3, LatestAfter
    <3>2. ~Retained'
      BY <2>3, <3>1 DEF Retained
    <3> QED
      BY <2>1, <2>4, <3>2 DEF Waiting
  <2>7. StillInHand' /\ LosesTwoWays
    BY <2>1, <2>3, <2>6, MissedLosesBehind
  <2> QED
    BY <2>5, <2>7 DEF SlotInv
<1>7. CASE PassRefuses
  <2> DEFINE fire == pass.due.fire
  <2>1. /\ pass.at = "admit" /\ PassGoes("armed")
        /\ now' = now /\ schedule' = schedule /\ mark' = mark /\ launched' = launched
        /\ firstMark' = firstMark
    BY <1>7 DEF PassRefuses, world
  <2>2. pass' \in Passes /\ pass'.at = "armed" /\ pass'.previous <= now
    BY <1>0, <1>2, <2>1
  <2>3. \A s \in fire : Waiting(s)
    BY <2>1 DEF Waiting
  <2>4. CASE UNCHANGED records /\ UNCHANGED answered
    BY <1>0, <2>1, <2>2, <2>4, PassOnly
  <2>5. ASSUME NEW status \in Refusals, Put(status, fire), Answer
        PROVE  SlotInv' /\ LosesTwoWays
    <3>1. /\ status \in Statuses \ {"MISSED"}
          /\ status \notin {"DEFERRED_BATTERY", "INVALID"}
      BY TickAssumption DEF Refusals, Statuses
    <3>2. fire \in SUBSET Nat
      BY <1>0
    <3> HIDE DEF fire
    <3> QED
      BY <1>0, <2>1, <2>2, <2>5, <3>1, <3>2, SlotsRecorded
  <2>6. CASE Put("DEFERRED_BATTERY", fire) /\ UNCHANGED answered
    <3>1. "DEFERRED_BATTERY" \in Statuses \ {"MISSED"} /\ fire \in SUBSET Nat
      BY <1>0 DEF Statuses
    <3> HIDE DEF fire
    <3> QED
      BY <1>0, <2>1, <2>2, <2>3, <2>6, <3>1, SlotsRecorded
  <2> QED
    BY <1>7, <2>4, <2>5, <2>6 DEF PassRefuses
<1>8. CASE PassLaunches
  <2>1. /\ pass.at = "admit" /\ PassGoes("armed") /\ records' = records
        /\ now' = now /\ schedule' = schedule /\ mark' = mark
        /\ launched' = Append(launched, pass.due.fire)
        /\ firstMark' = firstMark /\ answered' = answered
    BY <1>8 DEF PassLaunches, world, history
  <2>2. pass' \in Passes /\ pass'.at = "armed" /\ pass'.previous <= now
    BY <1>0, <1>2, <2>1
  <2>3. /\ launched' \in Seq(SUBSET Nat)
        /\ \A s : (\E i \in DOMAIN launched' : s \in launched'[i])
                    => s \in pass.due.fire \/ \E i \in DOMAIN launched : s \in launched[i]
    BY <1>0, <2>1
  <2>4. Retained' = Retained /\ Latest' = Latest
    BY <2>1, RetainedStays
  <2>5. \A s \in Nat : Waiting(s)' => Waiting(s)
    BY <2>1, <2>2, <2>3, <2>4 DEF Waiting
  <2> QED
    BY <1>0, <2>1, <2>2, <2>3, <2>5, NothingRecorded
<1>9. CASE LaunchFails
  <2>1. pass' \in Passes /\ pass'.at = "armed" /\ pass'.previous <= now
    BY <1>0, <1>2, <1>9 DEF LaunchFails
  <2> QED
    BY <1>0, <1>9, <2>1, PassOnly DEF LaunchFails, world, history
<1>10. CASE MarkTick
  BY <1>0, <1>1, <1>10, PassOnly DEF MarkTick, world
<1>11. CASE PassDies
  BY <1>0, <1>1, <1>11, PassOnly DEF PassDies, world, history
<1>12. CASE RunnerAdmits
  <2> DEFINE held == Head(launched)
  <2>1. /\ launched # <<>> /\ launched' = Tail(launched) /\ pass' = pass
        /\ now' = now /\ schedule' = schedule /\ mark' = mark /\ firstMark' = firstMark
    BY <1>12 DEF RunnerAdmits, world
  <2>2. /\ launched' \in Seq(SUBSET Nat) /\ held \in SUBSET Nat
        /\ \A s : (\E i \in DOMAIN launched' : s \in launched'[i])
                    => \E i \in DOMAIN launched : s \in launched[i]
        /\ \A s : s \in held => \E i \in DOMAIN launched : s \in launched[i]
    BY <1>0, <2>1, LaunchedRest
  <2>3. \A s \in held : Waiting(s)
    BY <2>2 DEF Waiting
  <2>4. ASSUME NEW status \in Refusals \cup {"RUN"}, Put(status, held), Answer
        PROVE  SlotInv' /\ LosesTwoWays
    <3>1. /\ status \in Statuses \ {"MISSED"}
          /\ status \notin {"DEFERRED_BATTERY", "INVALID"}
      BY TickAssumption DEF Refusals, Statuses
    <3> HIDE DEF held
    <3> QED
      BY <1>0, <2>1, <2>2, <2>4, <3>1, SlotsRecorded
  <2>5. ASSUME NEW status \in {"DEFERRED_BATTERY", "INVALID"}, Put(status, held),
               UNCHANGED answered
        PROVE  SlotInv' /\ LosesTwoWays
    <3>1. status \in Statuses \ {"MISSED"}
      BY DEF Statuses
    <3> HIDE DEF held
    <3> QED
      BY <1>0, <2>1, <2>2, <2>3, <2>5, <3>1, SlotsRecorded
  <2>6. CASE UNCHANGED <<records, answered>>
    <3>1. Retained' = Retained /\ Latest' = Latest
      BY <2>1, <2>6, RetainedStays
    <3>2. \A s \in Nat : Waiting(s)' => Waiting(s)
      BY <2>1, <2>2, <3>1 DEF Waiting
    <3> HIDE DEF held
    <3> QED
      BY <1>0, <2>1, <2>2, <2>6, <3>2, NothingRecorded
  <2> QED
    BY <1>12, <2>4, <2>5, <2>6 DEF RunnerAdmits
<1>13. CASE RunnerVanishes
  <2>1. /\ launched # <<>> /\ launched' = Tail(launched) /\ pass' = pass /\ records' = records
        /\ now' = now /\ schedule' = schedule /\ mark' = mark /\ firstMark' = firstMark
        /\ answered' = answered
    BY <1>13 DEF RunnerVanishes, world, history
  <2>2. /\ launched' \in Seq(SUBSET Nat)
        /\ \A s : (\E i \in DOMAIN launched' : s \in launched'[i])
                    => \E i \in DOMAIN launched : s \in launched[i]
    BY <1>0, <2>1, LaunchedRest
  <2>3. Retained' = Retained /\ Latest' = Latest
    BY <2>1, RetainedStays
  <2>4. \A s \in Nat : Waiting(s)' => Waiting(s)
    BY <2>1, <2>2, <2>3 DEF Waiting
  <2> QED
    BY <1>0, <2>1, <2>2, <2>4, NothingRecorded
<1>14. CASE RunEnds \/ PowerChanges \/ Edit
  <2>1. /\ launched' = launched /\ pass' = pass /\ records' = records
        /\ now' = now /\ schedule' = schedule /\ mark' = mark /\ firstMark' = firstMark
        /\ answered' = answered
    BY <1>14 DEF RunEnds, PowerChanges, Edit, world, history
  <2>2. \A s \in Nat : pass.at \in {"missed", "admit"}
                         /\ s \in pass.due.fire \cup pass.due.missed => Waiting(s)
    BY DEF Waiting
  <2> QED
    BY <1>0, <2>1, <2>2, PassOnly
<1>15. CASE ClockTicks
  <2>1. /\ launched' = launched /\ pass' = pass /\ records' = records
        /\ schedule' = schedule /\ mark' = mark /\ firstMark' = firstMark
        /\ answered' = answered /\ now' = now + 1 /\ now < MaxNow
    BY <1>15 DEF ClockTicks, history
  <2>2. now' \in Nat /\ now <= now' /\ now' <= MaxNow /\ pass'.previous <= now'
    BY <1>0, <2>1 DEF Never
  <2>3. Retained' = Retained /\ Latest' = Latest
    BY <2>1, RetainedStays
  <2>4. \A s \in Nat : Waiting(s)' => Waiting(s)
    BY <2>1, <2>3 DEF Waiting
  <2> QED
    BY <1>0, <2>1, <2>2, <2>4, NothingRecorded
<1>16. CASE TypedRun
  <2>1. /\ Put("RUN", {}) /\ Answer /\ launched' = launched /\ pass' = pass
        /\ now' = now /\ schedule' = schedule /\ mark' = mark /\ firstMark' = firstMark
    BY <1>16 DEF TypedRun, world
  <2>2. "RUN" \in Statuses \ {"MISSED"} /\ {} \in SUBSET Nat
    BY DEF Statuses
  <2> QED
    BY <1>0, <2>1, <2>2, SlotsRecorded
<1>17. CASE AskedRun
  <2> DEFINE r == Record("RUN", {}, TRUE)
  <2>1. /\ records' = Append(records, r) /\ launched' = launched /\ pass' = pass
        /\ now' = now /\ schedule' = schedule /\ mark' = mark /\ firstMark' = firstMark
        /\ answered' = answered
    BY <1>17 DEF AskedRun, world, history
  <2>2. r \in Records /\ r.status = "RUN" /\ r.at = now /\ r.asked
    <3>1. "RUN" \in Statuses
      BY DEF Statuses
    <3> QED
      BY <1>0, <3>1 DEF Record, Records
  <2> HIDE DEF r
  <2>3. TypeInv' /\ Ordered(records, now)' /\ (firstMark \in Nat \cup {Never})'
    BY <1>0, <2>1, <2>2, SomethingRecorded
  <2>4. Retained' = Retained /\ (Retained => Latest' = Latest)
    BY <1>0, <2>1, <2>2, LatestAfter
  <2>5. \A s \in Nat : Waiting(s)' => Waiting(s)
    BY <2>1, <2>4 DEF Waiting
  <2>6. StillInHand' /\ LosesTwoWays
    BY <2>1, <2>2, <2>5, WindowStays
  <2> QED
    BY <2>3, <2>6 DEF SlotInv
<1> QED
  BY <1>3, <1>4, <1>5, <1>6, <1>7, <1>8, <1>9, <1>10, <1>11, <1>12, <1>13, <1>14, <1>15,
     <1>16, <1>17 DEF Next, PassStep

(* A slot since first sight that was run, refused or reported MISSED, or   *)
(* still will be, is lost in two ways only: behind a MISSED record, or     *)
(* behind the tick's mark while the chore has no record that consumes a    *)
(* slot.  It is so however long a launched runner needs (tick.py:257-353,  *)
(* 485-489).                                                               *)
THEOREM LostOnlyTwoWaysHolds == Spec => LostOnlyTwoWays
<1>1. SlotInv /\ [Next]_vars => SlotInv' /\ [LosesTwoWays]_vars
  <2>1. CASE UNCHANGED vars
    <3>1. ASSUME SlotInv
          PROVE  SlotInv'
      <4>1. /\ TypeInv /\ now \in Nat /\ now <= now /\ now <= MaxNow /\ pass \in Passes
            /\ pass.previous <= now /\ launched \in Seq(SUBSET Nat)
        BY <3>1 DEF SlotInv, TypeInv
      <4>2. /\ launched' = launched /\ pass' = pass /\ records' = records
            /\ now' = now /\ schedule' = schedule /\ mark' = mark
            /\ firstMark' = firstMark /\ answered' = answered
        BY <2>1 DEF vars, world, history
      <4>3. \A s \in Nat : pass.at \in {"missed", "admit"}
                             /\ s \in pass.due.fire \cup pass.due.missed => Waiting(s)
        BY DEF Waiting
      <4> QED
        BY <3>1, <4>1, <4>2, <4>3, PassOnly
    <3> QED
      BY <2>1, <3>1
  <2>2. CASE Next
    BY <2>2, SlotStep
  <2> QED
    BY <2>1, <2>2
<1>2. Spec => [][LosesTwoWays]_vars
  BY <1>1, SlotsStart, PTL DEF Spec
<1> QED
  BY <1>2 DEF LostOnlyTwoWays, LosesTwoWays
=============================================================================

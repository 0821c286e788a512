------------------------ MODULE OrderReading_proofs ------------------------
(***************************************************************************)
(* Theorems about OrderReading, for any number of runs that overlap, order *)
(* lines, pages, changes, refusals and faults.                             *)
(***************************************************************************)
EXTENDS OrderReading, FiniteSetTheorems, TLAPS

LEMMA LinesFinite ==
  Cardinality(Lines) \in Nat
  BY OrderReadingAssumption, FS_CardinalityType

LEMMA LessIsLess ==
  ASSUME NEW a \in Instants, NEW b \in Nat
  PROVE  Less(a, b) \in Instants /\ Less(a, b) <= a
  BY OrderReadingAssumption DEF Instants, Less

-----------------------------------------------------------------------------
(* The list of the channel, for the instants c at which the lines changed  *)

Changes == [Lines -> Instants \cup {None}]

Shown(c, s) == {l \in Lines : c[l] # None /\ c[l] >= s}

Higher(c, l, s) == {k \in Shown(c, s) : c[k] > c[l] \/ (c[k] = c[l] /\ k > l)}

(* The rank of a line: how many lines of the window are listed above it.   *)
Rank(c, l, s) == Cardinality(Higher(c, l, s))

LEMMA WindowIsShown ==
  ASSUME NEW s, NEW l
  PROVE  Window(s) = Shown(changed, s) /\ Above(l, s) = Higher(changed, l, s)
  BY DEF Window, Above, Shown, Higher

LEMMA ShownFinite ==
  ASSUME NEW c, NEW s
  PROVE  /\ IsFiniteSet(Shown(c, s)) /\ Cardinality(Shown(c, s)) \in Nat
         /\ Cardinality(Shown(c, s)) <= Cardinality(Lines)
  <1>1. Shown(c, s) \in SUBSET Lines
    BY DEF Shown
  <1>2. QED
    BY <1>1, OrderReadingAssumption, FS_Subset, FS_CardinalityType

LEMMA HigherFinite ==
  ASSUME NEW c, NEW s, NEW l
  PROVE  IsFiniteSet(Higher(c, l, s)) /\ Rank(c, l, s) \in Nat
  <1>1. Higher(c, l, s) \in SUBSET Shown(c, s)
    BY DEF Higher
  <1>2. QED
    BY <1>1, ShownFinite, FS_Subset, FS_CardinalityType DEF Rank

LEMMA ShownNumbers ==
  ASSUME NEW c \in Changes, NEW s, NEW l \in Shown(c, s)
  PROVE  l \in Nat /\ c[l] \in Nat
  BY OrderReadingAssumption DEF Changes, Shown, Instants

(* A set within another, without one of its elements, has fewer of them. *)
LEMMA FewerElements ==
  ASSUME NEW S, IsFiniteSet(S), NEW T \in SUBSET S, NEW x \in S, x \notin T
  PROVE  Cardinality(T) < Cardinality(S)
  <1>1. Cardinality(T) <= Cardinality(S) /\ (Cardinality(S) = Cardinality(T) => S = T)
        /\ IsFiniteSet(T)
    BY FS_Subset
  <1>2. Cardinality(T) \in Nat /\ Cardinality(S) \in Nat
    BY <1>1, FS_CardinalityType
  <1>3. QED
    BY <1>1, <1>2

(* The list is in a strict order: of two lines one is further up, and what *)
(* is above the one is above the other.                                    *)
LEMMA ListIsOrder ==
  ASSUME NEW c \in Changes, NEW s, NEW k \in Shown(c, s), NEW l \in Shown(c, s), k # l
  PROVE  /\ l \notin Higher(c, l, s)
         /\ k \in Higher(c, l, s) \/ l \in Higher(c, k, s)
         /\ k \in Higher(c, l, s) => Higher(c, k, s) \subseteq Higher(c, l, s)
  <1>1. \A m \in Shown(c, s) : m \in Nat /\ c[m] \in Nat
    BY ShownNumbers
  <1>2. l \notin Higher(c, l, s)
    BY <1>1 DEF Higher
  <1>3. k \in Higher(c, l, s) \/ l \in Higher(c, k, s)
    BY <1>1 DEF Higher
  <1>4. k \in Higher(c, l, s) => Higher(c, k, s) \subseteq Higher(c, l, s)
    BY <1>1 DEF Higher
  <1>5. QED
    BY <1>2, <1>3, <1>4

LEMMA RankFollowsOrder ==
  ASSUME NEW c \in Changes, NEW s, NEW k \in Shown(c, s), NEW l \in Shown(c, s), k # l,
         k \in Higher(c, l, s)
  PROVE  Rank(c, k, s) < Rank(c, l, s)
  <1>1. Higher(c, k, s) \in SUBSET Higher(c, l, s) /\ k \notin Higher(c, k, s)
    BY ListIsOrder
  <1>2. QED
    BY <1>1, FewerElements, HigherFinite DEF Rank

LEMMA RanksDiffer ==
  ASSUME NEW c \in Changes, NEW s, NEW k \in Shown(c, s), NEW l \in Shown(c, s), k # l
  PROVE  Rank(c, k, s) # Rank(c, l, s)
  <1>1. Rank(c, k, s) \in Nat /\ Rank(c, l, s) \in Nat
    BY HigherFinite
  <1>2. QED
    BY <1>1, ListIsOrder, RankFollowsOrder

LEMMA RankBelowLines ==
  ASSUME NEW c \in Changes, NEW s, NEW l \in Shown(c, s)
  PROVE  Rank(c, l, s) < Cardinality(Lines)
  <1>1. Higher(c, l, s) \in SUBSET Shown(c, s) /\ l \notin Higher(c, l, s)
    BY ShownNumbers DEF Higher
  <1>2. Rank(c, l, s) < Cardinality(Shown(c, s))
    BY <1>1, FewerElements, ShownFinite DEF Rank
  <1>3. QED
    BY <1>2, ShownFinite, HigherFinite, LinesFinite

(* An offset at which there is no line lies behind every line: there is no *)
(* gap in the ranks.                                                       *)
LEMMA NoGap ==
  ASSUME NEW c \in Changes, NEW s, NEW o \in Nat,
         \A k \in Shown(c, s) : Rank(c, k, s) # o,
         NEW l \in Shown(c, s)
  PROVE  Rank(c, l, s) < o
  <1>1. SUFFICES ASSUME Rank(c, l, s) > o
                 PROVE  FALSE
    BY HigherFinite
  <1> DEFINE n == Rank(c, l, s)
  <1> DEFINE f == [k \in Higher(c, l, s) |-> Rank(c, k, s)]
  <1>2. n \in Nat /\ n > o /\ IsFiniteSet(Higher(c, l, s)) /\ Cardinality(Higher(c, l, s)) = n
    BY <1>1, HigherFinite DEF Rank
  <1>3. ASSUME NEW k \in Higher(c, l, s)
        PROVE  k \in Shown(c, s) /\ Rank(c, k, s) \in Nat /\ Rank(c, k, s) < n
    <2>1. k \in Shown(c, s)
      BY DEF Higher
    <2>2. k # l
      BY ShownNumbers DEF Higher
    <2>3. QED
      BY <2>1, <2>2, RankFollowsOrder, HigherFinite
  <1>4. f \in [Higher(c, l, s) -> (0..(n - 1)) \ {o}]
    BY <1>2, <1>3
  <1> HIDE DEF f, n
  <1>5. IsFiniteSet((0..(n - 1)) \ {o}) /\ Cardinality((0..(n - 1)) \ {o}) = n - 1
    <2>1. 0 \in Int /\ n - 1 \in Int /\ ~(0 > n - 1) /\ (n - 1) - 0 + 1 = n
      BY <1>2
    <2>2. /\ IsFiniteSet(0..(n - 1))
          /\ Cardinality(0..(n - 1)) = IF 0 > n - 1 THEN 0 ELSE (n - 1) - 0 + 1
      BY ONLY <2>1, FS_Interval
    <2>3. IsFiniteSet(0..(n - 1)) /\ Cardinality(0..(n - 1)) = n
      BY <2>1, <2>2
    <2>4. o \in 0..(n - 1)
      BY <1>2
    <2>5. QED
      <3> DEFINE S == 0..(n - 1)
      <3>1. IsFiniteSet(S) /\ Cardinality(S) = n /\ o \in S
        BY <2>3, <2>4
      <3> HIDE DEF S
      <3>2. IsFiniteSet(S \ {o}) /\ Cardinality(S \ {o}) = Cardinality(S) - 1
        BY <3>1, FS_RemoveElement
      <3>3. QED
        BY <3>1, <3>2 DEF S
  <1>6. PICK j \in Higher(c, l, s), k \in Higher(c, l, s) : j # k /\ f[j] = f[k]
    <2>1. Cardinality((0..(n - 1)) \ {o}) < Cardinality(Higher(c, l, s))
      BY <1>2, <1>5
    <2>2. QED
      BY <1>2, <1>4, <1>5, <2>1, FS_PigeonHole
  <1>7. QED
    BY <1>3, <1>6, RanksDiffer DEF f

(* A line that changes now moves to the top: the others stay where they    *)
(* are or move down.                                                       *)
LEMMA OthersMoveDown ==
  ASSUME NEW c \in Changes, NEW m \in Lines, NEW n \in Instants,
         \A k \in Lines : c[k] # None => c[k] <= n,
         NEW s \in Instants, s <= n, NEW l \in Shown([c EXCEPT ![m] = n], s), l # m
  PROVE  l \in Shown(c, s) /\ Rank(c, l, s) <= Rank([c EXCEPT ![m] = n], l, s)
  <1> DEFINE d == [c EXCEPT ![m] = n]
  <1>1. \A k \in Lines : d[k] = IF k = m THEN n ELSE c[k]
    BY DEF Changes
  <1>2. d \in Changes /\ n \in Nat /\ n # None
    BY OrderReadingAssumption DEF Changes, Instants
  <1> HIDE DEF d
  <1>3. l \in Shown(c, s)
    BY <1>1 DEF Shown, d
  <1>4. \A k \in Shown(c, s) : k \in Shown(d, s)
    BY <1>1, <1>2 DEF Shown, Instants
  <1>5. \A k \in Shown(c, s) : k \in Nat /\ c[k] \in Nat /\ c[k] <= n
    BY ShownNumbers DEF Shown
  <1>6. Higher(c, l, s) \in SUBSET (Higher(d, l, s) \cup {m})
    BY <1>1, <1>3, <1>4 DEF Higher, Shown
  <1>7. m \in Higher(c, l, s) => m \in Higher(d, l, s)
    BY <1>1, <1>2, <1>3, <1>4, <1>5 DEF Higher, Shown
  <1>8. Higher(c, l, s) \in SUBSET Higher(d, l, s)
    BY <1>6, <1>7
  <1>9. Rank(c, l, s) <= Rank(d, l, s)
    BY <1>8, HigherFinite, FS_Subset DEF Rank
  <1>10. QED
    BY <1>3, <1>9 DEF d

-----------------------------------------------------------------------------
(* The types *)

LEMMA PlaceTyped ==
  ASSUME NEW s \in Instants, NEW c \in 0..Cardinality(Lines) \cup {None},
         NEW f \in Instants \cup {None}, NEW n \in 0..(DropAfter - 1),
         c # None => f # None
  PROVE  /\ Place(s, c, f, n) \in Places /\ Place(s, c, f, n) # None
         /\ Place(s, c, f, n).since = s /\ Place(s, c, f, n).cursor = c
         /\ Place(s, c, f, n).readFrom = f
  BY OrderReadingAssumption DEF Place, Places

LEMMA StartTyped ==
  ASSUME NEW s \in Instants
  PROVE  LET p == Place(s, None, None, 0)
         IN  p \in Places /\ p # None /\ p.since = s /\ p.cursor = None
  <1>1. 0 \in 0..(DropAfter - 1)
    BY OrderReadingAssumption
  <1>2. Place(s, None, None, 0) \in Places
    BY <1>1 DEF Place, Places
  <1>3. Place(s, None, None, 0) # None
    BY <1>2, OrderReadingAssumption
  <1>4. QED
    BY <1>2, <1>3 DEF Place

LEMMA BegunTyped ==
  ASSUME NEW a \in {"idle", "pin", "read", "save"}, NEW s \in Instants,
         NEW c \in 0..Cardinality(Lines) \cup {None}, NEW f \in Instants,
         NEW n \in 0..(DropAfter - 1)
  PROVE  Begun(a, s, c, f, n) \in RunStates
  <1>1. (IF c # None THEN c ELSE 0) \in 0..Cardinality(Lines)
    BY LinesFinite
  <1>2. Unread \in [Lines -> Nat] /\ 0 \in 0..MaxPages
    BY OrderReadingAssumption DEF Unread
  <1>3. QED
    BY <1>1, <1>2 DEF Begun, RunStates

LEMMA ZeroTyped == 0 \in Instants /\ 0 \in 0..(DropAfter - 1) /\ 0 \in 0..Cardinality(Lines)
  BY OrderReadingAssumption, LinesFinite DEF Instants

LEMMA IdleTyped == Idle \in RunStates
  BY BegunTyped, ZeroTyped DEF Idle

(* The three places a run can save are places. *)
LEMMA SavingTyped ==
  ASSUME NEW m \in RunStates, NEW n \in Places
  PROVE  [m EXCEPT !.at = "save", !.next = n] \in RunStates
  BY DEF RunStates

LEMMA SavedTyped ==
  ASSUME NEW r \in Runs, run[r] \in RunStates
  PROVE  Onward(r) \in Places /\ Continue(r) \in Places /\ AfterRefusal(r) \in Places
         /\ Place(run[r].since, None, None, 0) \in Places
  <1>1. /\ run[r].since \in Instants /\ run[r].readFrom \in Instants
        /\ run[r].offset \in 0..Cardinality(Lines) /\ run[r].failures \in 0..(DropAfter - 1)
        /\ run[r].readFrom # None
    BY OrderReadingAssumption DEF RunStates, Instants
  <1>2. 0 \in 0..(DropAfter - 1)
    BY OrderReadingAssumption
  <1>3. Onward(r) \in Places
    BY <1>1, <1>2, LessIsLess, PlaceTyped, OrderReadingAssumption DEF Onward
  <1>4. AfterRefusal(r) \in Places
    <2>1. CASE run[r].failures + 1 >= DropAfter
      BY <1>1, <1>2, <2>1, PlaceTyped DEF AfterRefusal
    <2>2. CASE ~(run[r].failures + 1 >= DropAfter)
      <3>1. run[r].failures + 1 \in 0..(DropAfter - 1)
        BY <1>1, <2>2, OrderReadingAssumption
      <3>2. QED
        BY <1>1, <2>2, <3>1, PlaceTyped DEF AfterRefusal
    <2>3. QED
      BY <2>1, <2>2
  <1>5. QED
    BY <1>1, <1>2, <1>3, <1>4, PlaceTyped DEF Continue

LEMMA InitTyped == Init => TypeOK
  <1> SUFFICES ASSUME Init
               PROVE  TypeOK
    OBVIOUS
  <1>1. 0 \in Instants /\ 0 \in 0..MaxFaults /\ Unread \in [Lines -> Nat]
    BY OrderReadingAssumption DEF Instants, Unread
  <1>2. changed \in [Lines -> Instants \cup {None}]
    BY DEF Init
  <1>3. run \in [Runs -> RunStates]
    BY IdleTyped DEF Init
  <1>4. QED
    BY <1>1, <1>2, <1>3 DEF Init, TypeOK

(* What a run knows after it has read the line at its offset.              *)
ReadOn(r, l) == [run[r] EXCEPT !.got[l] = version[l], !.offset = @ + 1, !.pages = @ + 1]

LEMMA ReadOnFields ==
  ASSUME TypeOK, NEW r \in Runs, NEW l \in Lines
  PROVE  /\ ReadOn(r, l).at = run[r].at /\ ReadOn(r, l).since = run[r].since
         /\ ReadOn(r, l).readFrom = run[r].readFrom /\ ReadOn(r, l).next = run[r].next
         /\ ReadOn(r, l).offset = run[r].offset + 1 /\ ReadOn(r, l).pages = run[r].pages + 1
         /\ ReadOn(r, l).got = [run[r].got EXCEPT ![l] = version[l]]
  <1>1. run[r] \in RunStates
    BY DEF TypeOK
  <1>2. QED
    BY <1>1 DEF ReadOn, RunStates

LEMMA ReadOnTyped ==
  ASSUME TypeOK, NEW r \in Runs, NEW l \in Lines,
         run[r].offset + 1 \in 0..Cardinality(Lines), run[r].pages + 1 \in 0..MaxPages
  PROVE  ReadOn(r, l) \in RunStates
  <1> DEFINE g == [run[r].got EXCEPT ![l] = version[l]]
  <1>1. run[r] \in RunStates /\ version \in [Lines -> Nat]
    BY DEF TypeOK
  <1>2. g \in [Lines -> Nat]
    BY <1>1 DEF RunStates
  <1>3. ReadOn(r, l) = [[[run[r] EXCEPT !.got = g] EXCEPT !.offset = @ + 1] EXCEPT !.pages = @ + 1]
    BY <1>1 DEF ReadOn, RunStates
  <1> HIDE DEF g
  <1>4. QED
    BY <1>1, <1>2, <1>3 DEF RunStates

LEMMA ReadPageReads ==
  ASSUME TypeOK, NEW r \in Runs, ReadPage(r)
  PROVE  \E l \in PageAt(run[r].since, run[r].offset) : run' = [run EXCEPT ![r] = ReadOn(r, l)]
  BY DEF ReadPage, ReadOn, TypeOK

LEMMA PageIsRanked ==
  ASSUME TypeOK, NEW s, NEW o
  PROVE  PageAt(s, o) = {l \in Shown(changed, s) : Rank(changed, l, s) = o}
  BY WindowIsShown DEF PageAt, Rank

LEMMA TypeStep ==
  ASSUME TypeOK, [Next]_vars
  PROVE  TypeOK'
  <1> USE DEF channel
  <1>1. CASE Tick
    BY <1>1, OrderReadingAssumption DEF Tick, TypeOK, Instants
  <1>2. ASSUME NEW l \in Lines, Change(l)
        PROVE  TypeOK'
    BY <1>2 DEF Change, TypeOK
  <1>3. CASE Expire
    BY <1>3, OrderReadingAssumption DEF Expire, TypeOK
  <1>4. ASSUME NEW r \in Runs, Begin(r)
        PROVE  TypeOK'
    <2>1. CASE place = None
      <3>1. FirstSince \in Instants
        BY LessIsLess, OrderReadingAssumption DEF FirstSince, TypeOK
      <3>2. Begun("pin", FirstSince, None, now, 0) \in RunStates
        BY <3>1, BegunTyped, ZeroTyped DEF TypeOK
      <3>3. QED
        BY <1>4, <2>1, <3>2 DEF Begin, TypeOK
    <2>2. CASE place # None
      <3> DEFINE f == IF place.cursor # None THEN place.readFrom ELSE now
      <3>1. place \in Places /\ f \in Instants
        BY <2>2 DEF TypeOK, Places
      <3>2. Begun("read", place.since, place.cursor, f, place.failures) \in RunStates
        BY <3>1, BegunTyped DEF Places
      <3>3. QED
        BY <1>4, <2>2, <3>2 DEF Begin, TypeOK
    <2>3. QED
      BY <2>1, <2>2
  <1>5. ASSUME NEW r \in Runs, Pin(r)
        PROVE  TypeOK'
    <2>1. Place(run[r].since, None, None, 0) \in Places
      BY SavedTyped DEF TypeOK
    <2>2. [run[r] EXCEPT !.at = "read"] \in RunStates /\ run[r].since \in Instants
      BY DEF TypeOK, RunStates
    <2>3. QED
      BY <1>5, <2>1, <2>2 DEF Pin, TypeOK
  <1>6. ASSUME NEW r \in Runs, ReadPage(r)
        PROVE  TypeOK'
    <2>1. PICK l \in PageAt(run[r].since, run[r].offset) : run' = [run EXCEPT ![r] = ReadOn(r, l)]
      BY <1>6, ReadPageReads
    <2>2. l \in Lines /\ run[r].offset < Cardinality(Lines) /\ run[r].offset \in Nat
      <3>1. l \in Shown(changed, run[r].since) /\ Rank(changed, l, run[r].since) = run[r].offset
        BY PageIsRanked
      <3>2. QED
        BY <3>1, RankBelowLines, HigherFinite DEF TypeOK, Shown, Changes
    <2>3. ReadOn(r, l) \in RunStates
      <3>1. run[r].pages + 1 \in 0..MaxPages
        BY <1>6, OrderReadingAssumption DEF ReadPage, TypeOK, RunStates
      <3>2. QED
        BY <2>2, <3>1, LinesFinite, ReadOnTyped
    <2>4. QED
      BY <1>6, <2>1, <2>3 DEF ReadPage, TypeOK
  <1>7. ASSUME NEW r \in Runs, NEW n \in Places, Record(r, n), UNCHANGED <<now, changed, version>>,
               faults' \in 0..MaxFaults
        PROVE  TypeOK'
    <2>1. recorded' \in [Lines -> Nat]
      BY <1>7 DEF Record, TypeOK, RunStates
    <2>2. [run[r] EXCEPT !.at = "save", !.next = n] \in RunStates
      <3>1. run[r] \in RunStates
        BY DEF TypeOK
      <3>2. QED
        BY <3>1, SavingTyped
    <2>3. QED
      BY <1>7, <2>1, <2>2 DEF Record, TypeOK
  <1>8. ASSUME NEW r \in Runs, ReadLast(r) \/ PageLimit(r) \/ Interrupt(r)
        PROVE  TypeOK'
    <2>1. faults' \in 0..MaxFaults
      BY <1>8, OrderReadingAssumption DEF ReadLast, PageLimit, Interrupt, TypeOK
    <2>2. \E n \in Places : Record(r, n)
      BY <1>8, SavedTyped DEF ReadLast, PageLimit, Interrupt, TypeOK
    <2>3. QED
      BY <1>7, <2>1, <2>2 DEF Record
  <1>9. ASSUME NEW r \in Runs, FirstPageFails(r)
        PROVE  TypeOK'
    <2>1. faults' \in 0..MaxFaults
      BY <1>9, OrderReadingAssumption DEF FirstPageFails, TypeOK
    <2>2. [run[r] EXCEPT !.at = "save", !.next = AfterRefusal(r)] \in RunStates
      <3>1. run[r] \in RunStates
        BY DEF TypeOK
      <3>2. AfterRefusal(r) \in Places
        BY <3>1, SavedTyped
      <3>3. QED
        BY <3>1, <3>2, SavingTyped
    <2>3. run' \in [Runs -> RunStates]
      BY <1>9, <2>2, IdleTyped DEF FirstPageFails, TypeOK
    <2>4. QED
      BY <1>9, <2>1, <2>3 DEF FirstPageFails, TypeOK
  <1>10. ASSUME NEW r \in Runs, Save(r)
         PROVE  TypeOK'
    <2>1. place' \in Places \cup {None}
      BY <1>10 DEF Save, TypeOK, RunStates
    <2>2. expired' \in BOOLEAN
      BY <1>10 DEF Save, TypeOK
    <2>3. QED
      BY <1>10, <2>1, <2>2, IdleTyped DEF Save, TypeOK
  <1>11. ASSUME NEW r \in Runs, Crash(r)
         PROVE  TypeOK'
    BY <1>11, IdleTyped, OrderReadingAssumption DEF Crash, TypeOK
  <1>12. CASE UNCHANGED vars
    BY <1>12 DEF vars, TypeOK
  <1>13. QED
    BY <1>1, <1>2, <1>3, <1>4, <1>5, <1>6, <1>8, <1>9, <1>10, <1>11, <1>12 DEF Next, RunStep

(* Places, runs and what is recorded stay typed: a cursor is an offset     *)
(* within the lines, and refusals are counted below the limit at which the *)
(* cursor is dropped.                                                      *)
THEOREM TypeCorrect == Spec => []TypeOK
  <1>1. TypeOK /\ [Next]_vars => TypeOK'
    BY TypeStep
  <1>2. QED
    BY <1>1, InitTyped, PTL DEF Spec

-----------------------------------------------------------------------------
(* What the reading knows                                                  *)
(*                                                                         *)
(* Places and runs are judged against the world: the clock, what changed,  *)
(* what is recorded and where the first window began.                      *)
Worlds == [now: Instants, changed: Changes, version: [Lines -> Nat], recorded: [Lines -> Nat],
           first: Instants \cup {None}]

World == [now |-> now, changed |-> changed, version |-> version, recorded |-> recorded,
          first |-> first]

(* No change is in the future, and nothing is recorded that did not happen.*)
Lawful(x) ==
  /\ x \in Worlds
  /\ \A l \in Lines : /\ x.changed[l] # None => x.changed[l] <= x.now
                      /\ x.recorded[l] <= x.version[l]

(* Everything before the window that starts at s is recorded. *)
Behind(x, s) ==
  \A l \in Lines :
    x.changed[l] # None /\ x.changed[l] >= x.first /\ x.changed[l] < s
      => x.recorded[l] = x.version[l]

(* Every line of that window that changed before f and is listed above the *)
(* offset o is known in its last version.                                  *)
Earned(x, s, o, f, known) ==
  \A l \in Shown(x.changed, s) :
    x.changed[l] < f /\ Rank(x.changed, l, s) < o => known[l] = x.version[l]

Best(x, got) == [l \in Lines |-> IF got[l] > x.recorded[l] THEN got[l] ELSE x.recorded[l]]

PlaceGood(x, p) ==
  /\ p.since <= x.now
  /\ Behind(x, p.since)
  /\ p.cursor # None =>
       /\ p.readFrom <= x.now
       /\ Earned(x, p.since, p.cursor, p.readFrom, x.recorded)

RunGood(x, t) ==
  /\ t.since <= x.now /\ t.readFrom <= x.now
  /\ \A l \in Lines : t.got[l] <= x.version[l]
  /\ t.pages = 0 => t.got = Unread
  /\ t.at = "pin" => t.offset = 0
  /\ t.at = "read" => Behind(x, t.since)
                     /\ Earned(x, t.since, t.offset, t.readFrom, Best(x, t.got))
  /\ t.at = "save" => t.next # None /\ PlaceGood(x, t.next)

(* The first window is pinned before anything is read, by one run alone.   *)
Pinned ==
  /\ place # None => first # None
  /\ place = None => \A r \in Runs : run[r].at \in {"idle", "pin"}
  /\ \A r \in Runs : run[r].at = "pin" =>
       place = None /\ \A q \in Runs \ {r} : run[q].at = "idle"

ReadingInv ==
  /\ Lawful(World)
  /\ Pinned
  /\ place # None => PlaceGood(World, place)
  /\ \A r \in Runs : RunGood(World, run[r])

(***************************************************************************)
(* The world goes on: the clock ticks, a line changes, a run records.      *)
(***************************************************************************)
Ticks(x, y) ==
  /\ y.changed = x.changed /\ y.version = x.version /\ y.recorded = x.recorded
  /\ x.now <= y.now

Alters(x, y) ==
  /\ y.now = x.now /\ y.recorded = x.recorded
  /\ \E m \in Lines : /\ y.changed = [x.changed EXCEPT ![m] = x.now]
                      /\ y.version = [x.version EXCEPT ![m] = @ + 1]

Records(x, y) ==
  /\ y.now = x.now /\ y.changed = x.changed /\ y.version = x.version
  /\ \A l \in Lines : x.recorded[l] <= y.recorded[l]

GoesOn(x, y) ==
  /\ Lawful(x) /\ Lawful(y) /\ y.first = x.first
  /\ Ticks(x, y) \/ Alters(x, y) \/ Records(x, y)

LEMMA WorldFields ==
  ASSUME NEW x, Lawful(x)
  PROVE  /\ x.now \in Instants /\ x.now \in Nat /\ x.changed \in Changes
         /\ x.version \in [Lines -> Nat] /\ x.recorded \in [Lines -> Nat]
         /\ x.first \in Instants \cup {None}
         /\ \A l \in Lines : /\ x.changed[l] # None => x.changed[l] \in Nat /\ x.changed[l] <= x.now
                             /\ x.recorded[l] <= x.version[l]
  BY OrderReadingAssumption DEF Lawful, Worlds, Changes, Instants

(* What lies before an instant of the past is as it was. *)
LEMMA PastStands ==
  ASSUME NEW x, NEW y, GoesOn(x, y), NEW f \in Instants, f <= x.now,
         NEW l \in Lines, y.changed[l] # None, y.changed[l] < f
  PROVE  x.changed[l] = y.changed[l] /\ x.version[l] = y.version[l]
  <1>1. x.now \in Nat /\ x.changed \in Changes /\ x.version \in [Lines -> Nat] /\ f \in Nat
    BY WorldFields, OrderReadingAssumption DEF GoesOn, Instants
  <1>2. CASE Ticks(x, y) \/ Records(x, y)
    BY <1>2 DEF Ticks, Records
  <1>3. CASE Alters(x, y)
    <2>1. PICK m \in Lines : /\ y.changed = [x.changed EXCEPT ![m] = x.now]
                             /\ y.version = [x.version EXCEPT ![m] = @ + 1]
      BY <1>3 DEF Alters
    <2>2. l # m
      BY <1>1, <2>1 DEF Changes
    <2>3. QED
      BY <1>1, <2>1, <2>2 DEF Changes
  <1>4. QED
    BY <1>2, <1>3 DEF GoesOn

LEMMA RecordedGrows ==
  ASSUME NEW x, NEW y, GoesOn(x, y), NEW l \in Lines
  PROVE  x.recorded[l] <= y.recorded[l]
  BY WorldFields DEF GoesOn, Ticks, Alters, Records

LEMMA VersionGrows ==
  ASSUME NEW x, NEW y, GoesOn(x, y), NEW l \in Lines
  PROVE  x.version[l] \in Nat /\ y.version[l] \in Nat /\ x.version[l] <= y.version[l]
  <1>1. x.version \in [Lines -> Nat] /\ y.version \in [Lines -> Nat]
    BY WorldFields DEF GoesOn
  <1>2. CASE Ticks(x, y) \/ Records(x, y)
    BY <1>1, <1>2 DEF Ticks, Records
  <1>3. CASE Alters(x, y)
    <2>1. PICK m \in Lines : y.version = [x.version EXCEPT ![m] = @ + 1]
      BY <1>3 DEF Alters
    <2>2. y.version[l] = IF l = m THEN x.version[l] + 1 ELSE x.version[l]
      BY <1>1, <2>1
    <2>3. QED
      BY <1>1, <2>2
  <1>4. QED
    BY <1>2, <1>3 DEF GoesOn

LEMMA BehindStands ==
  ASSUME NEW x, NEW y, GoesOn(x, y), NEW s \in Instants, s <= x.now, Behind(x, s)
  PROVE  Behind(y, s)
  <1>1. SUFFICES ASSUME NEW l \in Lines, y.changed[l] # None, y.changed[l] >= y.first,
                        y.changed[l] < s
                 PROVE  y.recorded[l] = y.version[l]
    BY DEF Behind
  <1>2. x.changed[l] = y.changed[l] /\ x.version[l] = y.version[l]
    BY <1>1, PastStands
  <1>3. x.recorded[l] = x.version[l]
    BY <1>1, <1>2 DEF Behind, GoesOn
  <1>4. /\ x.recorded[l] <= y.recorded[l] /\ y.recorded[l] <= y.version[l]
        /\ x.recorded[l] \in Nat /\ y.recorded[l] \in Nat /\ y.version[l] \in Nat
    BY RecordedGrows, WorldFields DEF GoesOn
  <1>5. QED
    BY <1>2, <1>3, <1>4

(* A line listed above the offset was so before. *)
LEMMA RankStands ==
  ASSUME NEW x, NEW y, GoesOn(x, y), NEW s \in Instants, s <= x.now,
         NEW f \in Instants, f <= x.now,
         NEW l \in Shown(y.changed, s), y.changed[l] < f
  PROVE  l \in Shown(x.changed, s) /\ Rank(x.changed, l, s) <= Rank(y.changed, l, s)
  <1>1. x.now \in Instants /\ x.changed \in Changes /\ f \in Nat /\ l \in Lines
        /\ \A k \in Lines : x.changed[k] # None => x.changed[k] <= x.now
    BY WorldFields, OrderReadingAssumption DEF GoesOn, Instants, Shown
  <1>2. CASE Ticks(x, y) \/ Records(x, y)
    BY <1>2, HigherFinite DEF Ticks, Records
  <1>3. CASE Alters(x, y)
    <2>1. PICK m \in Lines : y.changed = [x.changed EXCEPT ![m] = x.now]
      BY <1>3 DEF Alters
    <2>2. l # m
      BY <1>1, <2>1, WorldFields, OrderReadingAssumption DEF GoesOn, Changes, Instants
    <2>3. QED
      BY <1>1, <2>1, <2>2, OthersMoveDown
  <1>4. QED
    BY <1>2, <1>3 DEF GoesOn

LEMMA EarnedStands ==
  ASSUME NEW x, NEW y, GoesOn(x, y), NEW s \in Instants, s <= x.now,
         NEW f \in Instants, f <= x.now, NEW o \in Nat,
         NEW k \in [Lines -> Nat], NEW j \in [Lines -> Nat], Earned(x, s, o, f, k),
         \A l \in Lines : k[l] <= j[l] /\ j[l] <= y.version[l]
  PROVE  Earned(y, s, o, f, j)
  <1>1. SUFFICES ASSUME NEW l \in Shown(y.changed, s), y.changed[l] < f,
                        Rank(y.changed, l, s) < o
                 PROVE  j[l] = y.version[l]
    BY DEF Earned
  <1>2. l \in Lines /\ y.changed[l] # None
    BY DEF Shown
  <1>3. x.changed[l] = y.changed[l] /\ x.version[l] = y.version[l]
    BY <1>1, <1>2, PastStands
  <1>4. l \in Shown(x.changed, s) /\ Rank(x.changed, l, s) < o
    BY <1>1, RankStands, HigherFinite
  <1>5. k[l] = x.version[l]
    BY <1>1, <1>3, <1>4 DEF Earned
  <1>6. QED
    BY <1>2, <1>3, <1>5, WorldFields DEF GoesOn

LEMMA BestIsBest ==
  ASSUME NEW x, Lawful(x), NEW g \in [Lines -> Nat], \A l \in Lines : g[l] <= x.version[l]
  PROVE  /\ Best(x, g) \in [Lines -> Nat]
         /\ \A l \in Lines : /\ x.recorded[l] <= Best(x, g)[l] /\ g[l] <= Best(x, g)[l]
                             /\ Best(x, g)[l] <= x.version[l]
  BY WorldFields DEF Best

LEMMA PlaceStands ==
  ASSUME NEW x, NEW y, GoesOn(x, y), NEW p \in Places, PlaceGood(x, p)
  PROVE  PlaceGood(y, p)
  <1>1. /\ p.since \in Instants /\ p.since \in Nat
        /\ p.cursor # None => p.readFrom \in Instants /\ p.readFrom \in Nat /\ p.cursor \in Nat
    BY OrderReadingAssumption, LinesFinite DEF Places, Instants
  <1>2. x.now \in Nat /\ y.now \in Nat /\ x.now <= y.now
    BY WorldFields DEF GoesOn, Ticks, Alters, Records
  <1>3. p.since <= y.now /\ Behind(y, p.since)
    BY <1>1, <1>2, BehindStands DEF PlaceGood
  <1>4. ASSUME p.cursor # None
        PROVE  p.readFrom <= y.now /\ Earned(y, p.since, p.cursor, p.readFrom, y.recorded)
    <2>1. /\ x.recorded \in [Lines -> Nat] /\ y.recorded \in [Lines -> Nat]
          /\ \A l \in Lines : x.recorded[l] <= y.recorded[l] /\ y.recorded[l] <= y.version[l]
      BY WorldFields, RecordedGrows DEF GoesOn
    <2>2. QED
      BY <1>1, <1>2, <1>4, <2>1, EarnedStands DEF PlaceGood
  <1>5. QED
    BY <1>3, <1>4 DEF PlaceGood

LEMMA RunStands ==
  ASSUME NEW x, NEW y, GoesOn(x, y), NEW t \in RunStates, RunGood(x, t)
  PROVE  RunGood(y, t)
  <1>1. /\ t.since \in Instants /\ t.since \in Nat /\ t.readFrom \in Instants /\ t.readFrom \in Nat
        /\ t.offset \in Nat /\ t.got \in [Lines -> Nat] /\ t.next \in Places \cup {None}
    BY OrderReadingAssumption, LinesFinite DEF RunStates, Instants
  <1>2. x.now \in Nat /\ y.now \in Nat /\ x.now <= y.now
    BY WorldFields DEF GoesOn, Ticks, Alters, Records
  <1>3. ASSUME NEW l \in Lines
        PROVE  x.version[l] \in Nat /\ y.version[l] \in Nat /\ x.version[l] <= y.version[l]
    BY VersionGrows
  <1>4. \A l \in Lines : t.got[l] <= x.version[l] /\ t.got[l] <= y.version[l]
    BY <1>1, <1>3 DEF RunGood
  <1>5. ASSUME t.at = "read"
        PROVE  Behind(y, t.since) /\ Earned(y, t.since, t.offset, t.readFrom, Best(y, t.got))
    <2>1. Behind(y, t.since)
      BY <1>1, <1>5, BehindStands DEF RunGood
    <2>2. \A l \in Lines : Best(x, t.got)[l] <= Best(y, t.got)[l]
      BY <1>1, RecordedGrows, WorldFields DEF Best, GoesOn
    <2>3. /\ Best(x, t.got) \in [Lines -> Nat] /\ Best(y, t.got) \in [Lines -> Nat]
          /\ \A l \in Lines : Best(y, t.got)[l] <= y.version[l]
      BY <1>1, <1>4, BestIsBest DEF GoesOn
    <2>4. t.since <= x.now /\ t.readFrom <= x.now
          /\ Earned(x, t.since, t.offset, t.readFrom, Best(x, t.got))
      BY <1>5 DEF RunGood
    <2>5. QED
      BY <1>1, <2>1, <2>2, <2>3, <2>4, EarnedStands
  <1>6. ASSUME t.at = "save"
        PROVE  t.next # None /\ PlaceGood(y, t.next)
    BY <1>1, <1>6, PlaceStands DEF RunGood
  <1>7. QED
    BY <1>1, <1>2, <1>4, <1>5, <1>6 DEF RunGood

-----------------------------------------------------------------------------
(* The steps                                                               *)

LEMMA WorldKept ==
  ASSUME UNCHANGED <<channel, recorded, first>>
  PROVE  World' = World
  BY DEF World, channel

LEMMA LawfulWorld ==
  ASSUME TypeOK, ReadingInv
  PROVE  /\ World.now = now /\ World.changed = changed /\ World.version = version
         /\ World.recorded = recorded /\ World.first = first
         /\ Lawful(World)
  BY DEF World, ReadingInv

(* A step of one run in a world that stays, or goes on. *)
LEMMA OneRun ==
  ASSUME TypeOK, ReadingInv, NEW x, x = World \/ GoesOn(World, x),
         NEW r \in Runs, NEW t, RunGood(x, t),
         NEW rs, rs = [run EXCEPT ![r] = t]
  PROVE  \A q \in Runs : RunGood(x, rs[q])
  <1>1. SUFFICES ASSUME NEW q \in Runs
                 PROVE  RunGood(x, rs[q])
    OBVIOUS
  <1>2. run[q] \in RunStates /\ rs[q] = IF q = r THEN t ELSE run[q]
    BY DEF TypeOK
  <1>3. RunGood(x, run[q])
    BY <1>2, RunStands DEF ReadingInv
  <1>4. QED
    BY <1>2, <1>3

LEMMA PlaceOn ==
  ASSUME TypeOK, ReadingInv, NEW x, x = World \/ GoesOn(World, x), place # None
  PROVE  PlaceGood(x, place)
  BY PlaceStands DEF TypeOK, ReadingInv

LEMMA IdleIsGood ==
  ASSUME NEW x, Lawful(x)
  PROVE  RunGood(x, Idle)
  <1>1. /\ Idle.at = "idle" /\ Idle.since = 0 /\ Idle.readFrom = 0 /\ Idle.got = Unread
    BY DEF Idle, Begun
  <1>2. \A l \in Lines : Unread[l] <= x.version[l]
    BY WorldFields DEF Unread
  <1>3. QED
    BY <1>1, <1>2, WorldFields DEF RunGood

LEMMA InitReads == Init => ReadingInv
  <1> SUFFICES ASSUME Init
               PROVE  ReadingInv
    OBVIOUS
  <1>1. Lawful(World)
    <2>1. TypeOK
      BY InitTyped
    <2>2. World \in Worlds
      BY <2>1 DEF World, Worlds, TypeOK, Changes
    <2>3. QED
      BY <2>2 DEF World, Lawful, Init, Unread
  <1>2. \A r \in Runs : run[r] = Idle /\ run[r].at = "idle"
    BY DEF Init, Idle, Begun
  <1>3. QED
    BY <1>1, <1>2, IdleIsGood DEF ReadingInv, Pinned, Init

LEMMA TickReads ==
  ASSUME TypeOK, TypeOK', ReadingInv, Tick
  PROVE  ReadingInv'
  <1>1. World'.now = now + 1 /\ World'.changed = changed /\ World'.version = version
        /\ World'.recorded = recorded /\ World'.first = first /\ World' \in Worlds
    BY DEF World, Tick, Worlds, TypeOK, Changes
  <1>2. now \in Nat
    BY DEF TypeOK, Instants
  <1>3. Lawful(World')
    <2>1. ASSUME NEW l \in Lines
          PROVE  /\ changed[l] # None => changed[l] <= now + 1
                 /\ recorded[l] <= version[l]
      BY <1>2, LawfulWorld, WorldFields
    <2>2. QED
      BY <1>1, <2>1 DEF Lawful
  <1>4. GoesOn(World, World')
    BY <1>1, <1>2, <1>3, LawfulWorld DEF GoesOn, Ticks
  <1>5. \A r \in Runs : RunGood(World', run[r])
    BY <1>4, RunStands DEF TypeOK, ReadingInv
  <1>6. place # None => PlaceGood(World', place)
    BY <1>4, PlaceOn
  <1>7. run' = run /\ place' = place /\ first' = first
    BY DEF Tick
  <1>8. Pinned'
    BY <1>7 DEF ReadingInv, Pinned
  <1>9. QED
    BY <1>3, <1>5, <1>6, <1>7, <1>8 DEF ReadingInv

LEMMA ChangeReads ==
  ASSUME TypeOK, TypeOK', ReadingInv, NEW m \in Lines, Change(m)
  PROVE  ReadingInv'
  <1>1. /\ World'.now = now /\ World'.changed = [changed EXCEPT ![m] = now]
        /\ World'.version = [version EXCEPT ![m] = @ + 1]
        /\ World'.recorded = recorded /\ World'.first = first /\ World' \in Worlds
    BY DEF World, Change, Worlds, TypeOK, Changes
  <1>2. /\ now \in Nat /\ now <= now /\ changed \in Changes /\ version \in [Lines -> Nat]
        /\ recorded \in [Lines -> Nat]
    BY DEF TypeOK, Instants, Changes
  <1>3. Lawful(World')
    <2>1. ASSUME NEW l \in Lines
          PROVE  /\ [changed EXCEPT ![m] = now][l] # None => [changed EXCEPT ![m] = now][l] <= now
                 /\ recorded[l] <= [version EXCEPT ![m] = @ + 1][l]
      <3>1. /\ changed[l] # None => changed[l] <= now
            /\ recorded[l] <= version[l]
        BY LawfulWorld, WorldFields
      <3>2. /\ [changed EXCEPT ![m] = now][l] = IF l = m THEN now ELSE changed[l]
            /\ [version EXCEPT ![m] = @ + 1][l] = IF l = m THEN version[l] + 1 ELSE version[l]
        BY <1>2 DEF Changes
      <3>3. QED
        BY <1>2, <3>1, <3>2
    <2>2. QED
      BY <1>1, <2>1 DEF Lawful
  <1>4. GoesOn(World, World')
    BY <1>1, <1>3, LawfulWorld DEF GoesOn, Alters
  <1>5. \A r \in Runs : RunGood(World', run[r])
    BY <1>4, RunStands DEF TypeOK, ReadingInv
  <1>6. place # None => PlaceGood(World', place)
    BY <1>4, PlaceOn
  <1>7. run' = run /\ place' = place /\ first' = first
    BY DEF Change
  <1>8. Pinned'
    BY <1>7 DEF ReadingInv, Pinned
  <1>9. QED
    BY <1>3, <1>5, <1>6, <1>7, <1>8 DEF ReadingInv

(* A step of a run that leaves the world and the place alone. *)
LEMMA RunAlone ==
  ASSUME TypeOK, ReadingInv, UNCHANGED <<channel, recorded, first, place>>,
         NEW r \in Runs, NEW t, RunGood(World, t), run' = [run EXCEPT ![r] = t],
         t.at = "pin" => place = None /\ \A q \in Runs : run[q].at = "idle",
         t.at # "idle" /\ t.at # "pin" => place # None
  PROVE  ReadingInv'
  <1>1. World' = World
    BY WorldKept
  <1>2. \A q \in Runs : RunGood(World, run'[q])
    BY OneRun
  <1>3. place # None => PlaceGood(World, place)
    BY DEF ReadingInv
  <1>4. \A q \in Runs : run'[q] = IF q = r THEN t ELSE run[q]
    BY DEF TypeOK
  <1>5. Pinned'
    <2>1. place' = place /\ first' = first
      OBVIOUS
    <2>2. place # None => first # None
      BY DEF ReadingInv, Pinned
    <2>3. ASSUME place = None, NEW q \in Runs
          PROVE  run'[q].at \in {"idle", "pin"}
      BY <1>4, <2>3 DEF ReadingInv, Pinned
    <2>4. ASSUME NEW q \in Runs, run'[q].at = "pin"
          PROVE  place = None /\ \A k \in Runs \ {q} : run'[k].at = "idle"
      <3>1. CASE q = r
        BY <1>4, <2>4, <3>1
      <3>2. CASE q # r
        <4>1. run[q].at = "pin" /\ place = None /\ \A k \in Runs \ {q} : run[k].at = "idle"
          BY <1>4, <2>4, <3>2 DEF ReadingInv, Pinned
        <4>2. t.at # "pin"
          BY <4>1
        <4>3. t.at = "idle"
          BY <4>1, <4>2
        <4>4. QED
          BY <1>4, <4>1, <4>3
      <3>3. QED
        BY <3>1, <3>2
    <2>5. QED
      BY <2>1, <2>2, <2>3, <2>4 DEF Pinned
  <1>6. QED
    BY <1>1, <1>2, <1>3, <1>5 DEF ReadingInv

LEMMA BeginReads ==
  ASSUME TypeOK, ReadingInv, NEW r \in Runs, Begin(r)
  PROVE  ReadingInv'
  <1>1. now \in Nat /\ now \in Instants /\ now <= now /\ 0 \in Nat
    BY DEF TypeOK, Instants
  <1>2. \A l \in Lines : Unread[l] <= version[l]
    BY DEF TypeOK, Unread
  <1>3. CASE place = None
    <2> DEFINE t == Begun("pin", FirstSince, None, now, 0)
    <2>1. FirstSince \in Instants /\ FirstSince <= now
      BY <1>1, LessIsLess, OrderReadingAssumption DEF FirstSince
    <2>2. /\ t.at = "pin" /\ t.since = FirstSince /\ t.readFrom = now /\ t.got = Unread
          /\ t.offset = 0
      BY DEF Begun
    <2> HIDE DEF t
    <2>3. RunGood(World, t)
      BY <1>1, <1>2, <2>1, <2>2, LawfulWorld DEF RunGood
    <2>4. run' = [run EXCEPT ![r] = t] /\ \A q \in Runs : run[q].at = "idle"
      BY <1>3 DEF Begin, t
    <2>5. QED
      BY <1>3, <2>2, <2>3, <2>4, RunAlone DEF Begin
  <1>4. CASE place # None
    <2> DEFINE f == IF place.cursor # None THEN place.readFrom ELSE now
               t == Begun("read", place.since, place.cursor, f, place.failures)
    <2>1. /\ t.at = "read" /\ t.since = place.since /\ t.readFrom = f /\ t.got = Unread
          /\ t.offset = IF place.cursor # None THEN place.cursor ELSE 0
      BY DEF Begun
    <2>2. place \in Places /\ PlaceGood(World, place)
      BY <1>4 DEF TypeOK, ReadingInv
    <2>3. run' = [run EXCEPT ![r] = t]
      BY <1>4 DEF Begin
    <2> HIDE DEF t
    <2>4. place.since <= now /\ f <= now /\ Behind(World, place.since)
      BY <1>1, <2>2, LawfulWorld DEF PlaceGood
    <2>5. Best(World, Unread) = recorded
      <3>1. \A l \in Lines : Unread[l] = 0 /\ ~(0 > recorded[l])
        BY DEF Unread, TypeOK
      <3>2. QED
        BY <3>1, LawfulWorld DEF Best, TypeOK
    <2>6. Earned(World, place.since, t.offset, f, recorded)
      <3>1. CASE place.cursor # None
        BY <2>1, <2>2, <3>1, LawfulWorld DEF PlaceGood
      <3>2. CASE place.cursor = None
        BY <2>1, <3>2, HigherFinite DEF Earned
      <3>3. QED
        BY <3>1, <3>2
    <2>7. RunGood(World, t)
      BY <1>2, <2>1, <2>4, <2>5, <2>6, LawfulWorld DEF RunGood
    <2>8. QED
      BY <1>4, <2>1, <2>3, <2>7, RunAlone DEF Begin
  <1>5. QED
    BY <1>3, <1>4

LEMMA CrashReads ==
  ASSUME TypeOK, ReadingInv, NEW r \in Runs, Crash(r)
  PROVE  ReadingInv'
  <1>1. Idle.at = "idle"
    BY DEF Idle, Begun
  <1>2. QED
    BY <1>1, IdleIsGood, LawfulWorld, RunAlone DEF Crash

LEMMA ExpireReads ==
  ASSUME TypeOK, ReadingInv, Expire
  PROVE  ReadingInv'
  <1>1. World' = World
    BY WorldKept DEF Expire
  <1>2. place' = place /\ run' = run /\ first' = first
    BY DEF Expire
  <1>3. QED
    BY <1>1, <1>2 DEF ReadingInv, Pinned

(* The first window starts where it is pinned: nothing changed before it   *)
(* and after it.                                                           *)
LEMMA PinReads ==
  ASSUME TypeOK, TypeOK', ReadingInv, NEW r \in Runs, Pin(r)
  PROVE  ReadingInv'
  <1> DEFINE s == run[r].since
             t == [run[r] EXCEPT !.at = "read"]
  <1>1. /\ World'.now = now /\ World'.changed = changed /\ World'.version = version
        /\ World'.recorded = recorded /\ World'.first = s /\ World' \in Worlds
    BY DEF World, Pin, Worlds, TypeOK, Changes, channel
  <1>2. Lawful(World')
    BY <1>1, LawfulWorld DEF Lawful
  <1>3. run[r] \in RunStates /\ run[r].at = "pin" /\ RunGood(World, run[r]) /\ s \in Nat /\ s # None
    BY OrderReadingAssumption DEF Pin, TypeOK, ReadingInv, RunStates, Instants
  <1>4. /\ t.at = "read" /\ t.since = s /\ t.readFrom = run[r].readFrom /\ t.offset = run[r].offset
        /\ t.got = run[r].got /\ t.pages = run[r].pages
    BY <1>3 DEF RunStates
  <1>5. run' = [run EXCEPT ![r] = t]
    BY DEF Pin
  <1> HIDE DEF t
  <1>6. s <= now /\ t.offset = 0
    BY <1>3, <1>4, LawfulWorld DEF RunGood
  <1>7. Behind(World', s)
    <2>1. ASSUME NEW l \in Lines, changed[l] # None, changed[l] >= s, changed[l] < s
          PROVE  FALSE
      BY <1>3, <2>1, OrderReadingAssumption DEF TypeOK, Instants
    <2>2. QED
      BY <1>1, <2>1 DEF Behind
  <1>8. RunGood(World', t)
    <2>1. Earned(World', s, 0, t.readFrom, Best(World', t.got))
      BY HigherFinite DEF Earned
    <2>2. QED
      BY <1>1, <1>3, <1>4, <1>6, <1>7, <2>1, LawfulWorld DEF RunGood
  <1>9. \A q \in Runs \ {r} : run[q].at = "idle"
    BY <1>3 DEF ReadingInv, Pinned
  <1>10. ASSUME NEW q \in Runs
         PROVE  /\ run'[q] = IF q = r THEN t ELSE run[q]
                /\ RunGood(World', run'[q])
    <2>1. run'[q] = IF q = r THEN t ELSE run[q]
      BY <1>5 DEF TypeOK
    <2>2. CASE q # r
      BY <1>1, <1>9, <2>1, <2>2, LawfulWorld DEF RunGood, ReadingInv
    <2>3. QED
      BY <1>8, <2>1, <2>2
  <1>11. place' = Place(s, None, None, 0) /\ first' = s
    BY DEF Pin
  <1>12. place' # None /\ place'.since = s /\ place'.cursor = None
    <2>1. s \in Instants
      BY <1>3 DEF RunStates
    <2>2. QED
      BY <1>11, <2>1, StartTyped
  <1>13. PlaceGood(World', place')
    BY <1>1, <1>6, <1>7, <1>12 DEF PlaceGood
  <1>14. Pinned'
    BY <1>3, <1>4, <1>9, <1>10, <1>11, <1>12 DEF Pinned
  <1>15. QED
    BY <1>2, <1>10, <1>13, <1>14 DEF ReadingInv

LEMMA ReadPageStep ==
  ASSUME TypeOK, ReadingInv, NEW r \in Runs, ReadPage(r)
  PROVE  ReadingInv'
  <1>1. PICK l \in PageAt(run[r].since, run[r].offset) : run' = [run EXCEPT ![r] = ReadOn(r, l)]
    BY ReadPageReads
  <1> DEFINE s == run[r].since
             o == run[r].offset
             f == run[r].readFrom
             g == run[r].got
             t == ReadOn(r, l)
  <1>2. l \in Shown(changed, s) /\ Rank(changed, l, s) = o /\ l \in Lines
    BY PageIsRanked DEF Shown
  <1>3. /\ t.at = "read" /\ t.since = s /\ t.readFrom = f /\ t.offset = o + 1
        /\ t.pages = run[r].pages + 1 /\ t.got = [g EXCEPT ![l] = version[l]]
    BY <1>2, ReadOnFields DEF ReadPage
  <1>4. /\ run[r] \in RunStates /\ RunGood(World, run[r]) /\ run[r].at = "read"
        /\ run[r].pages \in Nat /\ o \in Nat /\ g \in [Lines -> Nat] /\ version \in [Lines -> Nat]
        /\ recorded \in [Lines -> Nat] /\ changed \in Changes
    BY LinesFinite DEF ReadPage, ReadingInv, TypeOK, RunStates, Changes
  <1> HIDE DEF t
  <1>5. ASSUME NEW k \in Lines
        PROVE  /\ t.got[k] = (IF k = l THEN version[l] ELSE g[k]) /\ t.got[k] <= version[k]
    <2>1. t.got[k] = IF k = l THEN version[l] ELSE g[k]
      BY <1>3, <1>4
    <2>2. g[k] <= version[k]
      BY <1>4, LawfulWorld DEF RunGood
    <2>3. QED
      BY <1>4, <2>1, <2>2
  <1>6. Earned(World, s, o + 1, f, Best(World, t.got))
    <2>1. SUFFICES ASSUME NEW k \in Shown(changed, s), changed[k] < f, Rank(changed, k, s) < o + 1
                   PROVE  Best(World, t.got)[k] = version[k]
      BY LawfulWorld DEF Earned
    <2>2. k \in Lines /\ Rank(changed, k, s) \in Nat
      BY HigherFinite DEF Shown
    <2>3. recorded[k] <= version[k] /\ recorded[k] \in Nat /\ version[k] \in Nat
      BY <1>4, <2>2, LawfulWorld, WorldFields
    <2>4. Best(World, t.got)[k] = IF t.got[k] > recorded[k] THEN t.got[k] ELSE recorded[k]
      BY <2>2, LawfulWorld DEF Best
    <2>5. CASE k = l
      BY <1>5, <2>2, <2>3, <2>4, <2>5
    <2>6. CASE k # l
      <3>1. Rank(changed, k, s) # o
        BY <1>2, <1>4, <2>6, RanksDiffer
      <3>2. Rank(changed, k, s) < o
        BY <1>4, <2>1, <2>2, <3>1
      <3>3. Best(World, g)[k] = version[k]
        BY <1>4, <2>1, <3>2, LawfulWorld DEF RunGood, Earned
      <3>4. Best(World, g)[k] = IF g[k] > recorded[k] THEN g[k] ELSE recorded[k]
        BY <2>2, LawfulWorld DEF Best
      <3>5. QED
        BY <1>5, <2>2, <2>4, <2>6, <3>3, <3>4
    <2>7. QED
      BY <2>5, <2>6
  <1>7. RunGood(World, t)
    <2>1. t.pages # 0
      BY <1>3, <1>4
    <2>2. QED
      BY <1>3, <1>4, <1>5, <1>6, <2>1, LawfulWorld DEF RunGood
  <1>8. place # None
    BY <1>4 DEF ReadingInv, Pinned
  <1>9. run' = [run EXCEPT ![r] = t]
    BY <1>1 DEF t
  <1>10. QED
    BY <1>3, <1>4, <1>7, <1>8, <1>9, RunAlone DEF ReadPage

(* What a run read is recorded; the place it will save is as good then.    *)
LEMMA RecordReads ==
  ASSUME TypeOK, TypeOK', ReadingInv, NEW r \in Runs, run[r].at = "read",
         NEW n \in Places, Record(r, n),
         LET x == [World EXCEPT !.recorded = Best(World, run[r].got)] IN
           GoesOn(World, x) => PlaceGood(x, n)
  PROVE  ReadingInv'
  <1> DEFINE b == Best(World, run[r].got)
             x == [World EXCEPT !.recorded = b]
             t == [run[r] EXCEPT !.at = "save", !.next = n]
  <1>1. run[r] \in RunStates /\ RunGood(World, run[r])
    BY DEF TypeOK, ReadingInv
  <1>2. /\ b \in [Lines -> Nat]
        /\ \A l \in Lines : recorded[l] <= b[l] /\ b[l] <= version[l]
    BY <1>1, LawfulWorld, BestIsBest DEF RunStates, RunGood
  <1>3. recorded' = b
    BY LawfulWorld DEF Record, Best
  <1> HIDE DEF b
  <1>4. /\ x.now = now /\ x.changed = changed /\ x.version = version /\ x.recorded = b
        /\ x.first = first /\ x \in Worlds
    BY <1>2, LawfulWorld DEF World, Worlds, Lawful
  <1>5. World' = x
    BY <1>3 DEF World, Record, channel
  <1> HIDE DEF x
  <1>6. Lawful(x)
    BY <1>2, <1>4, LawfulWorld DEF Lawful
  <1>7. GoesOn(World, x)
    BY <1>2, <1>4, <1>6, LawfulWorld DEF GoesOn, Records
  <1>8. PlaceGood(x, n)
    BY <1>7 DEF b, x
  <1>9. /\ t.at = "save" /\ t.next = n /\ t.since = run[r].since /\ t.readFrom = run[r].readFrom
        /\ t.got = run[r].got /\ t.pages = run[r].pages
    BY <1>1 DEF RunStates
  <1>10. run' = [run EXCEPT ![r] = t] /\ place' = place /\ first' = first
    BY DEF Record
  <1> HIDE DEF t
  <1>11. RunGood(x, t)
    <2>1. n # None
      BY OrderReadingAssumption
    <2>2. QED
      BY <1>1, <1>4, <1>8, <1>9, <2>1, LawfulWorld DEF RunGood
  <1>12. \A q \in Runs : RunGood(x, run'[q])
    BY <1>7, <1>10, <1>11, OneRun
  <1>13. place # None => PlaceGood(x, place)
    BY <1>7, PlaceOn
  <1>14. \A q \in Runs : run'[q] = IF q = r THEN t ELSE run[q]
    BY <1>10 DEF TypeOK
  <1>15. place # None
    BY DEF ReadingInv, Pinned
  <1>16. Pinned'
    BY <1>9, <1>10, <1>14, <1>15 DEF ReadingInv, Pinned
  <1>17. QED
    BY <1>5, <1>6, <1>10, <1>12, <1>13, <1>16 DEF ReadingInv

(* A run knows what its offset claims, and all before its window. *)
LEMMA ReaderKnows ==
  ASSUME TypeOK, ReadingInv, NEW r \in Runs, run[r].at = "read"
  PROVE  /\ run[r].since \in Instants /\ run[r].since <= now
         /\ run[r].readFrom \in Instants /\ run[r].readFrom <= now
         /\ run[r].offset \in 0..Cardinality(Lines) /\ run[r].offset \in Nat
         /\ Behind(World, run[r].since)
         /\ Earned(World, run[r].since, run[r].offset, run[r].readFrom, Best(World, run[r].got))
  <1>1. run[r] \in RunStates /\ RunGood(World, run[r])
    BY DEF TypeOK, ReadingInv
  <1>2. QED
    BY <1>1, LawfulWorld, LinesFinite DEF RunStates, RunGood

LEMMA ReadLastReads ==
  ASSUME TypeOK, TypeOK', ReadingInv, NEW r \in Runs, ReadLast(r)
  PROVE  ReadingInv'
  <1> DEFINE b == Best(World, run[r].got)
             x == [World EXCEPT !.recorded = b]
             s == run[r].since
             f == run[r].readFrom
             u == Less(f, Interval)
  <1>1. run[r].at = "read"
    BY DEF ReadLast
  <1>2. /\ s \in Instants /\ f \in Instants /\ f <= now /\ run[r].offset \in Nat
        /\ Behind(World, s) /\ Earned(World, s, run[r].offset, f, b)
    BY <1>1, ReaderKnows
  <1>3. u \in Instants /\ u <= f
    BY <1>2, LessIsLess, OrderReadingAssumption
  <1> HIDE DEF b, u
  <1>4. /\ x.now = now /\ x.changed = changed /\ x.version = version /\ x.recorded = b
        /\ x.first = first
    BY LawfulWorld DEF World
  <1> HIDE DEF x
  <1>5. \A l \in Shown(changed, s) : Rank(changed, l, s) < run[r].offset
    <2>1. changed \in Changes /\ \A k \in Shown(changed, s) : Rank(changed, k, s) # run[r].offset
      BY PageIsRanked DEF ReadLast, TypeOK, Changes
    <2>2. QED
      BY <1>2, <2>1, NoGap
  <1>6. ASSUME GoesOn(World, x)
        PROVE  Behind(x, u)
    <2>1. SUFFICES ASSUME NEW l \in Lines, changed[l] # None, changed[l] >= first, changed[l] < u
                   PROVE  b[l] = version[l]
      BY <1>4 DEF Behind
    <2>2. changed[l] \in Nat /\ s \in Nat /\ u \in Nat /\ f \in Nat
      BY <1>2, <1>3, <2>1 DEF TypeOK, Instants
    <2>3. changed[l] < f
      BY <1>3, <2>1, <2>2
    <2>4. CASE changed[l] < s
      <3>1. Behind(x, s)
        BY <1>2, <1>4, <1>6, BehindStands, ReaderKnows, <1>1, LawfulWorld
      <3>2. QED
        BY <1>4, <2>1, <2>4, <3>1 DEF Behind
    <2>5. CASE changed[l] >= s
      <3>1. l \in Shown(changed, s)
        BY <2>1, <2>5 DEF Shown
      <3>2. QED
        BY <1>2, <1>5, <2>3, <3>1, LawfulWorld DEF Earned
    <2>6. QED
      BY <2>2, <2>4, <2>5
  <1>7. /\ Onward(r) \in Places /\ Onward(r).since = u /\ Onward(r).cursor = None
    BY <1>3, StartTyped DEF Onward, u
  <1>8. ASSUME GoesOn(World, x)
        PROVE  PlaceGood(x, Onward(r))
    <2>1. u <= now
      BY <1>2, <1>3 DEF TypeOK, Instants
    <2>2. QED
      BY <1>4, <1>6, <1>7, <1>8, <2>1 DEF PlaceGood
  <1>9. Record(r, Onward(r))
    BY DEF ReadLast
  <1>10. QED
    BY <1>1, <1>7, <1>8, <1>9, RecordReads DEF b, x

(* The two places that stay in the window: its start, and the offset.      *)
LEMMA StayReads ==
  ASSUME TypeOK, TypeOK', ReadingInv, NEW r \in Runs, run[r].at = "read",
         NEW n, Record(r, n), n = Continue(r) \/ n = Place(run[r].since, None, None, 0)
  PROVE  ReadingInv'
  <1> DEFINE b == Best(World, run[r].got)
             x == [World EXCEPT !.recorded = b]
             s == run[r].since
             f == run[r].readFrom
  <1>1. /\ s \in Instants /\ s <= now /\ f \in Instants /\ f <= now
        /\ run[r].offset \in Nat /\ Behind(World, s) /\ Earned(World, s, run[r].offset, f, b)
    BY ReaderKnows
  <1>2. b \in [Lines -> Nat] /\ \A l \in Lines : b[l] <= b[l] /\ b[l] <= version[l]
    BY LawfulWorld, BestIsBest DEF TypeOK, ReadingInv, RunStates, RunGood
  <1> HIDE DEF b
  <1>3. /\ x.now = now /\ x.changed = changed /\ x.version = version /\ x.recorded = b
        /\ x.first = first
    BY LawfulWorld DEF World
  <1> HIDE DEF x
  <1>4. ASSUME GoesOn(World, x)
        PROVE  Behind(x, s) /\ Earned(x, s, run[r].offset, f, b)
    BY <1>1, <1>2, <1>3, <1>4, BehindStands, EarnedStands, LawfulWorld
  <1>5. /\ n \in Places /\ n.since = s
        /\ n.cursor # None => n.cursor = run[r].offset /\ n.readFrom = f
    <2>1. CASE n = Continue(r)
      <3>1. n \in Places
        BY <2>1, SavedTyped DEF TypeOK
      <3>2. n.since = s /\ n.cursor = run[r].offset /\ n.readFrom = f
        BY <2>1 DEF Continue, Place
      <3>3. QED
        BY <3>1, <3>2
    <2>2. CASE n = Place(s, None, None, 0)
      BY <1>1, <2>2, StartTyped
    <2>3. QED
      BY <2>1, <2>2
  <1>6. ASSUME GoesOn(World, x)
        PROVE  PlaceGood(x, n)
    BY <1>1, <1>3, <1>4, <1>5, <1>6 DEF PlaceGood
  <1>7. QED
    BY <1>5, <1>6, RecordReads DEF b, x

(* Nothing was read on the first page: the place saved is earned already.  *)
LEMMA FirstPageFailsReads ==
  ASSUME TypeOK, ReadingInv, NEW r \in Runs, FirstPageFails(r)
  PROVE  ReadingInv'
  <1> DEFINE s == run[r].since
             f == run[r].readFrom
             n == AfterRefusal(r)
             t == [run[r] EXCEPT !.at = "save", !.next = n]
  <1>1. /\ run[r] \in RunStates /\ RunGood(World, run[r]) /\ run[r].at = "read"
        /\ run[r].got = Unread
    BY DEF FirstPageFails, TypeOK, ReadingInv, RunGood
  <1>2. place # None
    BY <1>1 DEF ReadingInv, Pinned
  <1>3. Best(World, Unread) = recorded
    <2>1. \A l \in Lines : Unread[l] = 0 /\ ~(0 > recorded[l])
      BY DEF Unread, TypeOK
    <2>2. QED
      BY <2>1, LawfulWorld DEF Best, TypeOK
  <1>4. /\ s <= now /\ f <= now /\ Behind(World, s)
        /\ Earned(World, s, run[r].offset, f, recorded)
    BY <1>1, <1>3, ReaderKnows
  <1>5. /\ n \in Places /\ n # None /\ n.since = s
        /\ n.cursor # None => n.cursor = run[r].offset /\ n.readFrom = f
    <2>1. n \in Places /\ n # None
      BY <1>1, SavedTyped, OrderReadingAssumption
    <2>2. QED
      BY <2>1 DEF AfterRefusal, Place
  <1>6. PlaceGood(World, n)
    BY <1>4, <1>5, LawfulWorld DEF PlaceGood
  <1> HIDE DEF n
  <1>7. /\ t.at = "save" /\ t.next = n /\ t.since = s /\ t.readFrom = f
        /\ t.got = run[r].got /\ t.pages = run[r].pages
    BY <1>1 DEF RunStates
  <1>8. CASE run[r].cursor # None
    <2>1. run' = [run EXCEPT ![r] = t]
      BY <1>8 DEF FirstPageFails, n
    <2> HIDE DEF t
    <2>2. RunGood(World, t)
      BY <1>1, <1>5, <1>6, <1>7 DEF RunGood
    <2>3. QED
      BY <1>2, <1>7, <2>1, <2>2, RunAlone DEF FirstPageFails
  <1>9. CASE run[r].cursor = None
    <2>1. run' = [run EXCEPT ![r] = Idle] /\ Idle.at = "idle"
      BY <1>9 DEF FirstPageFails, Idle, Begun
    <2>2. QED
      BY <2>1, IdleIsGood, LawfulWorld, RunAlone DEF FirstPageFails
  <1>10. QED
    BY <1>8, <1>9

LEMMA SaveReads ==
  ASSUME TypeOK, ReadingInv, NEW r \in Runs, Save(r)
  PROVE  ReadingInv'
  <1>1. World' = World
    BY WorldKept DEF Save
  <1>2. RunGood(World, run[r]) /\ run[r].at = "save"
    BY DEF Save, ReadingInv
  <1>3. place' # None /\ PlaceGood(World, place')
    BY <1>2 DEF Save, RunGood
  <1>4. place # None /\ first # None /\ first' = first
    BY <1>2 DEF Save, ReadingInv, Pinned
  <1>5. run' = [run EXCEPT ![r] = Idle] /\ Idle.at = "idle"
    BY DEF Save, Idle, Begun
  <1>6. \A q \in Runs : RunGood(World, run'[q])
    BY <1>5, OneRun, IdleIsGood, LawfulWorld
  <1>7. \A q \in Runs : run'[q].at # "pin"
    <2>1. \A q \in Runs : run'[q] = IF q = r THEN Idle ELSE run[q]
      BY <1>5 DEF TypeOK
    <2>2. QED
      BY <1>4, <1>5, <2>1 DEF ReadingInv, Pinned
  <1>8. QED
    BY <1>1, <1>3, <1>4, <1>6, <1>7 DEF ReadingInv, Pinned

LEMMA ReadingStep ==
  ASSUME TypeOK, TypeOK', ReadingInv, [Next]_vars
  PROVE  ReadingInv'
  <1>1. CASE Tick
    BY <1>1, TickReads
  <1>2. ASSUME NEW l \in Lines, Change(l)
        PROVE  ReadingInv'
    BY <1>2, ChangeReads
  <1>3. CASE Expire
    BY <1>3, ExpireReads
  <1>4. ASSUME NEW r \in Runs, Begin(r) \/ Pin(r) \/ ReadPage(r) \/ ReadLast(r)
        PROVE  ReadingInv'
    BY <1>4, BeginReads, PinReads, ReadPageStep, ReadLastReads
  <1>5. ASSUME NEW r \in Runs, PageLimit(r) \/ Interrupt(r)
        PROVE  ReadingInv'
    BY <1>5, StayReads DEF PageLimit, Interrupt
  <1>6. ASSUME NEW r \in Runs, FirstPageFails(r) \/ Save(r) \/ Crash(r)
        PROVE  ReadingInv'
    BY <1>6, FirstPageFailsReads, SaveReads, CrashReads
  <1>7. CASE UNCHANGED vars
    <2>1. World' = World
      BY <1>7, WorldKept DEF vars
    <2>2. QED
      BY <1>7, <2>1 DEF vars, ReadingInv, Pinned
  <1>8. QED
    BY <1>1, <1>2, <1>3, <1>4, <1>5, <1>6, <1>7 DEF Next, RunStep

(* What a place and a run claim stays true, whatever changes at the channel*)
(* and whoever records meanwhile.                                          *)
THEOREM ReadingInvariant == Spec => [](TypeOK /\ ReadingInv)
  <1>1. Init => TypeOK /\ ReadingInv
    BY InitTyped, InitReads
  <1>2. TypeOK /\ ReadingInv /\ [Next]_vars => (TypeOK /\ ReadingInv)'
    BY TypeStep, ReadingStep
  <1>3. QED
    BY <1>1, <1>2, PTL DEF Spec

(* The window never moves past a change that was not recorded, however     *)
(* many runs overlap, fail or die in any order.                            *)
THEOREM NeverLeftBehind == Spec => []NothingLeftBehind
  <1>1. TypeOK /\ ReadingInv => NothingLeftBehind
    BY LawfulWorld DEF ReadingInv, PlaceGood, Behind, NothingLeftBehind
  <1>2. QED
    BY <1>1, ReadingInvariant, PTL

(* A saved cursor stands for what was read, also when lines change while   *)
(* the window is read and move above it.                                   *)
THEOREM CursorAlwaysEarned == Spec => []CursorIsEarned
  <1>1. ASSUME TypeOK, ReadingInv
        PROVE  CursorIsEarned
    <2>1. SUFFICES ASSUME place # None, place.cursor # None,
                          NEW l \in Shown(changed, place.since), changed[l] < place.readFrom,
                          Rank(changed, l, place.since) < place.cursor
                   PROVE  recorded[l] = version[l]
      BY WindowIsShown DEF CursorIsEarned, Rank
    <2>2. Earned(World, place.since, place.cursor, place.readFrom, recorded)
      BY <1>1, <2>1, LawfulWorld DEF ReadingInv, PlaceGood
    <2>3. QED
      BY <1>1, <2>1, <2>2, LawfulWorld DEF Earned
  <1>2. QED
    BY <1>1, ReadingInvariant, PTL

=============================================================================

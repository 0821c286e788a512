------------------------- MODULE OutboxRelay_proofs -------------------------
(***************************************************************************)
(* Theorems about OutboxRelay, for any number of relays, scopes, events    *)
(* and restarts: types, where duplicates come from, and, if no transaction *)
(* stays open for longer than the overlap, that no event the broker has    *)
(* not received falls behind the window of a relay and that the events of  *)
(* a key arrive in their order.                                            *)
(***************************************************************************)
EXTENDS OutboxRelay, FiniteSetTheorems, WellFoundedInduction, TLAPS

(***************************************************************************)
(* Largest and smallest members of finite sets of integers.                *)
(***************************************************************************)
(* A transitive and irreflexive relation on a finite, nonempty set has a   *)
(* member that nothing follows: the one with the fewest members after it.  *)
LEMMA LastMember ==
  ASSUME NEW S, S # {}, IsFiniteSet(S), NEW R,
         \A x \in S : <<x, x>> \notin R,
         \A x, y, z \in S : <<x, y>> \in R /\ <<y, z>> \in R => <<x, z>> \in R
  PROVE  \E x \in S : \A y \in S : <<x, y>> \notin R
<1> DEFINE after(x) == {y \in S : <<x, y>> \in R}
           T == {A \in SUBSET S : \E x \in S : A = after(x)}
<1>1. PICK A \in T : \A B \in T : ~ (<<B, A>> \in StrictSubsetOrdering(S))
  <2>1. IsWellFoundedOn(StrictSubsetOrdering(S), FiniteSubsetsOf(S))
    BY FS_StrictSubsetOrderingWellFounded
  <2>2. T \subseteq FiniteSubsetsOf(S)
    BY FS_Subset DEF FiniteSubsetsOf
  <2>3. T # {}
    <3>1. PICK x \in S : TRUE
      OBVIOUS
    <3>2. after(x) \in T
      BY <3>1
    <3> QED BY <3>2
  <2> HIDE DEF T
  <2> QED BY <2>1, <2>2, <2>3, WFMin
<1>2. PICK x \in S : A = after(x)
  OBVIOUS
<1>3. ASSUME NEW y \in S, <<x, y>> \in R PROVE FALSE
  <2>1. after(y) \subseteq after(x)
    BY <1>3
  <2>2. y \in after(x) /\ y \notin after(y)
    BY <1>3
  <2>3. after(y) \in T /\ after(y) \in SUBSET S /\ A \in SUBSET S
    OBVIOUS
  <2>4. <<after(y), A>> \in StrictSubsetOrdering(S)
    BY <2>1, <2>2, <2>3, <1>2 DEF StrictSubsetOrdering
  <2> QED BY <2>3, <2>4, <1>1
<1> QED BY <1>3

(* A finite, nonempty set of integers has a largest member, and Max is it. *)
LEMMA MaxOf ==
  ASSUME NEW S, S \subseteq Int, S # {}, IsFiniteSet(S)
  PROVE  Max(S) \in S /\ \A y \in S : y <= Max(S)
<1> DEFINE R == {p \in Int \X Int : p[1] < p[2]}
<1>1. \A x, y \in S : <<x, y>> \in R <=> x < y
  OBVIOUS
<1>2. \E x \in S : \A y \in S : <<x, y>> \notin R
  <2>1. \A x \in S : <<x, x>> \notin R
    BY <1>1
  <2>2. \A x, y, z \in S : <<x, y>> \in R /\ <<y, z>> \in R => <<x, z>> \in R
    BY <1>1
  <2> HIDE DEF R
  <2> QED BY <2>1, <2>2, LastMember
<1>3. \E x \in S : \A y \in S : x >= y
  <2>1. PICK x \in S : \A y \in S : <<x, y>> \notin R
    BY <1>2
  <2>2. \A y \in S : ~ (x < y)
    BY <1>1, <2>1
  <2> HIDE DEF R
  <2> QED BY <2>2
<1> QED BY <1>3 DEF Max

(* It also has a smallest member, and Min is it.                           *)
LEMMA MinOf ==
  ASSUME NEW S, S \subseteq Int, S # {}, IsFiniteSet(S)
  PROVE  Min(S) \in S /\ \A y \in S : Min(S) <= y
<1> DEFINE R == {p \in Int \X Int : p[1] > p[2]}
<1>1. \A x, y \in S : <<x, y>> \in R <=> x > y
  OBVIOUS
<1>2. \E x \in S : \A y \in S : <<x, y>> \notin R
  <2>1. \A x \in S : <<x, x>> \notin R
    BY <1>1
  <2>2. \A x, y, z \in S : <<x, y>> \in R /\ <<y, z>> \in R => <<x, z>> \in R
    BY <1>1
  <2> HIDE DEF R
  <2> QED BY <2>1, <2>2, LastMember
<1>3. \E x \in S : \A y \in S : x <= y
  <2>1. PICK x \in S : \A y \in S : <<x, y>> \notin R
    BY <1>2
  <2>2. \A y \in S : ~ (x > y)
    BY <1>1, <2>1
  <2> HIDE DEF R
  <2> QED BY <2>2
<1> QED BY <1>3 DEF Min

(* The image of a finite set is finite.                                    *)
LEMMA FiniteImage ==
  ASSUME NEW S, IsFiniteSet(S), NEW f
  PROVE  IsFiniteSet({f[x] : x \in S})
<1> DEFINE T == {f[x] : x \in S}
           g == [x \in S |-> f[x]]
<1>1. g \in Surjection(S, T)
  BY DEF Surjection
<1> QED BY <1>1, FS_Surjection

(***************************************************************************)
(* What a pass plans.                                                      *)
(***************************************************************************)
(* The rows of a scope that are not published already are published or     *)
(* held back, each of them; the gap time makes sure that a run that can go *)
(* is never passed over for what follows a hole.                           *)
LEMMA PlanOfScope ==
  ASSUME TypeOK, NEW r \in Relays, NEW s \in Scopes
  PROVE  LET E == {e \in relay[r].batch \ relay[r].published : event[e].scope = s}
         IN /\ ScopePlan(r, s).publish \cup ScopePlan(r, s).held = E
            /\ ScopePlan(r, s).since \in 0..MaxTime \cup {None}
<1> DEFINE E == {e \in relay[r].batch \ relay[r].published : event[e].scope = s}
           seqs(F) == {event[e].seq : e \in F}
           last == relay[r].lastSeq[s]
           first == IF last # None THEN last + 1 ELSE Min(seqs(E))
           late == {e \in E : event[e].seq < first}
           run == Run(E, first)
           rest == E \ (late \cup run)
           held == relay[r].heldSince[s]
           since == IF run = {} /\ held # None THEN held ELSE now
           next == Run(rest, Min(seqs(rest)))
<1>1. ScopePlan(r, s) =
        IF E = {} THEN [publish |-> {}, held |-> {}, since |-> held]
        ELSE IF rest = {}
        THEN [publish |-> E, held |-> {}, since |-> IF run = {} THEN held ELSE None]
        ELSE IF now - since < GapTimeout
        THEN [publish |-> late \cup run, held |-> rest, since |-> since]
        ELSE [publish |-> late \cup next, held |-> rest \ next,
              since |-> IF rest = next THEN None ELSE now]
  BY DEF ScopePlan
<1>2. run \subseteq E /\ next \subseteq rest /\ late \subseteq E
  BY DEF Run
<1>3. held \in 0..MaxTime \cup {None} /\ now \in 0..MaxTime
  BY DEF TypeOK
<1>4. since \in 0..MaxTime \cup {None}
  BY <1>3
<1>5. ~ (now - since < GapTimeout) => run = {}
  <2>1. ASSUME run # {} PROVE since = now
    BY <2>1
  <2>2. now - now < GapTimeout
    BY <1>3, RelayAssumption DEF RelayAssumption
  <2> HIDE DEF run, since
  <2> QED BY <2>1, <2>2
<1> HIDE DEF E, late, run, next, held, since
<1>6. rest = E \ (late \cup run)
  OBVIOUS
<1> HIDE DEF rest
<1>7. /\ ScopePlan(r, s).publish \cup ScopePlan(r, s).held = E
      /\ ScopePlan(r, s).since \in 0..MaxTime \cup {None}
  <2>1. CASE E = {}
    BY <1>1, <1>3, <2>1
  <2>2. CASE E # {} /\ rest = {}
    BY <1>1, <1>3, <2>2
  <2>3. CASE E # {} /\ rest # {} /\ now - since < GapTimeout
    BY <1>1, <1>2, <1>4, <1>6, <2>3
  <2>4. CASE E # {} /\ rest # {} /\ ~ (now - since < GapTimeout)
    BY <1>1, <1>2, <1>3, <1>5, <1>6, <2>4
  <2> QED BY <2>1, <2>2, <2>3, <2>4
<1> QED BY <1>7 DEF E

(* A pass publishes rows of its batch; a row of the batch the broker has   *)
(* not received is published or held back in its scope.                    *)
LEMMA PlanOfPass ==
  ASSUME TypeOK, NEW r \in Relays
  PROVE  /\ Publication(r) \subseteq relay[r].batch
         /\ \A e \in relay[r].batch \ (relay[r].published \cup Publication(r)) :
              \E s \in Scopes : event[e].scope = s /\ e \in ScopePlan(r, s).held
         /\ HeldSince(r) \in [Scopes -> 0..MaxTime \cup {None}]
<1>1. \A s \in Scopes :
        /\ ScopePlan(r, s).publish \cup ScopePlan(r, s).held
             = {e \in relay[r].batch \ relay[r].published : event[e].scope = s}
        /\ ScopePlan(r, s).since \in 0..MaxTime \cup {None}
  BY PlanOfScope
<1>2. Publication(r) \subseteq relay[r].batch
  BY <1>1 DEF Publication, Unscoped
<1>3. ASSUME NEW e \in relay[r].batch \ (relay[r].published \cup Publication(r))
      PROVE  \E s \in Scopes : event[e].scope = s /\ e \in ScopePlan(r, s).held
  <2>1. e \in Ids /\ event[e].scope \in Scopes \cup {"NONE"}
    BY DEF TypeOK
  <2>2. event[e].scope \in Scopes
    BY <2>1 DEF Publication, Unscoped
  <2> QED BY <1>1, <2>2 DEF Publication
<1>4. HeldSince(r) \in [Scopes -> 0..MaxTime \cup {None}]
  BY <1>1 DEF HeldSince
<1> QED BY <1>2, <1>3, <1>4

(* A pass publishes nothing that its relay remembers as published, and of  *)
(* no scope a number before a smaller one that it has at hand.             *)
LEMMA PlanIsNew ==
  ASSUME TypeOK, NEW r \in Relays
  PROVE  Publication(r) \cap relay[r].published = {}
<1>1. \A s \in Scopes : ScopePlan(r, s).publish \cap relay[r].published = {}
  BY PlanOfScope
<1> QED BY <1>1 DEF Publication, Unscoped

LEMMA PlanInOrder ==
  ASSUME TypeOK, NEW r \in Relays, NEW s \in Scopes, NEW e \in ScopePlan(r, s).publish,
         NEW f \in relay[r].batch \ relay[r].published,
         event[f].scope = s, event[f].seq < event[e].seq
  PROVE  f \in ScopePlan(r, s).publish
<1> DEFINE E == {g \in relay[r].batch \ relay[r].published : event[g].scope = s}
           seqs(F) == {event[g].seq : g \in F}
           last == relay[r].lastSeq[s]
           first == IF last # None THEN last + 1 ELSE Min(seqs(E))
           late == {g \in E : event[g].seq < first}
           run == Run(E, first)
           rest == E \ (late \cup run)
           held == relay[r].heldSince[s]
           since == IF run = {} /\ held # None THEN held ELSE now
           least == Min(seqs(rest))
           next == Run(rest, least)
<1>1. ScopePlan(r, s).publish =
        IF E = {} THEN {} ELSE IF rest = {} THEN E
        ELSE IF now - since < GapTimeout THEN late \cup run ELSE late \cup next
  BY DEF ScopePlan
<1>2. ~ (now - since < GapTimeout) => run = {}
  <2>1. run # {} => since = now
    OBVIOUS
  <2>2. now - now < GapTimeout
    BY RelayAssumption DEF RelayAssumption, TypeOK
  <2> HIDE DEF run, since
  <2> QED BY <2>1, <2>2
<1>3. \A F \in SUBSET E : F # {} => Min(seqs(F)) \in Nat /\ \A g \in F : Min(seqs(F)) <= event[g].seq
  <2> SUFFICES ASSUME NEW F \in SUBSET E, F # {}
               PROVE  Min(seqs(F)) \in Nat /\ \A g \in F : Min(seqs(F)) <= event[g].seq
    OBVIOUS
  <2> DEFINE number == [g \in Ids |-> event[g].seq]
             S == seqs(F)
  <2>1. F \subseteq Ids /\ IsFiniteSet(F)
    <3>1. F \subseteq Ids
      BY DEF TypeOK
    <3> HIDE DEF E
    <3> QED BY <3>1, FS_Subset, RelayAssumption DEF RelayAssumption
  <2>2. S = {number[g] : g \in F} /\ S \subseteq Nat /\ S # {}
    <3>1. \A g \in F : number[g] = event[g].seq /\ event[g].seq \in Nat
      BY <2>1 DEF TypeOK
    <3> HIDE DEF number, E
    <3> QED BY <3>1
  <2>3. IsFiniteSet(S)
    <3> HIDE DEF number, S
    <3> QED BY <2>1, <2>2, FiniteImage
  <2>4. \A g \in F : event[g].seq \in S
    OBVIOUS
  <2> HIDE DEF S, E
  <2>5. S \subseteq Int
    BY <2>2
  <2>6. Min(S) \in S /\ \A y \in S : Min(S) <= y
    BY <2>2, <2>3, <2>5, MinOf
  <2> QED BY <2>2, <2>4, <2>6 DEF S
<1>4. f \in E /\ \A g \in E : event[g].seq \in Nat
  BY DEF TypeOK
<1>5. first \in Int
  <2>1. E \in SUBSET E /\ E # {}
    BY <1>4
  <2>2. Min(seqs(E)) \in Nat
    BY <1>3, <2>1
  <2>3. last \in Nat \cup {None}
    BY DEF TypeOK
  <2> HIDE DEF E, last
  <2> QED BY <2>2, <2>3
<1>6. run = {g \in E : event[g].seq >= first /\ \A n \in first..event[g].seq : \E h \in E : event[h].seq = n}
  BY DEF Run
<1>7. next = {g \in rest : event[g].seq >= least /\ \A n \in least..event[g].seq : \E h \in rest : event[h].seq = n}
  BY DEF Run
<1>8. rest \in SUBSET E
  OBVIOUS
<1>9. rest # {} => least \in Nat /\ \A g \in rest : least <= event[g].seq
  BY <1>3, <1>8
<1> HIDE DEF E, first, run, next, least, since
<1>10. e \in late \/ e \in run => f \in late \/ f \in run
  BY <1>4, <1>5, <1>6
<1>11. e \in late => f \in late
  BY <1>4, <1>5
<1>12. run = {} /\ e \in next => f \in late \/ f \in next
  <2> SUFFICES ASSUME run = {}, e \in next, f \notin late PROVE f \in next
    OBVIOUS
  <2>1. f \in rest /\ e \in rest /\ least \in Nat /\ least <= event[f].seq
    BY <1>4, <1>7, <1>9
  <2>2. \A n \in least..event[f].seq : n \in least..event[e].seq
    BY <1>4, <1>8, <2>1
  <2> HIDE DEF rest, late
  <2> QED BY <1>7, <2>1, <2>2
<1> HIDE DEF late, rest
<1> QED BY <1>1, <1>2, <1>4, <1>10, <1>11, <1>12

(* The start times of a nonempty set of committed events: their largest    *)
(* and smallest are start times of some of them.                           *)
LEMMA CreatedBounds ==
  ASSUME TypeOK, TimesKept, NEW E, E \subseteq Committed, E # {}
  PROVE  /\ \E e \in E : event[e].created = Max(Created(E))
         /\ \E e \in E : event[e].created = Min(Created(E))
         /\ \A e \in E : /\ event[e].created <= Max(Created(E))
                         /\ Min(Created(E)) <= event[e].created
<1> DEFINE f == [e \in Ids |-> event[e].created]
<1>1. E \subseteq Ids /\ IsFiniteSet(E)
  BY FS_Subset, RelayAssumption DEF Committed, RelayAssumption
<1>2. Created(E) = {f[e] : e \in E}
  BY <1>1 DEF Created
<1> HIDE DEF f
<1>3. IsFiniteSet(Created(E))
  BY <1>1, <1>2, FiniteImage
<1>4. Created(E) \subseteq Int /\ Created(E) # {}
  BY DEF Created, TimesKept, TypeOK
<1>5. /\ Max(Created(E)) \in Created(E) /\ \A t \in Created(E) : t <= Max(Created(E))
      /\ Min(Created(E)) \in Created(E) /\ \A t \in Created(E) : Min(Created(E)) <= t
  BY <1>3, <1>4, MaxOf, MinOf
<1> QED BY <1>5 DEF Created

(* The watermark of a pass that publishes something: it lies in the past,  *)
(* is at most the start time of some row of the batch, unless it does not  *)
(* move, and does not pass a row that is held back.                        *)
LEMMA WatermarkOfPass ==
  ASSUME TypeOK, TimesKept, MemoryKept, NEW r \in Relays,
         relay[r].pc = "FETCHED", Publication(r) # {}
  PROVE  LET w == relay[r].watermark
             n == NextWatermark(r)
         IN /\ n \in 0..now /\ w <= n
            /\ n = w \/ \E f \in relay[r].batch : n <= event[f].created
            /\ n = w \/ \A e \in relay[r].batch \ (relay[r].published \cup Publication(r)) :
                           n <= event[e].created
<1> DEFINE w == relay[r].watermark
           heldBack == {e \in relay[r].batch : \E s \in Scopes :
                          event[e].scope = s /\ ScopePlan(r, s).held # {}}
           newest == Max(Created(Publication(r)))
           bound == IF heldBack = {} THEN newest ELSE Smaller(newest, Min(Created(heldBack)))
<1>1. NextWatermark(r) = Larger(w, bound)
  BY DEF NextWatermark
<1>2. relay[r].batch \subseteq Committed /\ w \in 0..now /\ now \in Nat
  BY DEF MemoryKept, TimesKept, TypeOK, None
<1>3. \A e \in relay[r].batch : event[e].created \in 0..now
  BY <1>2 DEF TimesKept
<1>4. PICK f \in Publication(r) : event[f].created = newest
  BY <1>2, PlanOfPass, CreatedBounds
<1>5. f \in relay[r].batch /\ newest \in 0..now
  BY <1>3, <1>4, PlanOfPass
<1>6. \A e \in relay[r].batch \ (relay[r].published \cup Publication(r)) : e \in heldBack
  BY PlanOfPass
<1>7. heldBack # {} =>
        /\ Min(Created(heldBack)) \in 0..now
        /\ \A e \in heldBack : Min(Created(heldBack)) <= event[e].created
  <2>1. heldBack \subseteq Committed /\ heldBack \subseteq relay[r].batch
    BY <1>2
  <2> HIDE DEF heldBack
  <2>2. SUFFICES ASSUME heldBack # {}
                 PROVE  /\ Min(Created(heldBack)) \in 0..now
                        /\ \A e \in heldBack : Min(Created(heldBack)) <= event[e].created
    OBVIOUS
  <2>3. /\ \E e \in heldBack : event[e].created = Min(Created(heldBack))
        /\ \A e \in heldBack : Min(Created(heldBack)) <= event[e].created
    BY <2>1, <2>2, CreatedBounds
  <2> QED BY <1>3, <2>1, <2>3
<1> HIDE DEF heldBack, newest, w
<1>8. bound \in 0..now /\ bound <= newest
  BY <1>2, <1>5, <1>7 DEF Smaller
<1>9. \A e \in heldBack : heldBack # {} /\ event[e].created \in 0..now => bound <= event[e].created
  BY <1>2, <1>5, <1>7 DEF Smaller
<1> HIDE DEF bound
<1>10. Larger(w, bound) \in 0..now /\ w <= Larger(w, bound) /\ (Larger(w, bound) = w \/ Larger(w, bound) = bound)
  BY <1>2, <1>8 DEF Larger
<1>11. bound <= event[f].created
  BY <1>4, <1>8
<1>12. \A e \in relay[r].batch \ (relay[r].published \cup Publication(r)) : bound <= event[e].created
  BY <1>3, <1>6, <1>9
<1> QED BY <1>1, <1>5, <1>10, <1>11, <1>12 DEF w

(* The cursor of a scope stays a number.                                   *)
LEMMA SequencesOfPass ==
  ASSUME TypeOK, NEW r \in Relays
  PROVE  LastSeqs(r) \in [Scopes -> Nat \cup {None}]
<1> SUFFICES ASSUME NEW s \in Scopes PROVE LastSeqs(r)[s] \in Nat \cup {None}
  BY DEF LastSeqs
<1> DEFINE P == ScopePlan(r, s).publish
           f == [e \in Ids |-> event[e].seq]
           seqs == {event[e].seq : e \in P}
           last == relay[r].lastSeq[s]
<1>1. P \subseteq Ids /\ IsFiniteSet(P)
  <2>1. P \subseteq Ids
    BY PlanOfScope DEF TypeOK
  <2> HIDE DEF P
  <2> QED BY <2>1, FS_Subset, RelayAssumption DEF RelayAssumption
<1>2. last \in Nat \cup {None}
  BY DEF TypeOK
<1>3. seqs = {f[e] : e \in P}
  BY <1>1
<1>4. seqs \subseteq Nat
  BY <1>1 DEF TypeOK
<1>5. LastSeqs(r)[s] = IF seqs = {} THEN last ELSE Larger(last, Max(seqs))
  BY DEF LastSeqs
<1> HIDE DEF f, P
<1>6. IsFiniteSet(seqs)
  BY <1>1, <1>3, FiniteImage
<1> HIDE DEF seqs, last
<1>7. seqs # {} => Max(seqs) \in Nat
  <2>1. seqs \subseteq Int
    BY <1>4
  <2>2. seqs # {} => Max(seqs) \in seqs
    BY <2>1, <1>6, MaxOf
  <2> QED BY <1>4, <2>2
<1> QED BY <1>2, <1>5, <1>7 DEF Larger

(***************************************************************************)
(* Types.                                                                  *)
(***************************************************************************)
(* The shape of what a relay has in memory.                                *)
Memory == [pc: {"WAITING", "IDLE", "FETCHED", "SENT"},
           watermark: 0..MaxTime \cup {None},
           batch: SUBSET Ids, published: SUBSET Ids,
           lastSeq: [Scopes -> Nat \cup {None}],
           heldSince: [Scopes -> 0..MaxTime \cup {None}]]

(* A relay that starts has a memory.                                       *)
LEMMA FreshMemory == Fresh \in Memory
BY RelayAssumption DEF Fresh, Memory, None, RelayAssumption

(* The initial state is typed.                                             *)
LEMMA RelayInit == Init => TypeOK /\ WindowInv
<1> SUFFICES ASSUME Init PROVE TypeOK /\ WindowInv
  OBVIOUS
<1>1. TypeOK
  BY FreshMemory, RelayAssumption DEF Init, TypeOK, Memory, NoEvent, None, RelayAssumption
<1>2. Committed = {}
  BY DEF Init, Committed
<1>3. \A r \in Relays : relay[r] = Fresh
  BY DEF Init
<1>4. TimesKept /\ MemoryKept
  BY <1>2, <1>3 DEF Init, TimesKept, MemoryKept, Fresh, None
<1>5. NothingLeftBehind /\ NothingSkipped
  BY <1>2 DEF NothingLeftBehind, NothingSkipped
<1> QED BY <1>1, <1>4, <1>5 DEF WindowInv

(***************************************************************************)
(* Types.  A step of a relay changes the memory of that relay only.        *)
(***************************************************************************)
(* The pass that publishes leaves a typed memory.                          *)
LEMMA PublishedMemory ==
  ASSUME TypeOK, TimesKept, MemoryKept, NEW r \in Relays, relay[r].pc = "FETCHED", Publication(r) # {}
  PROVE  [pc |-> "SENT", watermark |-> NextWatermark(r), batch |-> {},
          published |-> Remembered(r), lastSeq |-> LastSeqs(r), heldSince |-> HeldSince(r)] \in Memory
<1>1. NextWatermark(r) \in 0..MaxTime
  <2>1. NextWatermark(r) \in 0..now /\ now \in 0..MaxTime
    BY WatermarkOfPass DEF TypeOK
  <2> QED BY <2>1, RelayAssumption DEF RelayAssumption
<1>2. Remembered(r) \subseteq Ids
  BY PlanOfPass DEF Remembered, TypeOK
<1> QED BY <1>1, <1>2, PlanOfPass, SequencesOfPass DEF Memory

(* A typed state in which the instants are kept steps to a typed state.    *)
LEMMA RelayNextTyped ==
  ASSUME TypeOK, TimesKept, MemoryKept, [Next]_vars
  PROVE  TypeOK'
<1> USE RelayAssumption
<1>1. relay \in [Relays -> Memory]
  BY DEF TypeOK, Memory
<1>2. ASSUME NEW m \in Memory, NEW r \in Relays, relay' = [relay EXCEPT ![r] = m],
             now' = now, event' = event, copies' \in [Ids -> Nat], stored' \in 0..MaxTime,
             lock' \in Relays \cup {"NONE"}, restarts' \in 0..MaxRestarts
      PROVE  TypeOK'
  BY <1>1, <1>2 DEF TypeOK, Memory
<1>3. \A E : Received(E) \in [Ids -> Nat]
  BY DEF TypeOK, Received
<1>4. CASE Tick
  BY <1>4 DEF Tick, TypeOK, RelayAssumption
<1>5. ASSUME NEW e \in Ids, NEW s \in Scopes \cup {"NONE"}, NEW t \in 0..now, Commit(e, s, t)
      PROVE  TypeOK'
  <2>1. Cardinality(Of(s)) \in Nat
    BY FS_Subset, FS_CardinalityType DEF Of, Committed, RelayAssumption
  <2>2. t \in 0..MaxTime
    BY DEF TypeOK, RelayAssumption
  <2> QED BY <1>5, <2>1, <2>2 DEF Commit, TypeOK
<1>6. ASSUME NEW r \in Relays, TryLock(r) PROVE TypeOK'
  <2>1. [relay[r] EXCEPT !.pc = "IDLE"] \in Memory
    BY <1>1 DEF Memory
  <2> QED BY <1>2, <1>6, <2>1 DEF TryLock, TypeOK
<1>7. ASSUME NEW r \in Relays, Fetch(r) PROVE TypeOK'
  <2> DEFINE w == IF relay[r].watermark = None THEN stored ELSE relay[r].watermark
             m == [relay[r] EXCEPT !.pc = "FETCHED", !.watermark = w, !.batch = Window(w)]
  <2>1. m \in Memory
    <3>1. Window(w) \in SUBSET Ids
      BY DEF Window, Committed
    <3>2. relay[r] \in Memory
      BY <1>1
    <3>3. w \in 0..MaxTime \cup {None}
      BY <3>2 DEF Memory, TypeOK
    <3>4. ASSUME NEW b \in SUBSET Ids, NEW v \in 0..MaxTime \cup {None}
          PROVE  [relay[r] EXCEPT !.pc = "FETCHED", !.watermark = v, !.batch = b] \in Memory
      BY <3>2 DEF Memory
    <3> QED BY <3>1, <3>3, <3>4
  <2>2. relay' = [relay EXCEPT ![r] = m]
    BY <1>7, <1>1 DEF Fetch, Memory
  <2> HIDE DEF m
  <2> QED BY <1>2, <1>7, <2>1, <2>2 DEF Fetch, TypeOK
<1>8. ASSUME NEW r \in Relays, Publish(r) PROVE TypeOK'
  BY <1>2, <1>3, <1>8, PublishedMemory DEF Publish, TypeOK
<1>9. ASSUME NEW r \in Relays, PublishNothing(r) PROVE TypeOK'
  <2> DEFINE m == [relay[r] EXCEPT !.pc = "IDLE", !.batch = {}, !.heldSince = HeldSince(r)]
  <2>1. m \in Memory
    <3>1. relay[r] \in Memory /\ HeldSince(r) \in [Scopes -> 0..MaxTime \cup {None}]
      BY <1>1, PlanOfPass
    <3>2. ASSUME NEW h \in [Scopes -> 0..MaxTime \cup {None}]
          PROVE  [relay[r] EXCEPT !.pc = "IDLE", !.batch = {}, !.heldSince = h] \in Memory
      BY <3>1 DEF Memory
    <3> QED BY <3>1, <3>2
  <2>2. relay' = [relay EXCEPT ![r] = m]
    BY <1>9, <1>1 DEF PublishNothing, Memory
  <2> HIDE DEF m
  <2> QED BY <1>2, <1>9, <2>1, <2>2 DEF PublishNothing, TypeOK
<1>10. ASSUME NEW r \in Relays, Persist(r) PROVE TypeOK'
  <2>1. [relay[r] EXCEPT !.pc = "IDLE"] \in Memory
    BY <1>1 DEF Memory
  <2>2. relay[r].watermark \in 0..MaxTime
    BY <1>1, <1>10 DEF Persist, MemoryKept, Memory
  <2> QED BY <1>2, <1>10, <2>1, <2>2 DEF Persist, TypeOK
<1>11. ASSUME NEW r \in Relays, Restart(r) PROVE TypeOK'
  <2>1. copies' \in [Ids -> Nat]
    BY <1>3, <1>11 DEF Restart
  <2>2. restarts' \in 0..MaxRestarts /\ lock' \in Relays \cup {"NONE"}
    BY <1>11 DEF Restart, TypeOK, RelayAssumption
  <2>3. relay' = [relay EXCEPT ![r] = Fresh]
    BY <1>11 DEF Restart
  <2>4. now' = now /\ event' = event /\ stored' \in 0..MaxTime
    BY <1>11 DEF Restart, TypeOK
  <2> QED BY <1>2, <2>1, <2>2, <2>3, <2>4, FreshMemory
<1>12. ASSUME NEW r \in Relays, LoseConnection(r) PROVE TypeOK'
  BY <1>12 DEF LoseConnection, TypeOK, RelayAssumption
<1>13. ASSUME NEW r \in Relays, FindOut(r) PROVE TypeOK'
  BY <1>2, <1>13, FreshMemory DEF FindOut, TypeOK
<1>14. CASE UNCHANGED vars
  BY <1>14 DEF vars, TypeOK
<1> QED
  BY <1>4, <1>5, <1>6, <1>7, <1>8, <1>9, <1>10, <1>11, <1>12, <1>13, <1>14 DEF Next, RunOnce

(***************************************************************************)
(* Instants and memories, however long transactions stay open.             *)
(***************************************************************************)
(* A step of relay r that keeps the instants and the events, leaves what   *)
(* the broker received, and stores no watermark but its own.               *)
LEMMA KeptByRelay ==
  ASSUME TypeOK, TypeOK', TimesKept, MemoryKept, NEW r \in Relays, NEW m \in Memory,
         now' = now, event' = event, relay' = [relay EXCEPT ![r] = m],
         \A e \in Ids : copies'[e] >= copies[e],
         stored' = stored \/ stored' = relay[r].watermark,
         m.watermark <= now, m.batch \subseteq Committed,
         \A e \in m.published : copies'[e] > 0,
         m.pc \in {"FETCHED", "SENT"} => m.watermark # None
  PROVE  TimesKept' /\ MemoryKept'
<1>1. Committed' = Committed
  BY DEF Committed, NoEvent
<1>2. relay \in [Relays -> Memory] /\ copies \in [Ids -> Nat] /\ copies' \in [Ids -> Nat]
  BY DEF TypeOK, Memory
<1>3. \A q \in Relays : q # r => relay'[q] = relay[q]
  BY <1>2
<1>4. relay'[r] = m
  BY <1>2
<1>5. TimesKept'
  <2>1. stored' <= now'
    BY DEF TimesKept
  <2>2. \A q \in Relays : relay'[q].watermark <= now'
    BY <1>3, <1>4 DEF TimesKept
  <2> QED BY <1>1, <2>1, <2>2 DEF TimesKept
<1>6. MemoryKept'
  <2>1. ASSUME NEW q \in Relays, q # r, NEW e \in relay[q].published PROVE copies'[e] > 0
    <3>1. e \in Ids /\ copies[e] > 0
      BY <1>2, <2>1 DEF MemoryKept, Memory
    <3> QED BY <1>2, <3>1
  <2> QED BY <1>1, <1>3, <1>4, <2>1 DEF MemoryKept
<1> QED
  BY <1>5, <1>6

(* Every step keeps the instants and what a relay remembers.               *)
LEMMA KeptStep ==
  ASSUME TypeOK, TimesKept, MemoryKept, [Next]_vars
  PROVE  TypeOK' /\ TimesKept' /\ MemoryKept'
<1> USE RelayAssumption
<1>1. TypeOK'
  BY RelayNextTyped
<1>2. relay \in [Relays -> Memory] /\ copies \in [Ids -> Nat] /\ copies' \in [Ids -> Nat]
  BY <1>1 DEF TypeOK, Memory
<1>3. \A r \in Relays :
        /\ relay[r].watermark <= now /\ relay[r].batch \subseteq Committed
        /\ \A e \in relay[r].published : copies[e] > 0
        /\ relay[r].pc \in {"FETCHED", "SENT"} => relay[r].watermark # None
  BY DEF TimesKept, MemoryKept
<1>4. CASE Tick
  <2>1. now' = now + 1 /\ now \in Nat /\ Committed' = Committed
    BY <1>4 DEF Tick, TypeOK, Committed, NoEvent
  <2> QED BY <1>1, <1>4, <2>1 DEF Tick, TimesKept, MemoryKept, TypeOK, None
<1>5. ASSUME NEW e \in Ids, NEW s \in Scopes \cup {"NONE"}, NEW t \in 0..now, Commit(e, s, t)
      PROVE  TimesKept' /\ MemoryKept'
  <2>1. Committed' = Committed \cup {e} /\ e \notin Committed
    BY <1>5, <1>1 DEF Commit, Committed, NoEvent, None, TypeOK
  <2>2. event'[e].created = t /\ \A f \in Committed : event'[f] = event[f]
    BY <1>5, <2>1 DEF Commit, TypeOK, Committed
  <2>3. now' = now /\ copies' = copies /\ stored' = stored /\ relay' = relay
    BY <1>5 DEF Commit
  <2>4. TimesKept'
    BY <2>1, <2>2, <2>3 DEF TimesKept
  <2>5. MemoryKept'
    BY <2>1, <2>3 DEF MemoryKept
  <2> QED BY <2>4, <2>5
<1>6. ASSUME NEW r \in Relays, NEW m \in Memory, relay' = [relay EXCEPT ![r] = m],
             now' = now, event' = event, \A e \in Ids : copies'[e] >= copies[e],
             stored' = stored \/ stored' = relay[r].watermark,
             m.pc \in {"WAITING", "IDLE"}, m.watermark <= now,
             m.batch \subseteq Committed, m.published \subseteq relay[r].published
      PROVE  TimesKept' /\ MemoryKept'
  <2>1. ASSUME NEW e \in m.published PROVE copies'[e] > 0
    <3>1. e \in Ids /\ copies[e] > 0
      BY <1>2, <1>3, <1>6, <2>1 DEF Memory
    <3> QED BY <1>2, <1>6, <3>1
  <2> QED BY <1>1, <1>6, <2>1, KeptByRelay
<1>7. ASSUME NEW r \in Relays, TryLock(r) \/ Persist(r) PROVE TimesKept' /\ MemoryKept'
  <2> DEFINE m == [relay[r] EXCEPT !.pc = "IDLE"]
  <2>0. relay[r] \in Memory
    BY <1>2
  <2>1. /\ m \in Memory /\ m.pc = "IDLE" /\ m.watermark = relay[r].watermark
        /\ m.batch = relay[r].batch /\ m.published = relay[r].published
    BY <2>0 DEF Memory
  <2>2. /\ relay' = [relay EXCEPT ![r] = m] /\ now' = now /\ event' = event
        /\ copies' = copies /\ (stored' = stored \/ stored' = relay[r].watermark)
    BY <1>7, <1>2 DEF TryLock, Persist
  <2> HIDE DEF m
  <2>3. \A e \in Ids : copies'[e] >= copies[e]
    BY <1>2, <2>2
  <2> QED BY <1>3, <1>6, <2>1, <2>2, <2>3
<1>8. ASSUME NEW r \in Relays, Fetch(r) PROVE TimesKept' /\ MemoryKept'
  <2> DEFINE w == IF relay[r].watermark = None THEN stored ELSE relay[r].watermark
             m == [relay[r] EXCEPT !.pc = "FETCHED", !.watermark = w, !.batch = Window(w)]
  <2>0. relay[r] \in Memory /\ Window(w) \subseteq Committed /\ Committed \subseteq Ids
    BY <1>2 DEF Window, Committed
  <2>1. w \in 0..MaxTime /\ w # None /\ w <= now
    BY <2>0 DEF Memory, TypeOK, TimesKept, None
  <2>2. relay' = [relay EXCEPT ![r] = m]
    BY <1>8, <1>2 DEF Fetch, Memory
  <2> HIDE DEF w
  <2>3. /\ m \in Memory /\ m.pc = "FETCHED" /\ m.watermark = w
        /\ m.batch = Window(w) /\ m.published = relay[r].published
    BY <2>0, <2>1 DEF Memory
  <2> HIDE DEF m
  <2>4. now' = now /\ event' = event /\ copies' = copies /\ stored' = stored
    BY <1>8 DEF Fetch
  <2>5. \A e \in Ids : copies'[e] >= copies[e]
    BY <1>2, <2>4
  <2> QED BY <1>1, <1>3, <2>0, <2>1, <2>2, <2>3, <2>4, <2>5, KeptByRelay
<1>9. ASSUME NEW r \in Relays, Publish(r) PROVE TimesKept' /\ MemoryKept'
  <2> DEFINE m == [pc |-> "SENT", watermark |-> NextWatermark(r), batch |-> {},
                   published |-> Remembered(r), lastSeq |-> LastSeqs(r), heldSince |-> HeldSince(r)]
  <2>1. relay[r].pc = "FETCHED" /\ Publication(r) # {}
    BY <1>9 DEF Publish
  <2>2. m \in Memory
    BY <2>1, PublishedMemory
  <2>3. NextWatermark(r) \in 0..now /\ Publication(r) \subseteq Ids
    BY <1>2, <2>1, WatermarkOfPass, PlanOfPass DEF Memory
  <2>4. /\ relay' = [relay EXCEPT ![r] = m] /\ now' = now /\ event' = event /\ stored' = stored
        /\ copies' = Received(Publication(r))
    BY <1>9 DEF Publish
  <2>5. \A e \in Ids : copies'[e] >= copies[e] /\ (e \in Publication(r) => copies'[e] > 0)
    BY <1>2, <2>4 DEF Received
  <2>6. ASSUME NEW e \in Remembered(r) PROVE copies'[e] > 0
    <3>1. e \in Ids /\ (e \in Publication(r) \/ e \in relay[r].published)
      BY <1>2, <2>3 DEF Remembered, Memory
    <3> QED BY <1>2, <1>3, <2>5, <3>1
  <2>7. m.watermark <= now /\ m.watermark # None /\ m.batch = {} /\ m.published = Remembered(r)
    BY <2>3 DEF None, TypeOK
  <2> HIDE DEF m
  <2> QED BY <1>1, <2>2, <2>4, <2>5, <2>6, <2>7, KeptByRelay
<1>10. ASSUME NEW r \in Relays, PublishNothing(r) PROVE TimesKept' /\ MemoryKept'
  <2> DEFINE m == [relay[r] EXCEPT !.pc = "IDLE", !.batch = {}, !.heldSince = HeldSince(r)]
  <2>0. relay[r] \in Memory /\ HeldSince(r) \in [Scopes -> 0..MaxTime \cup {None}]
    BY <1>2, PlanOfPass
  <2>1. /\ m \in Memory /\ m.pc = "IDLE" /\ m.watermark = relay[r].watermark
        /\ m.batch = {} /\ m.published = relay[r].published
    BY <2>0 DEF Memory
  <2>2. /\ relay' = [relay EXCEPT ![r] = m] /\ now' = now /\ event' = event
        /\ copies' = copies /\ stored' = stored
    BY <1>10, <1>2 DEF PublishNothing, Memory
  <2> HIDE DEF m
  <2>3. \A e \in Ids : copies'[e] >= copies[e]
    BY <1>2, <2>2
  <2> QED BY <1>3, <1>6, <2>1, <2>2, <2>3
<1>11. ASSUME NEW r \in Relays, Restart(r) \/ FindOut(r) PROVE TimesKept' /\ MemoryKept'
  <2>1. \A e \in Ids : copies'[e] >= copies[e]
    BY <1>2, <1>11 DEF Restart, FindOut, Received
  <2>2. relay' = [relay EXCEPT ![r] = Fresh] /\ now' = now /\ event' = event /\ stored' = stored
    BY <1>11 DEF Restart, FindOut
  <2>3. Fresh.pc = "WAITING" /\ Fresh.watermark <= now /\ Fresh.batch = {} /\ Fresh.published = {}
    BY DEF Fresh, None, TypeOK
  <2> QED BY <1>6, <2>1, <2>2, <2>3, FreshMemory
<1>12. ASSUME NEW r \in Relays, LoseConnection(r) PROVE TimesKept' /\ MemoryKept'
  BY <1>12 DEF LoseConnection, TimesKept, MemoryKept, Committed, NoEvent
<1>13. CASE UNCHANGED vars
  <2>1. UNCHANGED <<now, event, copies, stored, relay>>
    BY <1>13 DEF vars
  <2>2. Committed' = Committed
    BY <2>1 DEF Committed, NoEvent
  <2>3. TimesKept'
    BY <2>1, <2>2 DEF TimesKept
  <2>4. MemoryKept'
    BY <2>1, <2>2 DEF MemoryKept
  <2> QED BY <1>1, <2>3, <2>4
<1> QED
  BY <1>1, <1>4, <1>5, <1>7, <1>8, <1>9, <1>10, <1>11, <1>12, <1>13 DEF Next, RunOnce

(***************************************************************************)
(* The window.                                                             *)
(***************************************************************************)
(* What the invariant says of the memory m of one relay, when the broker   *)
(* has received c[e] copies of each event e.                               *)
Right(m, c) ==
  /\ m.watermark <= now
  /\ m.batch \subseteq Committed
  /\ \A e \in m.published : c[e] > 0
  /\ m.pc \in {"FETCHED", "SENT"} => m.watermark # None
  /\ \A e \in Committed : c[e] = 0 =>
       /\ event[e].created >= m.watermark - Overlap
       /\ (m.pc = "FETCHED" /\ e \notin m.batch)
            => \A f \in m.batch : event[e].created >= event[f].created - Overlap

(* In a state of the invariant every relay's memory is right.              *)
LEMMA AllRight == WindowInv => \A r \in Relays : Right(relay[r], copies)
BY DEF WindowInv, TimesKept, MemoryKept, NothingSkipped, Right

(* More copies at the broker leave a right memory right.                   *)
LEMMA RightGrows ==
  ASSUME NEW m \in Memory, NEW c \in [Ids -> Nat], NEW d \in [Ids -> Nat],
         \A e \in Ids : d[e] >= c[e], Right(m, c)
  PROVE  Right(m, d)
<1>1. \A e \in Ids : (c[e] > 0 => d[e] > 0) /\ (d[e] = 0 => c[e] = 0)
  OBVIOUS
<1>2. m.published \subseteq Ids /\ Committed \subseteq Ids
  BY DEF Memory, Committed
<1> QED BY <1>1, <1>2 DEF Right

(* A step of relay r that keeps the instants, the events and what the      *)
(* broker received, leaves r a right memory and stores no watermark but    *)
(* its own keeps the invariant.                                            *)
LEMMA StepOfRelay ==
  ASSUME TypeOK, TypeOK', WindowInv, NEW r \in Relays, NEW m \in Memory,
         now' = now, event' = event, relay' = [relay EXCEPT ![r] = m],
         \A e \in Ids : copies'[e] >= copies[e],
         stored' = stored \/ stored' = relay[r].watermark,
         Right(m, copies')
  PROVE  WindowInv'
<1>1. Committed' = Committed /\ Committed \subseteq Ids
  BY DEF Committed, NoEvent
<1>2. relay \in [Relays -> Memory] /\ copies \in [Ids -> Nat] /\ copies' \in [Ids -> Nat]
  BY DEF TypeOK, Memory
<1>3. \A q \in Relays : Right(relay[q], copies')
  BY <1>2, AllRight, RightGrows
<1>4. \A q \in Relays : Right(relay'[q], copies')
  BY <1>2, <1>3
<1>5. TimesKept'
  BY <1>1, <1>3, <1>4 DEF TimesKept, WindowInv, Right
<1>6. MemoryKept'
  BY <1>1, <1>4 DEF MemoryKept, Right
<1>7. NothingSkipped'
  BY <1>1, <1>4 DEF NothingSkipped, Right
<1>8. NothingLeftBehind'
  <2> SUFFICES ASSUME NEW e \in Committed, copies'[e] = 0
               PROVE  event[e].created >= stored' - Overlap
    BY <1>1 DEF NothingLeftBehind
  <2>1. CASE stored' = relay[r].watermark
    BY <1>3, <2>1 DEF Right
  <2>2. CASE stored' = stored
    <3>1. copies[e] = 0
      BY <1>1, <1>2
    <3> QED BY <2>2, <3>1 DEF WindowInv, NothingLeftBehind
  <2> QED BY <2>1, <2>2
<1> QED BY <1>5, <1>6, <1>7, <1>8 DEF WindowInv

(* The memory of a relay that starts is right.                             *)
LEMMA FreshRight ==
  ASSUME TypeOK, WindowInv, NEW c PROVE Right(Fresh, c)
BY RelayAssumption DEF Right, Fresh, None, WindowInv, TimesKept, TypeOK, RelayAssumption

(* What the limit of a batch cuts off is not older than the batch.         *)
LEMMA CutIsNewer ==
  ASSUME TypeOK, TimesKept, NEW w \in Int, NEW e \in Committed, NEW f \in Window(w),
         event[e].created >= w - Overlap, e \notin Window(w)
  PROVE  event[e].created >= event[f].created
<1> DEFINE rows == {g \in Committed : event[g].created >= w - Overlap}
           before(x) == {g \in rows : Before(g, x)}
<1>1. e \in rows /\ f \in rows /\ rows \subseteq Committed /\ rows \subseteq Ids
  BY DEF Window, Committed
<1>2. /\ Cardinality(before(f)) <= BatchSize
      /\ ~ (Cardinality(before(e)) <= BatchSize)
  BY <1>1 DEF Window
<1>3. IsFiniteSet(rows)
  BY <1>1, FS_Subset, RelayAssumption DEF RelayAssumption
<1>4. \A x \in rows : IsFiniteSet(before(x)) /\ Cardinality(before(x)) \in Nat
  BY <1>3, FS_Subset, FS_CardinalityType
<1>5. \A g \in rows : event[g].created \in Int /\ g \in Nat
  <2>1. \A g \in Committed : event[g].created \in Int
    BY DEF TimesKept
  <2>2. Ids \subseteq Nat
    BY RelayAssumption DEF RelayAssumption
  <2> HIDE DEF rows
  <2> QED BY <1>1, <2>1, <2>2
<1>6. ASSUME event[e].created < event[f].created PROVE before(e) \subseteq before(f)
  BY <1>1, <1>5, <1>6 DEF Before
<1>7. before(e) \subseteq before(f) => Cardinality(before(e)) <= Cardinality(before(f))
  BY <1>1, <1>4, FS_Subset
<1> HIDE DEF before
<1>8. ASSUME event[e].created < event[f].created PROVE FALSE
  BY <1>1, <1>2, <1>4, <1>6, <1>7, <1>8, RelayAssumption DEF RelayAssumption
<1> QED BY <1>1, <1>5, <1>8

(* A relay that has read its window has a right memory: what it did not    *)
(* read is published or not older than what it read.                       *)
LEMMA FetchRight ==
  ASSUME TypeOK, WindowInv, NEW r \in Relays,
         NEW w, w = IF relay[r].watermark = None THEN stored ELSE relay[r].watermark
  PROVE  Right([relay[r] EXCEPT !.pc = "FETCHED", !.watermark = w, !.batch = Window(w)], copies)
<1> DEFINE m == [relay[r] EXCEPT !.pc = "FETCHED", !.watermark = w, !.batch = Window(w)]
<1> USE RelayAssumption DEF WindowInv
<1>1. relay[r] \in Memory
  BY DEF TypeOK, Memory
<1>2. /\ m.pc = "FETCHED" /\ m.watermark = w /\ m.batch = Window(w)
      /\ m.published = relay[r].published
  BY <1>1 DEF Memory
<1>3. w \in 0..now /\ w # None
  BY <1>1 DEF Memory, TypeOK, TimesKept, None
<1>4. Window(w) \subseteq Committed
  BY DEF Window
<1>5. \A e \in Committed : event[e].created \in 0..now
  BY DEF TimesKept
<1>6. \A e \in Committed : copies[e] = 0 => event[e].created >= w - Overlap
  BY AllRight DEF Right, NothingLeftBehind
<1>7. ASSUME NEW e \in Committed, copies[e] = 0, e \notin Window(w), NEW f \in Window(w)
      PROVE  event[e].created >= event[f].created - Overlap
  <2>1. event[e].created >= event[f].created
    BY <1>3, <1>6, <1>7, CutIsNewer
  <2> QED BY <1>4, <1>5, <2>1 DEF RelayAssumption
<1>8. \A e \in m.published : copies[e] > 0
  BY <1>2, AllRight DEF Right
<1> HIDE DEF m
<1>9. Right(m, copies)
  BY <1>2, <1>3, <1>4, <1>6, <1>7, <1>8 DEF Right, TypeOK
<1> QED BY <1>9 DEF m

(* A relay whose batch the broker has confirmed has a right memory.        *)
LEMMA PublishRight ==
  ASSUME TypeOK, WindowInv, NEW r \in Relays, relay[r].pc = "FETCHED", Publication(r) # {}
  PROVE  Right([pc |-> "SENT", watermark |-> NextWatermark(r), batch |-> {},
                published |-> Remembered(r), lastSeq |-> LastSeqs(r),
                heldSince |-> HeldSince(r)], Received(Publication(r)))
<1> DEFINE n == NextWatermark(r)
           c == Received(Publication(r))
<1> USE RelayAssumption DEF WindowInv
<1>1. /\ relay[r].watermark \in Int /\ n \in 0..now /\ now \in Nat
      /\ n = relay[r].watermark \/ \E f \in relay[r].batch : n <= event[f].created
      /\ n = relay[r].watermark
          \/ \A e \in relay[r].batch \ (relay[r].published \cup Publication(r)) :
               n <= event[e].created
  BY WatermarkOfPass DEF TypeOK, None
<1>2. Publication(r) \subseteq relay[r].batch /\ relay[r].batch \subseteq Ids
  BY PlanOfPass DEF TypeOK
<1>3. \A e \in Ids :
        /\ c[e] >= copies[e]
        /\ c[e] = 0 => copies[e] = 0
        /\ e \in Publication(r) => c[e] > 0
  BY DEF Received, TypeOK
<1>4. Right(relay[r], copies)
  BY AllRight
<1> HIDE DEF n, c
<1>5. ASSUME NEW e \in Remembered(r) PROVE c[e] > 0
  <2>1. e \in relay[r].published \cup Publication(r) /\ e \in Ids
    BY <1>2 DEF Remembered, TypeOK
  <2>2. copies[e] \in Nat /\ c[e] >= copies[e]
    BY <1>3, <2>1 DEF TypeOK
  <2>3. CASE e \in Publication(r)
    BY <1>3, <2>1, <2>3
  <2>4. CASE e \in relay[r].published
    <3>1. copies[e] > 0
      BY <1>4, <2>4 DEF Right
    <3>2. c[e] \in Int
      BY <2>1 DEF c, Received, TypeOK
    <3> QED BY <2>2, <3>1, <3>2
  <2> QED BY <2>1, <2>3, <2>4
<1>6. ASSUME NEW e \in Committed, c[e] = 0 PROVE event[e].created >= n - Overlap
  <2>1. e \in Ids /\ copies[e] = 0 /\ e \notin Publication(r) /\ e \notin relay[r].published
    <3>1. e \in Ids
      BY DEF Committed
    <3>2. copies[e] = 0 /\ e \notin Publication(r)
      <4>1. ~ (c[e] > 0)
        BY <1>6
      <4> QED BY <1>3, <1>6, <3>1, <4>1
    <3>3. e \notin relay[r].published
      BY <1>4, <3>2 DEF Right
    <3> QED BY <3>1, <3>2, <3>3
  <2>2. event[e].created \in 0..now /\ Overlap \in Nat
    BY DEF TimesKept, RelayAssumption
  <2>3. CASE n = relay[r].watermark
    BY <1>4, <2>1, <2>3 DEF Right
  <2>4. CASE n # relay[r].watermark /\ e \in relay[r].batch
    BY <1>1, <2>1, <2>2, <2>4
  <2>5. CASE n # relay[r].watermark /\ e \notin relay[r].batch
    <3>1. PICK f \in relay[r].batch : n <= event[f].created
      BY <1>1, <2>5
    <3>2. event[e].created >= event[f].created - Overlap
      BY <1>4, <2>1, <2>5 DEF Right
    <3>3. event[f].created \in 0..now
      BY <1>4 DEF Right, TimesKept
    <3> QED BY <1>1, <2>2, <3>1, <3>2, <3>3
  <2> QED BY <2>3, <2>4, <2>5
<1> QED BY <1>1, <1>5, <1>6 DEF Right, n, c, None

(* Every step keeps the invariant, if no transaction stays open for longer *)
(* than the overlap.                                                       *)
LEMMA RelayNextWindow ==
  ASSUME MaxLag <= Overlap
  PROVE  TypeOK /\ WindowInv /\ [Next]_vars => WindowInv'
<1> SUFFICES ASSUME TypeOK, WindowInv, [Next]_vars PROVE WindowInv'
  OBVIOUS
<1> USE RelayAssumption
<1>1. TypeOK'
  BY RelayNextTyped DEF WindowInv
<1>2. /\ relay \in [Relays -> Memory] /\ copies \in [Ids -> Nat]
      /\ \A r \in Relays : Right(relay[r], copies)
  BY AllRight DEF TypeOK, Memory
<1>3. ASSUME NEW r \in Relays, NEW m \in Memory, relay' = [relay EXCEPT ![r] = m],
             now' = now, event' = event, copies' = copies, stored' = stored, Right(m, copies)
      PROVE  WindowInv'
  <2>1. \A e \in Ids : copies'[e] >= copies[e]
    BY <1>2, <1>3
  <2> QED BY <1>1, <1>3, <2>1, StepOfRelay
<1>4. CASE Tick
  <2>1. now' = now + 1 /\ now \in Nat /\ Committed' = Committed
    BY <1>4 DEF Tick, TypeOK, Committed, NoEvent
  <2>2. TimesKept'
    <3>1. now < now'
      BY <2>1
    <3> QED BY <1>4, <2>1, <3>1 DEF Tick, WindowInv, TimesKept, TypeOK, None
  <2>3. MemoryKept' /\ NothingLeftBehind' /\ NothingSkipped'
    BY <1>4, <2>1 DEF Tick, WindowInv, MemoryKept, NothingLeftBehind, NothingSkipped
  <2> QED BY <2>2, <2>3 DEF WindowInv
<1>5. ASSUME NEW e \in Ids, NEW s \in Scopes \cup {"NONE"}, NEW t \in 0..now, Commit(e, s, t)
      PROVE  WindowInv'
  <2>1. Committed' = Committed \cup {e} /\ e \notin Committed
    BY <1>5, <1>1 DEF Commit, Committed, NoEvent, None, TypeOK
  <2>2. event'[e].created = t /\ \A f \in Committed : event'[f] = event[f]
    BY <1>5, <2>1 DEF Commit, TypeOK, Committed
  <2>3. /\ now' = now /\ copies' = copies /\ stored' = stored /\ relay' = relay
        /\ t >= now - Overlap /\ now \in Nat /\ stored \in Nat /\ t \in Nat
    BY <1>5 DEF Commit, TypeOK, RelayAssumption
  <2>4. \A r \in Relays : relay[r].watermark \in Int /\ relay[r].watermark <= now
    BY <1>2 DEF Memory, Right, None
  <2>5. \A f \in Committed : event[f].created \in 0..now
    BY DEF WindowInv, TimesKept
  <2>6. TimesKept'
    BY <2>1, <2>2, <2>3, <2>4, <2>5 DEF WindowInv, TimesKept
  <2>7. MemoryKept'
    BY <2>1, <2>3 DEF WindowInv, MemoryKept
  <2>8. NothingLeftBehind'
    <3>1. t >= stored - Overlap
      BY <2>3 DEF WindowInv, TimesKept, RelayAssumption
    <3> QED BY <2>1, <2>2, <2>3, <3>1 DEF WindowInv, NothingLeftBehind
  <2>9. NothingSkipped'
    <3> SUFFICES ASSUME NEW r \in Relays, NEW f \in Committed', copies[f] = 0
                 PROVE  /\ event'[f].created >= relay[r].watermark - Overlap
                        /\ (relay[r].pc = "FETCHED" /\ f \notin relay[r].batch)
                             => \A g \in relay[r].batch :
                                  event'[f].created >= event'[g].created - Overlap
      BY <2>3 DEF NothingSkipped
    <3>1. relay[r].batch \subseteq Committed
      BY <1>2 DEF Right
    <3>2. CASE f \in Committed
      BY <1>2, <2>2, <3>1, <3>2 DEF Right
    <3>3. CASE f = e
      <4>1. t >= relay[r].watermark - Overlap
        BY <2>3, <2>4 DEF RelayAssumption
      <4>2. \A g \in relay[r].batch : t >= event'[g].created - Overlap
        BY <2>2, <2>3, <2>5, <3>1 DEF RelayAssumption
      <4> QED BY <2>2, <3>3, <4>1, <4>2
    <3> QED BY <2>1, <3>2, <3>3
  <2> QED BY <2>6, <2>7, <2>8, <2>9 DEF WindowInv
<1>6. ASSUME NEW r \in Relays, TryLock(r) PROVE WindowInv'
  <2> DEFINE m == [relay[r] EXCEPT !.pc = "IDLE"]
  <2>0. relay[r] \in Memory /\ Right(relay[r], copies)
    BY <1>2
  <2>1. m \in Memory /\ Right(m, copies)
    <3>1. m \in Memory
      BY <2>0 DEF Memory
    <3>2. /\ m.pc = "IDLE" /\ m.watermark = relay[r].watermark
          /\ m.batch = relay[r].batch /\ m.published = relay[r].published
      BY <2>0 DEF Memory
    <3> HIDE DEF m
    <3> QED BY <2>0, <3>1, <3>2 DEF Right
  <2>2. relay' = [relay EXCEPT ![r] = m]
    BY <1>6, <1>2 DEF TryLock
  <2> HIDE DEF m
  <2> QED BY <1>3, <1>6, <2>1, <2>2 DEF TryLock
<1>7. ASSUME NEW r \in Relays, Fetch(r) PROVE WindowInv'
  <2> DEFINE w == IF relay[r].watermark = None THEN stored ELSE relay[r].watermark
             m == [relay[r] EXCEPT !.pc = "FETCHED", !.watermark = w, !.batch = Window(w)]
  <2>1. m \in Memory
    <3>1. Window(w) \in SUBSET Ids
      BY DEF Window, Committed
    <3>2. relay[r] \in Memory
      BY <1>2
    <3>3. w \in 0..MaxTime \cup {None}
      BY <3>2 DEF Memory, TypeOK
    <3>4. ASSUME NEW b \in SUBSET Ids, NEW v \in 0..MaxTime \cup {None}
          PROVE  [relay[r] EXCEPT !.pc = "FETCHED", !.watermark = v, !.batch = b] \in Memory
      BY <3>2 DEF Memory
    <3> QED BY <3>1, <3>3, <3>4
  <2>2. Right(m, copies)
    BY FetchRight
  <2>3. relay' = [relay EXCEPT ![r] = m]
    BY <1>7, <1>2 DEF Fetch, Memory
  <2> HIDE DEF m
  <2> QED BY <1>3, <1>7, <2>1, <2>2, <2>3 DEF Fetch
<1>8. ASSUME NEW r \in Relays, Publish(r) PROVE WindowInv'
  <2> DEFINE m == [pc |-> "SENT", watermark |-> NextWatermark(r), batch |-> {},
                   published |-> Remembered(r), lastSeq |-> LastSeqs(r), heldSince |-> HeldSince(r)]
  <2>1. relay[r].pc = "FETCHED" /\ Publication(r) # {}
    BY <1>8 DEF Publish
  <2>2. m \in Memory
    BY <2>1, PublishedMemory DEF WindowInv
  <2>3. Right(m, copies')
    BY <1>8, <2>1, PublishRight DEF Publish
  <2>4. \A e \in Ids : copies'[e] >= copies[e]
    BY <1>2, <1>8 DEF Publish, Received
  <2>5. relay' = [relay EXCEPT ![r] = m] /\ now' = now /\ event' = event /\ stored' = stored
    BY <1>8 DEF Publish
  <2> HIDE DEF m
  <2> QED BY <1>1, <2>2, <2>3, <2>4, <2>5, StepOfRelay
<1>9. ASSUME NEW r \in Relays, PublishNothing(r) PROVE WindowInv'
  <2> DEFINE m == [relay[r] EXCEPT !.pc = "IDLE", !.batch = {}, !.heldSince = HeldSince(r)]
  <2>1. m \in Memory
    <3>1. relay[r] \in Memory /\ HeldSince(r) \in [Scopes -> 0..MaxTime \cup {None}]
      BY <1>2, PlanOfPass
    <3> QED BY <3>1 DEF Memory
  <2>2. Right(m, copies)
    BY <1>2 DEF Memory, Right
  <2>3. relay' = [relay EXCEPT ![r] = m]
    BY <1>9, <1>2 DEF PublishNothing, Memory
  <2> HIDE DEF m
  <2> QED BY <1>3, <1>9, <2>1, <2>2, <2>3 DEF PublishNothing
<1>10. ASSUME NEW r \in Relays, Persist(r) PROVE WindowInv'
  <2> DEFINE m == [relay[r] EXCEPT !.pc = "IDLE"]
  <2>0. relay[r] \in Memory /\ Right(relay[r], copies)
    BY <1>2
  <2>1. m \in Memory /\ Right(m, copies)
    <3>1. m \in Memory
      BY <2>0 DEF Memory
    <3>2. /\ m.pc = "IDLE" /\ m.watermark = relay[r].watermark
          /\ m.batch = relay[r].batch /\ m.published = relay[r].published
      BY <2>0 DEF Memory
    <3> HIDE DEF m
    <3> QED BY <2>0, <3>1, <3>2 DEF Right
  <2>2. relay' = [relay EXCEPT ![r] = m]
    BY <1>10, <1>2 DEF Persist
  <2>3. /\ now' = now /\ event' = event /\ copies' = copies /\ stored' = relay[r].watermark
        /\ \A e \in Ids : copies'[e] >= copies[e]
    BY <1>2, <1>10 DEF Persist
  <2> HIDE DEF m
  <2> QED BY <1>1, <2>1, <2>2, <2>3, StepOfRelay
<1>11. ASSUME NEW r \in Relays, Restart(r) PROVE WindowInv'
  <2>1. \A e \in Ids : copies'[e] >= copies[e]
    BY <1>2, <1>11 DEF Restart, Received
  <2>2. relay' = [relay EXCEPT ![r] = Fresh] /\ now' = now /\ event' = event /\ stored' = stored
    BY <1>11 DEF Restart
  <2>3. Right(Fresh, copies')
    BY FreshRight
  <2> QED BY <1>1, <2>1, <2>2, <2>3, FreshMemory, StepOfRelay
<1>12. ASSUME NEW r \in Relays, LoseConnection(r) PROVE WindowInv'
  BY <1>12 DEF LoseConnection, WindowInv, TimesKept, MemoryKept, NothingLeftBehind,
               NothingSkipped, Committed, NoEvent
<1>13. ASSUME NEW r \in Relays, FindOut(r) PROVE WindowInv'
  BY <1>3, <1>13, FreshMemory, FreshRight DEF FindOut
<1>14. CASE UNCHANGED vars
  BY <1>14 DEF vars, WindowInv, TimesKept, MemoryKept, NothingLeftBehind,
               NothingSkipped, Committed, NoEvent
<1> QED
  BY <1>4, <1>5, <1>6, <1>7, <1>8, <1>9, <1>10, <1>11, <1>12, <1>13, <1>14 DEF Next, RunOnce

(***************************************************************************)
(* Theorems.                                                               *)
(***************************************************************************)
(* The inductive invariant: types, and a window that skips nothing, as     *)
(* long as transactions are not open for longer than the overlap.          *)
THEOREM WindowHolds ==
  ASSUME MaxLag <= Overlap
  PROVE  Spec => [](TypeOK /\ WindowInv)
<1>1. TypeOK /\ WindowInv /\ [Next]_vars => TypeOK' /\ WindowInv'
  BY RelayNextTyped, RelayNextWindow DEF WindowInv
<1> QED BY <1>1, RelayInit, PTL DEF Spec

(* An event the broker has not received is never behind the window that a  *)
(* restarted relay reads from: with any number of relays, whatever batches *)
(* are cut or held back, and whenever relays stop or lose their lock.      *)
THEOREM NothingIsLeftBehind ==
  ASSUME MaxLag <= Overlap
  PROVE  Spec => []NothingLeftBehind
<1>1. WindowInv => NothingLeftBehind
  BY DEF WindowInv
<1> QED BY <1>1, WindowHolds, PTL

(* Types: watermarks, cursors and the times a scope has been held back     *)
(* stay in range, however long transactions stay open.                     *)
THEOREM TypeCorrect == Spec => []TypeOK
<1>1. Init => TypeOK /\ TimesKept /\ MemoryKept
  BY RelayInit DEF WindowInv
<1>2. TypeOK /\ TimesKept /\ MemoryKept /\ [Next]_vars => TypeOK' /\ TimesKept' /\ MemoryKept'
  BY KeptStep
<1> QED BY <1>1, <1>2, PTL DEF Spec

(***************************************************************************)
(* What the broker has received was committed.                             *)
(***************************************************************************)
ReceivedCommitted == \A e \in Ids : copies[e] > 0 => e \in Committed

LEMMA ReceivedStep ==
  ASSUME TypeOK, TimesKept, MemoryKept, ReceivedCommitted, [Next]_vars
  PROVE  ReceivedCommitted'
<1>1. copies \in [Ids -> Nat] /\ \A r \in Relays : Publication(r) \subseteq Committed
  BY PlanOfPass DEF TypeOK, MemoryKept
<1>2. ASSUME NEW E, E \subseteq Committed, copies' = Received(E), event' = event
      PROVE  ReceivedCommitted'
  <2>1. Committed' = Committed
    BY <1>2 DEF Committed, NoEvent
  <2> QED BY <1>1, <1>2, <2>1 DEF ReceivedCommitted, Received
<1>3. ASSUME NEW r \in Relays, Publish(r) PROVE ReceivedCommitted'
  BY <1>1, <1>2, <1>3 DEF Publish
<1>4. ASSUME NEW r \in Relays, Restart(r) PROVE ReceivedCommitted'
  <2>1. PICK E \in IF relay[r].pc = "FETCHED" THEN Prefixes(r) ELSE {{}} : copies' = Received(E)
    BY <1>4 DEF Restart
  <2>2. E \subseteq Committed
    BY <1>1, <2>1 DEF Prefixes
  <2> QED BY <1>2, <1>4, <2>1, <2>2 DEF Restart
<1>5. ASSUME NEW e \in Ids, NEW s \in Scopes \cup {"NONE"}, NEW t \in 0..now, Commit(e, s, t)
      PROVE  ReceivedCommitted'
  <2>1. Committed \subseteq Committed'
    BY <1>5, KeptStep DEF Commit, Committed, NoEvent, None, TypeOK
  <2>2. copies' = copies
    BY <1>5 DEF Commit
  <2> QED BY <2>1, <2>2 DEF ReceivedCommitted
<1>6. ASSUME copies' = copies, event' = event PROVE ReceivedCommitted'
  BY <1>6 DEF ReceivedCommitted, Committed, NoEvent
<1>7. CASE Tick \/ UNCHANGED vars
  BY <1>6, <1>7 DEF Tick, vars
<1>8. ASSUME NEW r \in Relays,
             TryLock(r) \/ Fetch(r) \/ PublishNothing(r) \/ Persist(r) \/ LoseConnection(r) \/ FindOut(r)
      PROVE  ReceivedCommitted'
  BY <1>6, <1>8 DEF TryLock, Fetch, PublishNothing, Persist, LoseConnection, FindOut
<1> QED
  BY <1>3, <1>4, <1>5, <1>7, <1>8 DEF Next, RunOnce

(***************************************************************************)
(* Duplicates.                                                             *)
(***************************************************************************)
(* A life of a relay lasts from the lock to the end of its process.  It    *)
(* may still send an event that it has neither sent nor left behind; the   *)
(* events it has forgotten lie behind its window for good.                 *)
MaySend(r, e) ==
  /\ relay[r].pc # "WAITING"
  /\ e \notin relay[r].published
  /\ e \in Committed => event[e].created >= relay[r].watermark - Overlap

Senders(e) == {r \in Relays : MaySend(r, e)}

(* A life begins with the lock, and the lock comes free only by a restart  *)
(* or a lost connection.                                                   *)
Lives == restarts + IF lock = "NONE" THEN 0 ELSE 1

BatchInWindow ==
  \A r \in Relays : relay[r].pc = "FETCHED" =>
    \A e \in relay[r].batch : event[e].created >= relay[r].watermark - Overlap

SentPerLife ==
  \A e \in Ids : IsFiniteSet(Senders(e)) /\ copies[e] + Cardinality(Senders(e)) <= Lives

(* What a pass publishes, its relay might send.                            *)
LEMMA PublishesWhatItMay ==
  ASSUME TypeOK, MemoryKept, BatchInWindow, NEW r \in Relays, relay[r].pc = "FETCHED",
         NEW e \in Publication(r)
  PROVE  MaySend(r, e)
<1>1. e \in relay[r].batch /\ e \notin relay[r].published
  BY PlanOfPass, PlanIsNew
<1> QED BY <1>1 DEF MaySend, BatchInWindow

(* Whoever else may send: a step of relay r, in which r sends the events   *)
(* of E, if any, and may send none afterwards that it could not before.    *)
LEMMA SendersShrink ==
  ASSUME TypeOK, TypeOK', SentPerLife, NEW r \in Relays, NEW E \in SUBSET Ids,
         \A q \in Relays : q # r => relay'[q] = relay[q],
         event' = event, copies' = Received(E), Lives <= Lives',
         \A e \in E : MaySend(r, e) /\ ~MaySend(r, e)',
         \A e \in Ids : MaySend(r, e)' => MaySend(r, e)
  PROVE  SentPerLife'
<1>1. Committed' = Committed
  BY DEF Committed, NoEvent
<1>2. \A e \in Ids, q \in Relays : q # r => (MaySend(q, e)' <=> MaySend(q, e))
  BY <1>1 DEF MaySend
<1>3. ASSUME NEW e \in Ids
      PROVE  IsFiniteSet(Senders(e)') /\ copies'[e] + Cardinality(Senders(e)') <= Lives'
  <2>1. IsFiniteSet(Senders(e)) /\ copies[e] + Cardinality(Senders(e)) <= Lives
    BY DEF SentPerLife
  <2>2. /\ Cardinality(Senders(e)) \in Nat /\ copies[e] \in Nat
        /\ Lives \in Int /\ Lives' \in Int
        /\ copies'[e] = copies[e] + IF e \in E THEN 1 ELSE 0
    BY <2>1, FS_CardinalityType DEF TypeOK, Lives, Received
  <2>3. Senders(e)' \subseteq Senders(e)
    BY <1>2 DEF Senders
  <2>4. CASE e \in E
    <3>1. r \in Senders(e) /\ Senders(e)' \subseteq Senders(e) \ {r}
      BY <2>3, <2>4 DEF Senders
    <3>2. /\ IsFiniteSet(Senders(e) \ {r})
          /\ Cardinality(Senders(e) \ {r}) = Cardinality(Senders(e)) - 1
      BY <2>1, <3>1, FS_RemoveElement
    <3>3. /\ IsFiniteSet(Senders(e)') /\ Cardinality(Senders(e)') \in Nat
          /\ Cardinality(Senders(e)') <= Cardinality(Senders(e)) - 1
      BY <3>1, <3>2, FS_Subset, FS_CardinalityType
    <3> QED BY <2>1, <2>2, <2>4, <3>3
  <2>5. CASE e \notin E
    <3>1. /\ IsFiniteSet(Senders(e)') /\ Cardinality(Senders(e)') \in Nat
          /\ Cardinality(Senders(e)') <= Cardinality(Senders(e))
      BY <2>1, <2>3, FS_Subset, FS_CardinalityType
    <3> QED BY <2>1, <2>2, <2>5, <3>1
  <2> QED BY <2>4, <2>5
<1> QED
  BY <1>3 DEF SentPerLife

LEMMA BatchInWindowStep ==
  ASSUME TypeOK, TimesKept, MemoryKept, BatchInWindow, [Next]_vars
  PROVE  BatchInWindow'
<1> USE RelayAssumption
<1>1. relay \in [Relays -> Memory] /\ \A r \in Relays : relay[r].batch \subseteq Committed
  BY DEF TypeOK, Memory, MemoryKept
<1>2. ASSUME NEW r \in Relays, NEW m \in Memory, relay' = [relay EXCEPT ![r] = m], event' = event,
             m.pc = "FETCHED" => \A e \in m.batch : event[e].created >= m.watermark - Overlap
      PROVE  BatchInWindow'
  BY <1>1, <1>2 DEF BatchInWindow
<1>3. ASSUME relay' = relay, \A e \in Committed : event'[e] = event[e] PROVE BatchInWindow'
  BY <1>1, <1>3 DEF BatchInWindow
<1>4. CASE Tick
  BY <1>3, <1>4 DEF Tick
<1>5. ASSUME NEW e \in Ids, NEW s \in Scopes \cup {"NONE"}, NEW t \in 0..now, Commit(e, s, t)
      PROVE  BatchInWindow'
  <2>1. \A f \in Committed : event'[f] = event[f]
    BY <1>5 DEF Commit, TypeOK, Committed
  <2> QED BY <1>3, <1>5, <2>1 DEF Commit
<1>6. ASSUME NEW r \in Relays, TryLock(r) \/ Persist(r) PROVE BatchInWindow'
  <2> DEFINE m == [relay[r] EXCEPT !.pc = "IDLE"]
  <2>1. m \in Memory /\ m.pc = "IDLE"
    BY <1>1 DEF Memory
  <2>2. relay' = [relay EXCEPT ![r] = m] /\ event' = event
    BY <1>1, <1>6 DEF TryLock, Persist
  <2> HIDE DEF m
  <2> QED BY <1>2, <2>1, <2>2
<1>7. ASSUME NEW r \in Relays, Fetch(r) PROVE BatchInWindow'
  <2> DEFINE w == IF relay[r].watermark = None THEN stored ELSE relay[r].watermark
             m == [relay[r] EXCEPT !.pc = "FETCHED", !.watermark = w, !.batch = Window(w)]
  <2>0. relay[r] \in Memory /\ Window(w) \subseteq Ids
    BY <1>1 DEF Window, Committed
  <2>1. w \in 0..MaxTime \cup {None}
    BY <2>0 DEF Memory, TypeOK
  <2>2. relay' = [relay EXCEPT ![r] = m] /\ event' = event
    BY <1>7, <1>1 DEF Fetch, Memory
  <2>3. \A e \in Window(w) : event[e].created >= w - Overlap
    BY DEF Window
  <2> HIDE DEF w
  <2>4. m \in Memory /\ m.watermark = w /\ m.batch = Window(w)
    BY <2>0, <2>1 DEF Memory
  <2> HIDE DEF m
  <2> QED BY <1>2, <2>2, <2>3, <2>4
<1>8. ASSUME NEW r \in Relays, Publish(r) PROVE BatchInWindow'
  <2> DEFINE m == [pc |-> "SENT", watermark |-> NextWatermark(r), batch |-> {},
                   published |-> Remembered(r), lastSeq |-> LastSeqs(r), heldSince |-> HeldSince(r)]
  <2>1. m \in Memory /\ m.pc = "SENT"
    BY <1>8, PublishedMemory DEF Publish
  <2>2. relay' = [relay EXCEPT ![r] = m] /\ event' = event
    BY <1>8 DEF Publish
  <2> HIDE DEF m
  <2> QED BY <1>2, <2>1, <2>2
<1>9. ASSUME NEW r \in Relays, PublishNothing(r) PROVE BatchInWindow'
  <2> DEFINE m == [relay[r] EXCEPT !.pc = "IDLE", !.batch = {}, !.heldSince = HeldSince(r)]
  <2>0. relay[r] \in Memory /\ HeldSince(r) \in [Scopes -> 0..MaxTime \cup {None}]
    BY <1>1, PlanOfPass
  <2>1. m \in Memory /\ m.pc = "IDLE"
    BY <2>0 DEF Memory
  <2>2. relay' = [relay EXCEPT ![r] = m] /\ event' = event
    BY <1>9, <1>1 DEF PublishNothing, Memory
  <2> HIDE DEF m
  <2> QED BY <1>2, <2>1, <2>2
<1>10. ASSUME NEW r \in Relays, Restart(r) \/ FindOut(r) PROVE BatchInWindow'
  <2>1. relay' = [relay EXCEPT ![r] = Fresh] /\ event' = event /\ Fresh.pc = "WAITING"
    BY <1>10 DEF Restart, FindOut, Fresh
  <2> QED BY <1>2, <2>1, FreshMemory
<1>11. ASSUME NEW r \in Relays, LoseConnection(r) PROVE BatchInWindow'
  BY <1>3, <1>11 DEF LoseConnection
<1>12. CASE UNCHANGED vars
  BY <1>3, <1>12 DEF vars
<1> QED
  BY <1>4, <1>5, <1>6, <1>7, <1>8, <1>9, <1>10, <1>11, <1>12 DEF Next, RunOnce

LEMMA SentPerLifeStep ==
  ASSUME TypeOK, TimesKept, MemoryKept, ReceivedCommitted, BatchInWindow, SentPerLife, [Next]_vars
  PROVE  SentPerLife'
<1> USE RelayAssumption
<1>1. TypeOK' /\ relay \in [Relays -> Memory] /\ copies \in [Ids -> Nat] /\ "NONE" \notin Relays
  BY KeptStep DEF TypeOK, Memory, RelayAssumption
<1>2. copies = Received({}) /\ \A r \in Relays : relay[r].watermark \in Int
  BY <1>1 DEF Received, Memory, None
<1>3. restarts \in Nat /\ restarts' \in Nat /\ Lives \in Nat /\ Lives' \in Nat
  <2>1. restarts \in Nat /\ restarts' \in Nat
    BY <1>1 DEF TypeOK
  <2>2. Lives \in Nat
    <3>1. CASE lock = "NONE"
      BY <2>1, <3>1 DEF Lives
    <3>2. CASE lock # "NONE"
      BY <2>1, <3>2 DEF Lives
    <3> QED BY <3>1, <3>2
  <2>3. Lives' \in Nat
    <3>1. \A n \in Nat : \A l : n + (IF l = "NONE" THEN 0 ELSE 1) \in Nat
      OBVIOUS
    <3>2. Lives' = restarts' + IF lock' = "NONE" THEN 0 ELSE 1
      BY DEF Lives
    <3> QED BY <2>1, <3>1, <3>2
  <2> QED BY <2>1, <2>2, <2>3
<1>4. \A e \in Committed : event[e].created \in Int
  BY DEF TimesKept
<1>5. ASSUME relay' = relay, copies' = copies, Lives' = Lives,
             Committed \subseteq Committed', \A e \in Committed : event'[e] = event[e]
      PROVE  SentPerLife'
  <2>1. ASSUME NEW e \in Ids
        PROVE  IsFiniteSet(Senders(e)') /\ copies'[e] + Cardinality(Senders(e)') <= Lives'
    <3>1. Senders(e)' \subseteq Senders(e)
      BY <1>5 DEF Senders, MaySend
    <3>2. IsFiniteSet(Senders(e)) /\ copies[e] + Cardinality(Senders(e)) <= Lives
      BY DEF SentPerLife
    <3>3. /\ IsFiniteSet(Senders(e)') /\ Cardinality(Senders(e)') \in Nat
          /\ Cardinality(Senders(e)) \in Nat
          /\ Cardinality(Senders(e)') <= Cardinality(Senders(e))
      BY <3>1, <3>2, FS_Subset, FS_CardinalityType
    <3> QED BY <1>1, <1>3, <1>5, <3>2, <3>3
  <2> QED BY <2>1 DEF SentPerLife
<1>6. CASE Tick \/ UNCHANGED vars
  <2>1. UNCHANGED <<event, copies, lock, relay, restarts>>
    BY <1>6 DEF Tick, vars
  <2>2. Committed' = Committed /\ Lives' = Lives
    BY <2>1 DEF Committed, NoEvent, Lives
  <2> QED BY <1>5, <2>1, <2>2
<1>7. ASSUME NEW e \in Ids, NEW s \in Scopes \cup {"NONE"}, NEW t \in 0..now, Commit(e, s, t)
      PROVE  SentPerLife'
  <2>1. Committed' = Committed \cup {e} /\ e \notin Committed
    BY <1>1, <1>7 DEF Commit, Committed, NoEvent, None, TypeOK
  <2>2. \A f \in Committed : event'[f] = event[f]
    BY <1>7, <2>1 DEF Commit, TypeOK, Committed
  <2>3. UNCHANGED <<copies, relay, lock, restarts>> /\ Lives' = Lives
    BY <1>7 DEF Commit, Lives
  <2> QED BY <1>5, <2>1, <2>2, <2>3
<1>8. ASSUME NEW r \in Relays, TryLock(r) PROVE SentPerLife'
  <2>1. /\ \A q \in Relays : q # r => relay'[q] = relay[q]
        /\ relay[r].pc = "WAITING" /\ copies' = copies /\ event' = event
    BY <1>1, <1>8 DEF TryLock
  <2>2. Lives' = Lives + 1
    BY <1>1, <1>3, <1>8 DEF TryLock, Lives
  <2>3. Committed' = Committed
    BY <2>1 DEF Committed, NoEvent
  <2>4. ASSUME NEW e \in Ids
        PROVE  IsFiniteSet(Senders(e)') /\ copies'[e] + Cardinality(Senders(e)') <= Lives'
    <3>1. Senders(e)' \subseteq Senders(e) \cup {r} /\ r \notin Senders(e)
      BY <2>1, <2>3 DEF Senders, MaySend
    <3>2. IsFiniteSet(Senders(e)) /\ copies[e] + Cardinality(Senders(e)) <= Lives
      BY DEF SentPerLife
    <3>3. /\ IsFiniteSet(Senders(e) \cup {r})
          /\ Cardinality(Senders(e) \cup {r}) = Cardinality(Senders(e)) + 1
      BY <3>1, <3>2, FS_AddElement
    <3>4. /\ IsFiniteSet(Senders(e)') /\ Cardinality(Senders(e)') \in Nat
          /\ Cardinality(Senders(e)) \in Nat
          /\ Cardinality(Senders(e)') <= Cardinality(Senders(e)) + 1
      BY <3>1, <3>2, <3>3, FS_Subset, FS_CardinalityType
    <3> QED BY <1>1, <1>3, <2>1, <2>2, <3>2, <3>4
  <2> QED BY <2>4 DEF SentPerLife
<1>9. ASSUME NEW r \in Relays, Fetch(r) \/ PublishNothing(r) \/ Persist(r) PROVE SentPerLife'
  <2>1. /\ \A q \in Relays : q # r => relay'[q] = relay[q]
        /\ relay'[r].published = relay[r].published
        /\ relay[r].pc # "WAITING"
        /\ relay'[r].watermark \in Int /\ relay[r].watermark <= relay'[r].watermark
    <3>1. CASE Fetch(r)
      <4>1. relay'[r].watermark = IF relay[r].watermark = None THEN stored ELSE relay[r].watermark
        BY <1>1, <3>1 DEF Fetch, Memory
      <4>2. stored \in Nat /\ relay[r].watermark \in Int /\ None < 0
        BY <1>2 DEF TypeOK, None
      <4> QED BY <1>1, <3>1, <4>1, <4>2 DEF Fetch, Memory
    <3>2. CASE PublishNothing(r)
      BY <1>1, <1>2, <3>2 DEF PublishNothing, Memory
    <3>3. CASE Persist(r)
      BY <1>1, <1>2, <3>3 DEF Persist, Memory
    <3> QED BY <1>9, <3>1, <3>2, <3>3
  <2>2. event' = event /\ copies' = Received({}) /\ Lives' = Lives
    BY <1>2, <1>9 DEF Fetch, PublishNothing, Persist, Lives
  <2>3. Committed' = Committed
    BY <2>2 DEF Committed, NoEvent
  <2>4. ASSUME NEW e \in Ids, MaySend(r, e)' PROVE MaySend(r, e)
    BY <1>2, <1>4, <2>1, <2>2, <2>3, <2>4 DEF MaySend, RelayAssumption
  <2> QED BY <1>1, <1>3, <2>1, <2>2, <2>4, SendersShrink
<1>10. ASSUME NEW r \in Relays, Publish(r) PROVE SentPerLife'
  <2> DEFINE n == NextWatermark(r)
  <2>1. /\ relay[r].pc = "FETCHED" /\ Publication(r) # {}
        /\ event' = event /\ copies' = Received(Publication(r)) /\ Lives' = Lives
    BY <1>10 DEF Publish, Lives
  <2>2. /\ \A q \in Relays : q # r => relay'[q] = relay[q]
        /\ relay'[r].pc = "SENT" /\ relay'[r].watermark = n /\ relay'[r].published = Remembered(r)
    BY <1>1, <1>10 DEF Publish
  <2>3. n \in Int /\ relay[r].watermark <= n
    BY <1>1, <2>1, WatermarkOfPass
  <2>4. Publication(r) \in SUBSET Ids /\ Publication(r) \subseteq Committed
    BY PlanOfPass DEF MemoryKept, Committed
  <2>5. Committed' = Committed
    BY <2>1 DEF Committed, NoEvent
  <2>6. ASSUME NEW e \in relay[r].published \cup Publication(r), e \in Committed
        PROVE  ~MaySend(r, e)'
    <3>1. e \notin Remembered(r) => event[e].created < n - 2 * Overlap
      BY <1>4, <2>3, <2>6 DEF Remembered, RelayAssumption
    <3>2. e \notin Remembered(r) => event[e].created < n - Overlap
      BY <1>4, <2>3, <2>6, <3>1 DEF RelayAssumption
    <3>3. e \notin Remembered(r) => ~ (event[e].created >= n - Overlap)
      BY <1>4, <2>3, <2>6, <3>2 DEF RelayAssumption
    <3> QED BY <2>1, <2>2, <2>5, <2>6, <3>3 DEF MaySend
  <2>7. ASSUME NEW e \in Ids, MaySend(r, e)' PROVE MaySend(r, e)
    <3>1. e \in relay[r].published => e \in Committed
      BY DEF MemoryKept, ReceivedCommitted
    <3>2. e \notin relay[r].published
      BY <2>6, <2>7, <3>1
    <3>3. e \in Committed => event[e].created >= relay[r].watermark - Overlap
      BY <1>2, <1>4, <2>1, <2>2, <2>3, <2>5, <2>7 DEF MaySend, RelayAssumption
    <3> QED BY <2>1, <3>2, <3>3 DEF MaySend
  <2>8. \A e \in Publication(r) : MaySend(r, e) /\ ~MaySend(r, e)'
    BY <2>1, <2>4, <2>6, PublishesWhatItMay
  <2> QED BY <1>1, <1>3, <2>1, <2>2, <2>4, <2>7, <2>8, SendersShrink
<1>11. ASSUME NEW r \in Relays, Restart(r) PROVE SentPerLife'
  <2>1. PICK E \in IF relay[r].pc = "FETCHED" THEN Prefixes(r) ELSE {{}} : copies' = Received(E)
    BY <1>11 DEF Restart
  <2>2. /\ E \in SUBSET Ids
        /\ \A e \in E : MaySend(r, e)
    <3>1. CASE relay[r].pc = "FETCHED"
      <4>1. E \subseteq Publication(r) /\ Publication(r) \subseteq Ids
        BY <1>1, <2>1, <3>1, PlanOfPass DEF Prefixes, Memory
      <4> QED BY <3>1, <4>1, PublishesWhatItMay
    <3>2. CASE relay[r].pc # "FETCHED"
      BY <2>1, <3>2
    <3> QED BY <3>1, <3>2
  <2>3. /\ \A q \in Relays : q # r => relay'[q] = relay[q]
        /\ relay'[r].pc = "WAITING" /\ event' = event
    BY <1>1, <1>11 DEF Restart, Fresh
  <2>4. Lives <= Lives'
    BY <1>1, <1>3, <1>11 DEF Restart, Lives
  <2>5. \A e \in Ids : ~MaySend(r, e)'
    BY <2>3 DEF MaySend
  <2> QED BY <1>1, <2>1, <2>2, <2>3, <2>4, <2>5, SendersShrink
<1>12. ASSUME NEW r \in Relays, LoseConnection(r) PROVE SentPerLife'
  <2>1. UNCHANGED <<event, copies, relay>>
    BY <1>12 DEF LoseConnection
  <2>2. Committed' = Committed
    BY <2>1 DEF Committed, NoEvent
  <2>3. Lives' = Lives
    BY <1>1, <1>3, <1>12 DEF LoseConnection, Lives
  <2> QED BY <1>5, <2>1, <2>2, <2>3
<1>13. ASSUME NEW r \in Relays, FindOut(r) PROVE SentPerLife'
  <2>1. /\ \A q \in Relays : q # r => relay'[q] = relay[q]
        /\ relay'[r].pc = "WAITING" /\ event' = event /\ copies' = Received({}) /\ Lives' = Lives
    BY <1>1, <1>2, <1>13 DEF FindOut, Fresh, Lives
  <2>2. \A e \in Ids : ~MaySend(r, e)'
    BY <2>1 DEF MaySend
  <2> QED BY <1>1, <1>3, <2>1, <2>2, SendersShrink
<1> QED
  BY <1>6, <1>7, <1>8, <1>9, <1>10, <1>11, <1>12, <1>13 DEF Next, RunOnce

(* Duplicates come from restarts only: an event is received at most once   *)
(* for each life of a relay, and a life ends only by a restart or a lost   *)
(* connection, however long transactions stay open.                        *)
THEOREM DuplicatesOnlyFromRestarts == Spec => []DuplicatesFromRestarts
<1> DEFINE I == /\ TypeOK /\ TimesKept /\ MemoryKept /\ ReceivedCommitted
                /\ BatchInWindow /\ SentPerLife
<1>1. Init => I
  <2> SUFFICES ASSUME Init PROVE I
    OBVIOUS
  <2>1. TypeOK /\ TimesKept /\ MemoryKept
    BY RelayInit DEF WindowInv
  <2>2. \A r \in Relays : relay[r].pc = "WAITING"
    BY DEF Init, Fresh
  <2>3. \A e \in Ids : Senders(e) = {} /\ copies[e] = 0
    BY <2>2 DEF Senders, MaySend, Init
  <2>4. Lives = 0 /\ IsFiniteSet({}) /\ Cardinality({}) = 0
    BY FS_EmptySet DEF Lives, Init
  <2>5. SentPerLife
    BY <2>3, <2>4 DEF SentPerLife
  <2> QED BY <2>1, <2>2, <2>3, <2>5 DEF BatchInWindow, ReceivedCommitted
<1>2. I /\ [Next]_vars => I'
  BY KeptStep, ReceivedStep, BatchInWindowStep, SentPerLifeStep
<1>3. I => DuplicatesFromRestarts
  <2> SUFFICES ASSUME I, NEW e \in Ids PROVE copies[e] <= 1 + restarts
    BY DEF DuplicatesFromRestarts
  <2>1. Cardinality(Senders(e)) \in Nat /\ copies[e] + Cardinality(Senders(e)) <= Lives
    BY FS_CardinalityType DEF SentPerLife
  <2> QED BY <2>1 DEF Lives, TypeOK
<1> QED BY <1>1, <1>2, <1>3, PTL DEF Spec

(***************************************************************************)
(* Order.                                                                  *)
(***************************************************************************)
(* What a relay is about to read fits into one batch.  The numbers of a    *)
(* scope follow the commits and a batch the start times, so the limit of a *)
(* batch may cut an earlier number off a later one; a relay that knows no  *)
(* number of the scope yet would then begin with the later one.            *)
BacklogFits ==
  \A r \in Relays : relay[r].pc = "IDLE" /\ lock = r =>
    LET watermark == IF relay[r].watermark = None THEN stored ELSE relay[r].watermark
    IN Cardinality({e \in Committed : event[e].created >= watermark - Overlap}) <= BatchSize

(* Numbers are given out without gaps, under the lock of the scope's row.  *)
NumbersFollow ==
  \A e \in Committed :
    IF event[e].scope = "NONE" THEN event[e].seq = 0
    ELSE event[e].seq <= Cardinality(Of(event[e].scope))

(* What a batch lacks of its scopes is received already or comes later.    *)
BatchWhole ==
  \A r \in Relays, e, f \in Committed :
    /\ relay[r].pc = "FETCHED" /\ e \in relay[r].batch /\ f \notin relay[r].batch
    /\ event[f].scope = event[e].scope /\ copies[f] = 0
    => event[f].seq >= event[e].seq

OrderInv == NumbersFollow /\ ReceivedCommitted /\ BatchWhole /\ NoOvertaking

(* A backlog that fits is read as a whole.                                 *)
LEMMA WindowIsWhole ==
  ASSUME TypeOK, NEW w,
         Cardinality({e \in Committed : event[e].created >= w - Overlap}) <= BatchSize
  PROVE  Window(w) = {e \in Committed : event[e].created >= w - Overlap}
<1> DEFINE rows == {e \in Committed : event[e].created >= w - Overlap}
<1>1. IsFiniteSet(rows)
  BY FS_Subset, RelayAssumption DEF RelayAssumption, Committed
<1>2. ASSUME NEW e \in rows PROVE Cardinality({f \in rows : Before(f, e)}) <= BatchSize
  <2>1. {f \in rows : Before(f, e)} \subseteq rows
    OBVIOUS
  <2> HIDE DEF rows
  <2>2. /\ Cardinality({f \in rows : Before(f, e)}) <= Cardinality(rows)
        /\ Cardinality({f \in rows : Before(f, e)}) \in Nat /\ Cardinality(rows) \in Nat
    BY <1>1, <2>1, FS_Subset, FS_CardinalityType
  <2>3. Cardinality(rows) <= BatchSize
    BY DEF rows
  <2> QED BY <2>2, <2>3, RelayAssumption DEF RelayAssumption
<1>3. Window(w) = {e \in rows : Cardinality({f \in rows : Before(f, e)}) <= BatchSize}
  BY DEF Window
<1> QED BY <1>2, <1>3

(* Of a scope a pass publishes no number before a smaller one that the     *)
(* broker lacks: that one is in the batch, and the plan takes it first.    *)
LEMMA PassInOrder ==
  ASSUME TypeOK, MemoryKept, NumbersFollow, BatchWhole, NEW r \in Relays,
         relay[r].pc = "FETCHED", NEW e \in Publication(r), NEW f \in Committed,
         event[f].scope = event[e].scope, event[f].seq < event[e].seq, copies[f] = 0
  PROVE  f \in Publication(r)
<1>1. e \in relay[r].batch /\ e \in Committed
  BY PlanOfPass DEF MemoryKept
<1>2. event[e].seq \in Nat /\ event[f].seq \in Nat /\ event[e].scope \in Scopes \cup {"NONE"}
  BY <1>1 DEF TypeOK, Committed
<1>3. f \in relay[r].batch
  BY <1>1, <1>2 DEF BatchWhole
<1>4. f \notin relay[r].published
  BY DEF MemoryKept
<1>5. event[e].scope \in Scopes
  BY <1>1, <1>2 DEF NumbersFollow
<1>6. PICK s \in Scopes : e \in ScopePlan(r, s).publish
  BY <1>5, RelayAssumption DEF Publication, Unscoped, RelayAssumption
<1>7. event[e].scope = s
  BY <1>6, PlanOfScope
<1>8. f \in ScopePlan(r, s).publish
  BY <1>3, <1>4, <1>6, <1>7, PlanInOrder
<1> QED BY <1>8 DEF Publication

(* A pass, or the part of one that reached the broker before its relay     *)
(* stopped, keeps the order.                                               *)
LEMMA SendInOrder ==
  ASSUME TypeOK, MemoryKept, OrderInv, NEW r \in Relays, relay[r].pc = "FETCHED",
         NEW E \in Prefixes(r), copies' = Received(E), event' = event
  PROVE  NoOvertaking'
<1>1. Committed' = Committed /\ Committed \subseteq Ids
  BY DEF Committed, NoEvent
<1>2. \A e \in Ids : /\ copies[e] \in Nat /\ copies'[e] >= copies[e] /\ copies'[e] \in Nat
                     /\ copies'[e] > 0 <=> (copies[e] > 0 \/ e \in E)
  BY DEF TypeOK, Received
<1> SUFFICES ASSUME NEW e \in Committed, NEW f \in Committed,
                    event[e].scope = event[f].scope, event[f].seq < event[e].seq,
                    copies'[e] > 0, copies[f] = 0
             PROVE  f \in E
  BY <1>1, <1>2 DEF NoOvertaking
<1>3. ~ (copies[e] > 0)
  BY DEF OrderInv, NoOvertaking
<1>4. e \in E /\ E \subseteq Publication(r)
  BY <1>1, <1>2, <1>3 DEF Prefixes
<1>5. f \in Publication(r)
  BY <1>4, PassInOrder DEF OrderInv
<1> QED BY <1>4, <1>5 DEF Prefixes

LEMMA OrderStep ==
  ASSUME TypeOK, WindowInv, OrderInv, BacklogFits, [Next]_vars
  PROVE  OrderInv'
<1> USE RelayAssumption
<1>1. /\ TypeOK' /\ ReceivedCommitted' /\ TimesKept /\ MemoryKept
      /\ relay \in [Relays -> Memory] /\ copies \in [Ids -> Nat] /\ Committed \subseteq Ids
  BY KeptStep, ReceivedStep DEF TypeOK, Memory, WindowInv, OrderInv, Committed
<1>2. event' = event => Committed' = Committed /\ NumbersFollow'
  BY DEF OrderInv, NumbersFollow, Committed, NoEvent, Of
<1>3. event' = event /\ copies' = copies => NoOvertaking'
  BY <1>2 DEF OrderInv, NoOvertaking
<1>4. ASSUME NEW r \in Relays, NEW m \in Memory, relay' = [relay EXCEPT ![r] = m], event' = event,
             \A e \in Ids : copies'[e] >= copies[e], m.pc # "FETCHED"
      PROVE  BatchWhole'
  <2>1. \A e \in Ids : copies'[e] = 0 => copies[e] = 0
    BY <1>1, <1>4 DEF TypeOK
  <2> QED BY <1>1, <1>2, <1>4, <2>1 DEF OrderInv, BatchWhole
<1>5. CASE Tick \/ UNCHANGED vars
  BY <1>1, <1>2, <1>3, <1>5 DEF Tick, vars, OrderInv, BatchWhole
<1>6. ASSUME NEW e \in Ids, NEW s \in Scopes \cup {"NONE"}, NEW t \in 0..now, Commit(e, s, t)
      PROVE  OrderInv'
  <2> DEFINE n == IF s = "NONE" THEN 0 ELSE Cardinality(Of(s)) + 1
  <2>1. Committed' = Committed \cup {e} /\ e \notin Committed
    BY <1>1, <1>6 DEF Commit, Committed, NoEvent, None, TypeOK
  <2>2. /\ event'[e].scope = s /\ event'[e].seq = n
        /\ \A f \in Committed : event'[f] = event[f]
    BY <1>6, <2>1 DEF Commit, TypeOK, Committed
  <2>3. copies' = copies /\ relay' = relay /\ copies[e] = 0
    <3>1. copies' = copies /\ relay' = relay
      BY <1>6 DEF Commit
    <3>2. ~ (copies[e] > 0) /\ copies[e] \in Nat
      BY <1>1, <2>1 DEF OrderInv, ReceivedCommitted
    <3> QED BY <3>1, <3>2
  <2>4. ASSUME NEW q \in Scopes \cup {"NONE"}
        PROVE  /\ IsFiniteSet(Of(q)) /\ Cardinality(Of(q)) \in Nat
               /\ Of(q)' = IF q = s THEN Of(q) \cup {e} ELSE Of(q)
               /\ Cardinality(Of(q)') = Cardinality(Of(q)) + IF q = s THEN 1 ELSE 0
    <3>1. IsFiniteSet(Of(q)) /\ e \notin Of(q)
      BY <2>1, FS_Subset DEF Of, Committed, RelayAssumption
    <3>2. Of(q)' = IF q = s THEN Of(q) \cup {e} ELSE Of(q)
      BY <2>1, <2>2 DEF Of
    <3>3. Cardinality(Of(q)) \in Nat /\ Cardinality(Of(q) \cup {e}) = Cardinality(Of(q)) + 1
      BY <3>1, FS_CardinalityType, FS_AddElement
    <3> QED BY <3>1, <3>2, <3>3
  <2>5. \A f \in Committed : event[f].scope \in Scopes \cup {"NONE"} /\ event[f].seq \in Nat
    BY <1>1 DEF TypeOK
  <2>6. NumbersFollow'
    <3> SUFFICES ASSUME NEW f \in Committed', NEW q, q = event'[f].scope
                 PROVE  IF q = "NONE" THEN event'[f].seq = 0
                        ELSE event'[f].seq <= Cardinality(Of(q)')
      BY DEF NumbersFollow, Of
    <3>1. CASE f = e
      BY <2>2, <2>4, <3>1
    <3>2. CASE f \in Committed
      <4>1. q \in Scopes \cup {"NONE"} /\ q = event[f].scope /\ event'[f].seq = event[f].seq
        BY <2>2, <2>5, <3>2
      <4>2. IF q = "NONE" THEN event[f].seq = 0 ELSE event[f].seq <= Cardinality(Of(q))
        BY <3>2, <4>1 DEF OrderInv, NumbersFollow
      <4>3. Cardinality(Of(q)) <= Cardinality(Of(q)') /\ Cardinality(Of(q)') \in Nat
        BY <2>4, <4>1
      <4> QED BY <2>4, <2>5, <3>2, <4>1, <4>2, <4>3
    <3> QED BY <2>1, <3>1, <3>2
  <2>7. \A f \in Committed : event[f].scope = s => n >= event[f].seq
    BY <2>4, <2>5 DEF OrderInv, NumbersFollow
  <2>8. n \in Nat
    BY <2>4
  <2> HIDE DEF n
  <2>9. NoOvertaking'
    <3> SUFFICES ASSUME NEW a \in Committed', NEW f \in Committed',
                        event'[a].scope = event'[f].scope, event'[f].seq < event'[a].seq,
                        copies[a] > 0
                 PROVE  copies[f] > 0
      BY <2>3 DEF NoOvertaking
    <3>1. a \in Committed
      BY <2>1, <2>3
    <3>2. f # e
      BY <2>2, <2>5, <2>7, <2>8, <3>1
    <3> QED BY <2>1, <2>2, <3>1, <3>2 DEF OrderInv, NoOvertaking
  <2>10. BatchWhole'
    <3> SUFFICES ASSUME NEW r \in Relays, NEW a \in Committed', NEW f \in Committed',
                        relay[r].pc = "FETCHED", a \in relay[r].batch, f \notin relay[r].batch,
                        event'[f].scope = event'[a].scope, copies[f] = 0
                 PROVE  event'[f].seq >= event'[a].seq
      BY <2>3 DEF BatchWhole
    <3>1. a \in Committed
      BY <1>1 DEF MemoryKept
    <3>2. CASE f = e
      BY <2>2, <2>7, <3>1, <3>2
    <3>3. CASE f \in Committed
      BY <2>2, <3>1, <3>3 DEF OrderInv, BatchWhole
    <3> QED BY <2>1, <3>2, <3>3
  <2> QED BY <1>1, <2>6, <2>9, <2>10 DEF OrderInv
<1>7. ASSUME NEW r \in Relays, TryLock(r) \/ Persist(r) PROVE OrderInv'
  <2> DEFINE m == [relay[r] EXCEPT !.pc = "IDLE"]
  <2>1. m \in Memory /\ m.pc # "FETCHED"
    BY <1>1 DEF Memory
  <2>2. relay' = [relay EXCEPT ![r] = m] /\ event' = event /\ copies' = copies
    BY <1>1, <1>7 DEF TryLock, Persist
  <2> HIDE DEF m
  <2>3. \A e \in Ids : copies'[e] >= copies[e]
    BY <1>1, <2>2
  <2> QED BY <1>1, <1>2, <1>3, <1>4, <2>1, <2>2, <2>3 DEF OrderInv
<1>8. ASSUME NEW r \in Relays, Fetch(r) PROVE OrderInv'
  <2> DEFINE w == IF relay[r].watermark = None THEN stored ELSE relay[r].watermark
             m == [relay[r] EXCEPT !.pc = "FETCHED", !.watermark = w, !.batch = Window(w)]
  <2>1. relay' = [relay EXCEPT ![r] = m] /\ event' = event /\ copies' = copies
    BY <1>8, <1>1 DEF Fetch, Memory
  <2>2. relay[r] \in Memory
    BY <1>1
  <2>3. m.batch = Window(w)
    BY <2>2 DEF Memory
  <2>4. relay[r].pc = "IDLE" /\ lock = r
    BY <1>8 DEF Fetch
  <2>5. Cardinality({e \in Committed : event[e].created >= w - Overlap}) <= BatchSize
    BY <2>4 DEF BacklogFits
  <2>6. \A e \in Committed : copies[e] = 0 => event[e].created >= w - Overlap
    BY DEF WindowInv, NothingLeftBehind, NothingSkipped
  <2> HIDE DEF w
  <2>7. \A e \in Committed : copies[e] = 0 => e \in m.batch
    BY <2>3, <2>5, <2>6, WindowIsWhole
  <2> HIDE DEF m
  <2>8. BatchWhole'
    BY <1>1, <1>2, <2>1, <2>7 DEF OrderInv, BatchWhole
  <2> QED BY <1>1, <1>2, <1>3, <2>1, <2>8 DEF OrderInv
<1>9. ASSUME NEW r \in Relays, Publish(r) PROVE OrderInv'
  <2> DEFINE m == [pc |-> "SENT", watermark |-> NextWatermark(r), batch |-> {},
                   published |-> Remembered(r), lastSeq |-> LastSeqs(r), heldSince |-> HeldSince(r)]
  <2>1. relay[r].pc = "FETCHED" /\ Publication(r) # {}
    BY <1>9 DEF Publish
  <2>2. m \in Memory /\ m.pc # "FETCHED"
    BY <1>1, <2>1, PublishedMemory
  <2>3. relay' = [relay EXCEPT ![r] = m] /\ event' = event /\ copies' = Received(Publication(r))
    BY <1>9 DEF Publish
  <2> HIDE DEF m
  <2>4. \A e \in Ids : copies'[e] >= copies[e]
    BY <1>1, <2>3 DEF Received
  <2>5. Publication(r) \in Prefixes(r)
    BY DEF Prefixes
  <2>6. NoOvertaking'
    BY <1>1, <2>1, <2>3, <2>5, SendInOrder
  <2> QED BY <1>1, <1>2, <1>4, <2>2, <2>3, <2>4, <2>6 DEF OrderInv
<1>10. ASSUME NEW r \in Relays, PublishNothing(r) PROVE OrderInv'
  <2> DEFINE m == [relay[r] EXCEPT !.pc = "IDLE", !.batch = {}, !.heldSince = HeldSince(r)]
  <2>0. relay[r] \in Memory /\ HeldSince(r) \in [Scopes -> 0..MaxTime \cup {None}]
    BY <1>1, PlanOfPass
  <2>1. m \in Memory /\ m.pc # "FETCHED"
    BY <2>0 DEF Memory
  <2>2. relay' = [relay EXCEPT ![r] = m] /\ event' = event /\ copies' = copies
    BY <1>10, <1>1 DEF PublishNothing, Memory
  <2> HIDE DEF m
  <2>3. \A e \in Ids : copies'[e] >= copies[e]
    BY <1>1, <2>2
  <2> QED BY <1>1, <1>2, <1>3, <1>4, <2>1, <2>2, <2>3 DEF OrderInv
<1>11. ASSUME NEW r \in Relays, Restart(r) PROVE OrderInv'
  <2>1. PICK E \in IF relay[r].pc = "FETCHED" THEN Prefixes(r) ELSE {{}} : copies' = Received(E)
    BY <1>11 DEF Restart
  <2>2. relay' = [relay EXCEPT ![r] = Fresh] /\ event' = event /\ Fresh.pc # "FETCHED"
    BY <1>11 DEF Restart, Fresh
  <2>3. \A e \in Ids : copies'[e] >= copies[e]
    BY <1>1, <2>1 DEF Received
  <2>4. BatchWhole'
    BY <1>4, <2>2, <2>3, FreshMemory
  <2>5. NoOvertaking'
    <3>1. CASE relay[r].pc = "FETCHED"
      BY <1>1, <2>1, <2>2, <3>1, SendInOrder
    <3>2. CASE relay[r].pc # "FETCHED"
      <4>1. copies' = copies
        BY <1>1, <2>1, <3>2 DEF Received
      <4> QED BY <1>3, <2>2, <4>1
    <3> QED BY <3>1, <3>2
  <2> QED BY <1>1, <1>2, <2>2, <2>4, <2>5 DEF OrderInv
<1>12. ASSUME NEW r \in Relays, LoseConnection(r) PROVE OrderInv'
  BY <1>1, <1>2, <1>3, <1>12 DEF LoseConnection, OrderInv, BatchWhole
<1>13. ASSUME NEW r \in Relays, FindOut(r) PROVE OrderInv'
  <2>1. relay' = [relay EXCEPT ![r] = Fresh] /\ event' = event /\ copies' = copies
    BY <1>13 DEF FindOut
  <2>2. Fresh.pc # "FETCHED" /\ \A e \in Ids : copies'[e] >= copies[e]
    BY <1>1, <2>1 DEF Fresh
  <2> QED BY <1>1, <1>2, <1>3, <1>4, <2>1, <2>2, FreshMemory DEF OrderInv
<1> QED
  BY <1>5, <1>6, <1>7, <1>8, <1>9, <1>10, <1>11, <1>12, <1>13 DEF Next, RunOnce

(* ADR-0005 3: events of one scope reach the broker in the order of their  *)
(* numbers, with any number of relays that stop or lose their lock at any  *)
(* point of a pass, as long as what a relay is to read fits into a batch.  *)
THEOREM NothingIsOvertaken ==
  ASSUME MaxLag <= Overlap
  PROVE  Spec /\ []BacklogFits => []NoOvertaking
<1>1. Init => OrderInv
  <2> SUFFICES ASSUME Init PROVE OrderInv
    OBVIOUS
  <2>1. Committed = {} /\ \A e \in Ids : ~ (copies[e] > 0)
    BY DEF Init, Committed
  <2> QED BY <2>1 DEF OrderInv, NumbersFollow, ReceivedCommitted, BatchWhole, NoOvertaking
<1>2. TypeOK /\ WindowInv /\ OrderInv /\ BacklogFits /\ [Next]_vars => OrderInv'
  BY OrderStep
<1>3. OrderInv => NoOvertaking
  BY DEF OrderInv
<1> QED BY <1>1, <1>2, <1>3, WindowHolds, PTL DEF Spec
=============================================================================

---------------------------- MODULE OutboxRelay ----------------------------
(***************************************************************************)
(* The relay from the outbox table to the broker: the events that          *)
(* transactions commit, the relays that poll them under an advisory lock,  *)
(* and what the broker has received.                                       *)
(*                                                                         *)
(* Instants are ticks.  An event carries the start of its transaction as   *)
(* `created' and becomes visible when the transaction commits, at most     *)
(* MaxLag ticks later; the number of an event inside its scope is taken    *)
(* under the lock of the scope's row, so numbers follow the commits.       *)
(***************************************************************************)
EXTENDS Integers, FiniteSets, FiniteSetsExt

CONSTANTS
  Relays,       \* processes that run a relay
  Scopes,       \* write scopes; an event of no scope has scope "NONE"
  Ids,          \* outbox_event_id: random, so any unused id may come next (bounds the events)
  MaxTime,      \* bound: ticks of a behaviour
  MaxLag,       \* bound: how long a transaction may stay open
  Burst,        \* bound: events started within Overlap + MaxLag ticks
  MaxRestarts,  \* bound: restarts and lost connections of a behaviour
  BatchSize, Overlap, GapTimeout   \* options of the relay

ASSUME RelayAssumption ==
  /\ Ids \subseteq Nat /\ IsFiniteSet(Ids)
  /\ MaxTime \in Nat /\ MaxLag \in Nat /\ MaxRestarts \in Nat /\ Burst \in Nat
  /\ BatchSize \in Nat \ {0} /\ Overlap \in Nat /\ GapTimeout \in Nat \ {0}
  /\ "NONE" \notin Scopes /\ "NONE" \notin Relays

VARIABLES
  now,        \* the clock
  event,      \* committed events by id
  copies,     \* how often the broker received each event
  stored,     \* outbox_relay_state.watermark; 0 is no row
  lock,       \* the relay whose connection holds the advisory lock, or "NONE"
  relay,      \* what each relay has in memory
  restarts

vars == <<now, event, copies, stored, lock, relay, restarts>>

None == -1      \* null or undefined
NoEvent == [scope |-> "NONE", seq |-> 0, created |-> None]
Committed == {e \in Ids : event[e] # NoEvent}
Of(s) == {e \in Committed : event[e].scope = s}
Created(E) == {event[e].created : e \in E}
Larger(a, b) == IF a >= b THEN a ELSE b
Smaller(a, b) == IF a <= b THEN a ELSE b

(* A relay that has just started: newRelayCursor, no watermark loaded.     *)
Fresh == [pc |-> "WAITING", watermark |-> None, batch |-> {}, published |-> {},
          lastSeq |-> [s \in Scopes |-> None], heldSince |-> [s \in Scopes |-> None]]

TypeOK ==
  /\ now \in 0..MaxTime
  /\ event \in [Ids -> [scope: Scopes \cup {"NONE"}, seq: Nat, created: 0..MaxTime \cup {None}]]
  /\ copies \in [Ids -> Nat]
  /\ stored \in 0..MaxTime
  /\ lock \in Relays \cup {"NONE"}
  /\ relay \in [Relays -> [pc: {"WAITING", "IDLE", "FETCHED", "SENT"},
                           watermark: 0..MaxTime \cup {None},
                           batch: SUBSET Ids, published: SUBSET Ids,
                           lastSeq: [Scopes -> Nat \cup {None}],
                           heldSince: [Scopes -> 0..MaxTime \cup {None}]]]
  /\ restarts \in 0..MaxRestarts

Init ==
  /\ now = 0
  /\ event = [e \in Ids |-> NoEvent]
  /\ copies = [e \in Ids |-> 0]
  /\ stored = 0
  /\ lock = "NONE"
  /\ relay = [r \in Relays |-> Fresh]
  /\ restarts = 0

Tick == now < MaxTime /\ now' = now + 1 /\ UNCHANGED <<event, copies, stored, lock, relay, restarts>>

(* A transaction that started at t commits an event of scope s.            *)
Commit(e, s, t) ==
  /\ event[e] = NoEvent
  /\ t >= now - MaxLag
  /\ \A u \in t - Overlap - MaxLag .. t :
       Cardinality({f \in Committed : event[f].created \in u..u + Overlap + MaxLag}) < Burst
  /\ event' = [event EXCEPT ![e] = [scope |-> s, created |-> t,
                                    seq |-> IF s = "NONE" THEN 0 ELSE Cardinality(Of(s)) + 1]]
  /\ UNCHANGED <<now, copies, stored, lock, relay, restarts>>

(* tryLock: one relay polls, the others wait.                              *)
TryLock(r) ==
  /\ relay[r].pc = "WAITING" /\ lock = "NONE"
  /\ lock' = r
  /\ relay' = [relay EXCEPT ![r].pc = "IDLE"]
  /\ UNCHANGED <<now, event, copies, stored, restarts>>

(***************************************************************************)
(* runOnce.                                                                *)
(***************************************************************************)
Before(e, f) == \/ event[e].created < event[f].created
                \/ event[e].created = event[f].created /\ e <= f

(* The oldest BatchSize events from the watermark less the overlap on.     *)
Window(watermark) ==
  LET rows == {e \in Committed : event[e].created >= watermark - Overlap}
  IN {e \in rows : Cardinality({f \in rows : Before(f, e)}) <= BatchSize}

(* Mutant: the window starts at the watermark.                             *)
FetchNoOverlap(r) ==
  /\ relay[r].pc = "IDLE" /\ lock = r
  /\ LET watermark == IF relay[r].watermark = None THEN stored ELSE relay[r].watermark
     IN relay' = [relay EXCEPT ![r].pc = "FETCHED", ![r].watermark = watermark,
                               ![r].batch = Window(watermark + Overlap)]
  /\ UNCHANGED <<now, event, copies, stored, lock, restarts>>

Fetch(r) ==
  /\ relay[r].pc = "IDLE" /\ lock = r
  /\ LET watermark == IF relay[r].watermark = None THEN stored ELSE relay[r].watermark
     IN relay' = [relay EXCEPT ![r].pc = "FETCHED", ![r].watermark = watermark,
                               ![r].batch = Window(watermark)]
  /\ UNCHANGED <<now, event, copies, stored, lock, restarts>>

(* planPublication for one scope.  Rows of E are numbered from `first' on  *)
(* without a hole; what follows a hole waits until the hole timed out.     *)
Run(E, first) ==
  {e \in E : event[e].seq >= first
             /\ \A n \in first..event[e].seq : \E f \in E : event[f].seq = n}

ScopePlan(r, s) ==
  LET E == {e \in relay[r].batch \ relay[r].published : event[e].scope = s}
      seqs(F) == {event[e].seq : e \in F}
      last == relay[r].lastSeq[s]
      first == IF last # None THEN last + 1 ELSE Min(seqs(E))
      late == {e \in E : event[e].seq < first}
      run == Run(E, first)
      rest == E \ (late \cup run)
      since == IF run = {} /\ relay[r].heldSince[s] # None THEN relay[r].heldSince[s] ELSE now
      next == Run(rest, Min(seqs(rest)))
  IN IF E = {} THEN [publish |-> {}, held |-> {}, since |-> relay[r].heldSince[s]]
     ELSE IF rest = {}
     THEN [publish |-> E, held |-> {}, since |-> IF run = {} THEN relay[r].heldSince[s] ELSE None]
     ELSE IF now - since < GapTimeout
     THEN [publish |-> late \cup run, held |-> rest, since |-> since]
     ELSE [publish |-> late \cup next, held |-> rest \ next,
           since |-> IF rest = next THEN None ELSE now]

Unscoped(r) == {e \in relay[r].batch \ relay[r].published : event[e].scope = "NONE"}
Publication(r) == Unscoped(r) \cup UNION {ScopePlan(r, s).publish : s \in Scopes}

(* Mutant: the watermark is the time of the pass.                          *)
NextWatermarkNow(r) == Larger(relay[r].watermark, now)

(* The watermark follows what was published, up to the oldest row of a     *)
(* scope that is held back.                                                *)
NextWatermark(r) ==
  LET heldBack == {e \in relay[r].batch : \E s \in Scopes :
                     event[e].scope = s /\ ScopePlan(r, s).held # {}}
      newest == Max(Created(Publication(r)))
  IN Larger(relay[r].watermark,
            IF heldBack = {} THEN newest ELSE Smaller(newest, Min(Created(heldBack))))

HeldSince(r) == [s \in Scopes |-> ScopePlan(r, s).since]
Received(E) == [e \in Ids |-> copies[e] + IF e \in E THEN 1 ELSE 0]

(* Mutant: what was published is forgotten as soon as the watermark passes.*)
RememberedShort(r) ==
  {e \in relay[r].published \cup Publication(r) : event[e].created >= NextWatermark(r)}

(* markPublished forgets what lies two overlaps behind.                    *)
Remembered(r) ==
  {e \in relay[r].published \cup Publication(r) :
     event[e].created >= NextWatermark(r) - 2 * Overlap}

LastSeqs(r) ==
  [s \in Scopes |->
     LET seqs == {event[e].seq : e \in ScopePlan(r, s).publish}
     IN IF seqs = {} THEN relay[r].lastSeq[s] ELSE Larger(relay[r].lastSeq[s], Max(seqs))]

(* The broker confirms the whole batch and the cursor moves.  A relay that *)
(* lost its connection, and so the lock, still gets this far.              *)
Publish(r) ==
  /\ relay[r].pc = "FETCHED" /\ Publication(r) # {}
  /\ copies' = Received(Publication(r))
  /\ relay' = [relay EXCEPT ![r] =
                 [pc |-> "SENT", watermark |-> NextWatermark(r), batch |-> {},
                  published |-> Remembered(r), lastSeq |-> LastSeqs(r), heldSince |-> HeldSince(r)]]
  /\ UNCHANGED <<now, event, stored, lock, restarts>>

PublishNothing(r) ==
  /\ relay[r].pc = "FETCHED" /\ Publication(r) = {}
  /\ relay' = [relay EXCEPT ![r].pc = "IDLE", ![r].batch = {}, ![r].heldSince = HeldSince(r)]
  /\ UNCHANGED <<now, event, copies, stored, lock, restarts>>

(* Mutant: an idle relay stores a watermark it never loaded.               *)
PersistAlways(r) ==
  /\ relay[r].pc \in {"IDLE", "SENT"} /\ lock = r
  /\ stored' = relay[r].watermark
  /\ relay' = [relay EXCEPT ![r].pc = "IDLE"]
  /\ UNCHANGED <<now, event, copies, lock, restarts>>

Persist(r) ==
  /\ relay[r].pc = "SENT" /\ lock = r
  /\ stored' = relay[r].watermark
  /\ relay' = [relay EXCEPT ![r].pc = "IDLE"]
  /\ UNCHANGED <<now, event, copies, lock, restarts>>

(***************************************************************************)
(* Failures.  An error in a pass ends the relay's process; it starts anew. *)
(***************************************************************************)
(* A part of the batch may have reached the broker: of each scope a prefix.*)
Prefixes(r) ==
  {E \in SUBSET Publication(r) :
     \A e \in E, f \in Publication(r) :
       event[f].scope = event[e].scope /\ event[f].seq < event[e].seq => f \in E}

Restart(r) ==
  /\ restarts < MaxRestarts
  /\ relay[r].pc # "WAITING"
  /\ restarts' = restarts + 1
  /\ relay' = [relay EXCEPT ![r] = Fresh]
  /\ lock' = IF lock = r THEN "NONE" ELSE lock
  /\ \E E \in IF relay[r].pc = "FETCHED" THEN Prefixes(r) ELSE {{}} : copies' = Received(E)
  /\ UNCHANGED <<now, event, stored>>

(* The database drops the connection and frees the lock; the relay finds   *)
(* out at its next statement and ends.                                     *)
LoseConnection(r) ==
  /\ restarts < MaxRestarts
  /\ lock = r
  /\ restarts' = restarts + 1
  /\ lock' = "NONE"
  /\ UNCHANGED <<now, event, copies, stored, relay>>

FindOut(r) ==
  /\ relay[r].pc \in {"IDLE", "SENT"} /\ lock # r
  /\ relay' = [relay EXCEPT ![r] = Fresh]
  /\ UNCHANGED <<now, event, copies, stored, lock, restarts>>

RunOnce(r) == Fetch(r) \/ Publish(r) \/ PublishNothing(r) \/ Persist(r)

Next ==
  \/ Tick
  \/ \E e \in Ids, s \in Scopes \cup {"NONE"}, t \in 0..now : Commit(e, s, t)
  \/ \E r \in Relays : TryLock(r) \/ RunOnce(r) \/ Restart(r) \/ LoseConnection(r) \/ FindOut(r)

Spec == Init /\ [][Next]_vars

(* A relay polls, a waiting one asks for the lock every second, time goes  *)
(* on.                                                                     *)
Fairness ==
  /\ WF_vars(Tick)
  /\ \A r \in Relays : WF_vars(TryLock(r)) /\ WF_vars(RunOnce(r)) /\ WF_vars(FindOut(r))

FairSpec == Spec /\ Fairness

(***************************************************************************)
(* Properties.                                                             *)
(***************************************************************************)
(* outbox-relay.ts: the overlap protects from missing transactions that    *)
(* commit late.  An event the broker has not received is never behind the  *)
(* window a restarted relay reads from.                                    *)
NothingLeftBehind ==
  \A e \in Committed : copies[e] = 0 => event[e].created >= stored - Overlap

(* The same in the form that is inductive: a relay never passes an event   *)
(* the broker has not received, neither with the watermark it has in       *)
(* memory nor with the batch it is about to publish; no instant lies in    *)
(* the future, and a relay remembers only what the broker has received.    *)
TimesKept ==
  /\ stored <= now
  /\ \A e \in Committed : event[e].created \in 0..now
  /\ \A r \in Relays : relay[r].watermark <= now

MemoryKept ==
  \A r \in Relays :
    /\ relay[r].batch \subseteq Committed
    /\ \A e \in relay[r].published : copies[e] > 0
    /\ relay[r].pc \in {"FETCHED", "SENT"} => relay[r].watermark # None

NothingSkipped ==
  \A r \in Relays, e \in Committed : copies[e] = 0 =>
    /\ event[e].created >= relay[r].watermark - Overlap
    /\ (relay[r].pc = "FETCHED" /\ e \notin relay[r].batch)
         => \A f \in relay[r].batch : event[e].created >= event[f].created - Overlap

WindowInv == TimesKept /\ MemoryKept /\ NothingLeftBehind /\ NothingSkipped

(* ADR-0005 3: events of one scope reach the broker in the order of their  *)
(* numbers: none is received before all the earlier ones were.             *)
NoOvertaking ==
  \A e, f \in Committed :
    (event[e].scope = event[f].scope /\ event[f].seq < event[e].seq /\ copies[e] > 0)
      => copies[f] > 0

(* Duplicates come from restarts only: one life of a relay publishes an    *)
(* event at most once.                                                     *)
DuplicatesFromRestarts == \A e \in Ids : copies[e] <= 1 + restarts

(* outbox-relay.ts: delivery is at least once.                             *)
EveryEventArrives == \A e \in Ids : event[e] # NoEvent ~> copies[e] > 0
=============================================================================

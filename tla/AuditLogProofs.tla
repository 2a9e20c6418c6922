--------------------------- MODULE AuditLogProofs ---------------------------
(***************************************************************************)
(* Proofs about AuditLog, for any number of requests and of slots.         *)
(*                                                                         *)
(* The channel is large enough because its events are all different and    *)
(* each belongs to a request whose permit has not been given back.  This   *)
(* needs an order in the channel: a request's start comes before its other *)
(* events, and nothing comes after its finish, which gives the permit back.*)
(* The lemmas about queues reduce that order to sets of events; the steps  *)
(* are then one lemma each.                                                *)
(***************************************************************************)
EXTENDS AuditLog, FiniteSetTheorems, TLAPS

(* The writer has not begun to drop what it holds.                         *)
Working == {"running", "wedged", "unwinding"}

EventType == [id : Requests, kind : Kinds]
EventsOf(q) == {q[i] : i \in 1..Len(q)}
Queued == EventsOf(queue)

(* No event twice; a request's start is its first, its finish its last.    *)
Ordered(q) ==
    \A i, j \in 1..Len(q) : i < j =>
        /\ q[i] # q[j]
        /\ q[i].id = q[j].id => q[i].kind # "finish" /\ q[j].kind # "start"

(* The requests of the start events.                                       *)
Started(q) == {r \in Requests : Event(r, "start") \in EventsOf(q)}
Reserving == {r \in Requests : phase[r] \in {"reserved", "vetted"}}

(* The request's permit is with the writer, or on its way there.           *)
Held(r) == r \in DOMAIN pending \/ Event(r, "start") \in Queued
Recorded(r) == \E a \in written \cup flushed : a.id = r

(* What a request has reported when its handler is at each of its steps.   *)
SentInPhase ==
    \A r \in Requests :
        /\ phase[r] \in {"new", "checked", "reserved", "vetted", "refused"} => sent[r] = {}
        /\ phase[r] = "open" => sent[r] = {"start"}
        /\ phase[r] = "routed" => sent[r] = {"start", "routed"}
        /\ phase[r] = "failed" => sent[r] = {"start", "routed", "error"}
        /\ phase[r] = "answered" => "start" \in sent[r] /\ "finish" \notin sent[r]
        /\ phase[r] = "done" => {"start", "finish"} \subseteq sent[r]

(* The channel holds what was reported, in order; a permit is in one place.*)
QueueInv ==
    /\ Ordered(queue)
    /\ \A e \in Queued : e.kind \in sent[e.id]
    /\ \A r \in DOMAIN pending : "start" \in sent[r] /\ Event(r, "start") \notin Queued

PermitInv == IsFiniteSet(PermitHolders) /\ PermitsBalance

(* No event outlives its request's permit, and no open request loses it.   *)
HeldInv ==
    writer \in Working =>
        /\ \A e \in Queued : Held(e.id)
        /\ \A r \in Requests : phase[r] \in {"open", "routed", "failed", "answered"} => Held(r)

(* What was reported is merged in the entry or still in the channel.       *)
MergedInv ==
    writer \in Working =>
        /\ \A r \in DOMAIN pending : \A k \in Kinds \ {"start", "finish"} :
                k \in sent[r] <=> k \in pending[r] \/ Event(r, k) \in Queued
        /\ \A r \in DOMAIN pending : pending[r] \cap {"start", "finish"} = {}
        /\ \A r \in Requests : Event(r, "start") \in Queued =>
                \A k \in sent[r] : Event(r, k) \in Queued

(* A record is of a request that is over, and that has no entry any more.  *)
RecordInv ==
    /\ \A a \in written \cup flushed :
        phase[a.id] = "done" /\ a.id \notin DOMAIN pending /\ Event(a.id, "start") \notin Queued
    /\ RecordsAreWhole

(* No request is forgotten while the writer is at work, or when it has     *)
(* returned without an error.                                              *)
KeptInv ==
    /\ writer \in {"running", "wedged"} =>
        \A r \in Requests : sent[r] # {} => Held(r) \/ Recorded(r)
    /\ writer = "stopped" => \A r \in Requests :
        phase[r] = "done" => \E a \in flushed : a.id = r

(* What the end of the writer, and the stages of run(), say of the rest.   *)
EndInv ==
    /\ writer \in {"closing", "gone", "stopped"} => DOMAIN pending = {}
    /\ writer \in {"gone", "stopped"} => queue = <<>>
    /\ writer = "stopped" => supervisor \in {"joining", "exited"}
    /\ supervisor \in {"joining", "exited"} => \A r \in Requests : Ended(r)
    /\ supervisor = "exited" /\ outcome = "ok" => writer = "stopped"

(* The inductive invariant.                                                *)
Inv ==
    /\ TypeOK /\ SentInPhase /\ QueueInv /\ PermitInv /\ FailsOnlyWithTheWriter
    /\ HeldInv /\ MergedInv /\ RecordInv /\ KeptInv /\ EndInv

-----------------------------------------------------------------------------
(* What the provers need to know of Append.                                *)
LEMMA AppendFacts ==
  ASSUME NEW q \in Seq(EventType), NEW e \in EventType
  PROVE  /\ Append(q, e) \in Seq(EventType)
         /\ Len(q) \in Nat /\ Len(Append(q, e)) = Len(q) + 1
         /\ \A i \in 1..Len(q) : Append(q, e)[i] = q[i] /\ q[i] \in EventType
         /\ Append(q, e)[Len(q) + 1] = e
  OBVIOUS

(* And of Head and Tail.                                                   *)
LEMMA TailFacts ==
  ASSUME NEW q \in Seq(EventType), q # <<>>
  PROVE  /\ Tail(q) \in Seq(EventType)
         /\ Len(q) \in Nat \ {0} /\ Len(Tail(q)) = Len(q) - 1
         /\ \A i \in 1..Len(Tail(q)) : Tail(q)[i] = q[i + 1]
         /\ Head(q) = q[1]
         /\ \A i \in 1..Len(q) : q[i] \in EventType
  OBVIOUS

(* Appending adds the event.                                               *)
LEMMA EventsOfAppend ==
  ASSUME NEW q \in Seq(EventType), NEW e \in EventType
  PROVE  EventsOf(Append(q, e)) = EventsOf(q) \cup {e}
<1> DEFINE p == Append(q, e)
<1> HIDE DEF p
<1>1. /\ Len(q) \in Nat /\ Len(p) = Len(q) + 1 /\ p[Len(q) + 1] = e
      /\ \A i \in 1..Len(q) : p[i] = q[i]
  BY AppendFacts DEF p
<1>2. ASSUME NEW i \in 1..Len(p) PROVE p[i] \in EventsOf(q) \cup {e}
  BY <1>1 DEF EventsOf
<1>3. ASSUME NEW i \in 1..Len(q) PROVE q[i] \in EventsOf(p)
  <2>1. i \in 1..Len(p) /\ q[i] = p[i]
    BY <1>1
  <2> QED BY <2>1 DEF EventsOf
<1>4. e \in EventsOf(p)
  BY <1>1 DEF EventsOf
<1> QED BY <1>2, <1>3, <1>4 DEF EventsOf, p

(* An order survives an event that is new, of a request that has not       *)
(* finished, and a start of one that has no event there.                   *)
LEMMA OrderedAppend ==
  ASSUME NEW q \in Seq(EventType), NEW e \in EventType, Ordered(q),
         e \notin EventsOf(q),
         \A f \in EventsOf(q) : f.id = e.id => f.kind # "finish" /\ e.kind # "start"
  PROVE  Ordered(Append(q, e))
<1> DEFINE p == Append(q, e)
<1> HIDE DEF p
<1>1. /\ Len(q) \in Nat /\ Len(p) = Len(q) + 1 /\ p[Len(q) + 1] = e
      /\ \A i \in 1..Len(q) : p[i] = q[i]
  BY AppendFacts DEF p
<1>2. \A i \in 1..Len(q) : q[i] \in EventsOf(q)
  BY DEF EventsOf
<1>3. ASSUME NEW i \in 1..Len(p), NEW j \in 1..Len(p), i < j
      PROVE  /\ p[i] # p[j]
             /\ p[i].id = p[j].id => p[i].kind # "finish" /\ p[j].kind # "start"
  <2>1. CASE j \in 1..Len(q)
    BY <1>1, <1>3, <2>1 DEF Ordered
  <2>2. CASE j = Len(q) + 1
    BY <1>1, <1>2, <1>3, <2>2
  <2> QED BY <1>1, <2>1, <2>2
<1> QED BY <1>3 DEF Ordered, p

(* Taking the head removes that event alone; nothing follows a finish, and *)
(* no start is overtaken.                                                  *)
LEMMA OrderedTail ==
  ASSUME NEW q \in Seq(EventType), q # <<>>, Ordered(q)
  PROVE  /\ Ordered(Tail(q))
         /\ Head(q) \in EventsOf(q) /\ Head(q) \in EventType
         /\ EventsOf(Tail(q)) = EventsOf(q) \ {Head(q)}
         /\ \A f \in EventsOf(Tail(q)) : f.id = Head(q).id =>
                Head(q).kind # "finish" /\ f.kind # "start"
<1> DEFINE p == Tail(q)
           e == Head(q)
<1> HIDE DEF p, e
<1>1. /\ Len(q) \in Nat \ {0} /\ Len(p) = Len(q) - 1 /\ e = q[1]
      /\ \A i \in 1..Len(p) : p[i] = q[i + 1]
      /\ \A i \in 1..Len(q) : q[i] \in EventType
  BY TailFacts DEF p, e
<1>2. Ordered(p)
  BY <1>1 DEF Ordered
<1>3. e \in EventsOf(q) /\ e \in EventType
  BY <1>1 DEF EventsOf
<1>4. ASSUME NEW i \in 1..Len(p)
      PROVE  /\ p[i] \in EventsOf(q) /\ p[i] # e
             /\ p[i].id = e.id => e.kind # "finish" /\ p[i].kind # "start"
  <2>1. i + 1 \in 1..Len(q) /\ 1 \in 1..Len(q) /\ 1 < i + 1 /\ p[i] = q[i + 1]
    BY <1>1
  <2> QED BY <1>1, <2>1 DEF Ordered, EventsOf
<1>5. ASSUME NEW i \in 1..Len(q), q[i] # e PROVE q[i] \in EventsOf(p)
  <2>1. i - 1 \in 1..Len(p) /\ p[i - 1] = q[i]
    BY <1>1, <1>5
  <2> QED BY <2>1 DEF EventsOf
<1> QED BY <1>2, <1>3, <1>4, <1>5 DEF EventsOf, p, e

(* The kinds are finitely many.                                            *)
LEMMA FiveKinds == IsFiniteSet(Kinds) /\ Cardinality(Kinds) \in Nat
<1>1. IsFiniteSet({"start"} \cup {"routed"} \cup {"error"} \cup {"response"} \cup {"finish"})
  BY FS_Singleton, FS_Union
<1>2. Kinds = {"start"} \cup {"routed"} \cup {"error"} \cup {"response"} \cup {"finish"}
  BY DEF Kinds
<1>3. IsFiniteSet(Kinds)
  BY <1>1, <1>2
<1> QED BY <1>3, FS_CardinalityType

(* Distinct events of the holders of S are at most Cardinality(S) times    *)
(* the kinds there are.                                                    *)
LEMMA EventsFit ==
  ASSUME NEW q \in Seq(EventType), Ordered(q), NEW S, IsFiniteSet(S),
         \A e \in EventsOf(q) : e.id \in S
  PROVE  Len(q) <= Cardinality(S) * Cardinality(Kinds)
<1> DEFINE place == [i \in 1..Len(q) |-> <<q[i].id, q[i].kind>>]
<1>1. Len(q) \in Nat /\ \A i \in 1..Len(q) : q[i] \in EventType
  OBVIOUS
<1>2. place \in [1..Len(q) -> S \X Kinds]
  BY <1>1 DEF EventsOf, EventType
<1>3. ASSUME NEW i \in 1..Len(q), NEW j \in 1..Len(q), place[i] = place[j] PROVE i = j
  <2>1. q[i].id = q[j].id /\ q[i].kind = q[j].kind
    BY <1>3
  <2>2. q[i] = q[j]
    BY <1>1, <2>1 DEF EventType
  <2>3. ~(i < j) /\ ~(j < i)
    BY <2>2 DEF Ordered
  <2> QED BY <2>3, <1>1
<1>4. place \in Injection(1..Len(q), S \X Kinds)
  BY <1>2, <1>3 DEF Injection, IsInjective
<1>5. IsFiniteSet(S \X Kinds) /\ Cardinality(S \X Kinds) = Cardinality(S) * Cardinality(Kinds)
  BY FS_Product, FiveKinds
<1>6. Cardinality(1..Len(q)) <= Cardinality(S \X Kinds)
  BY <1>4, <1>5, FS_Injection
<1>7. Cardinality(1..Len(q)) = Len(q)
  BY <1>1, FS_Interval
<1> QED BY <1>5, <1>6, <1>7

(* The start events are of different requests.                             *)
LEMMA StartEvents ==
  ASSUME NEW q \in Seq(EventType), Ordered(q)
  PROVE  /\ {q[i].id : i \in {j \in DOMAIN q : q[j].kind = "start"}} = Started(q)
         /\ IsFiniteSet(Started(q))
         /\ Cardinality({i \in DOMAIN q : q[i].kind = "start"}) = Cardinality(Started(q))
<1> DEFINE P == {i \in DOMAIN q : q[i].kind = "start"}
           f == [i \in P |-> q[i].id]
<1>1. /\ Len(q) \in Nat /\ DOMAIN q = 1..Len(q)
      /\ \A i \in 1..Len(q) : q[i] \in EventType
  OBVIOUS
<1>2. \A i \in P : q[i] = Event(q[i].id, "start") /\ q[i].id \in Requests
  BY <1>1 DEF EventType, Event
<1>3. \A i \in P : q[i].id \in Started(q)
  BY <1>1, <1>2 DEF Started, EventsOf
<1>4. ASSUME NEW r \in Started(q) PROVE \E i \in P : q[i].id = r
  <2>1. PICK i \in 1..Len(q) : q[i] = Event(r, "start")
    BY DEF Started, EventsOf
  <2> QED BY <1>1, <2>1 DEF Event
<1>5. ASSUME NEW i \in P, NEW j \in P, q[i].id = q[j].id PROVE i = j
  <2>1. q[i] = q[j]
    BY <1>2, <1>5
  <2> QED BY <1>1, <2>1 DEF Ordered
<1>6. f \in [P -> Started(q)]
  BY <1>3
<1>7. f \in Injection(P, Started(q)) /\ f \in Surjection(P, Started(q))
  BY <1>4, <1>5, <1>6 DEF Injection, IsInjective, Surjection
<1>8. ExistsBijection(P, Started(q))
  BY <1>7 DEF ExistsBijection, Bijection
<1>9. IsFiniteSet(P)
  <2>1. IsFiniteSet(1..Len(q))
    BY <1>1, FS_Interval
  <2> QED BY <1>1, <2>1, FS_Subset
<1>10. IsFiniteSet(Started(q)) /\ Cardinality(P) = Cardinality(Started(q))
  BY <1>8, <1>9, FS_Bijection
<1> QED BY <1>3, <1>4, <1>10
-----------------------------------------------------------------------------
(* An event in the channel is a request's, and of some kind.               *)
LEMMA QueuedType ==
  ASSUME TypeOK
  PROVE  \A e \in Queued : e \in EventType /\ e = Event(e.id, e.kind)
                           /\ e.id \in Requests /\ e.kind \in Kinds
<1>1. queue \in Seq(EventType)
  BY DEF TypeOK, EventType
<1>2. \A i \in 1..Len(queue) : queue[i] \in EventType
  BY <1>1
<1> QED BY <1>2 DEF Queued, EventsOf, EventType, Event

(* Permits are with handlers, start events and entries.                    *)
LEMMA Holders ==
  ASSUME TypeOK, Ordered(queue)
  PROVE  PermitHolders = Reserving \cup Started(queue) \cup DOMAIN pending
<1>1. queue \in Seq(EventType)
  BY DEF TypeOK, EventType
<1> QED BY <1>1, StartEvents DEF PermitHolders, Reserving

(* The same of the next state.                                             *)
LEMMA HoldersNext ==
  ASSUME TypeOK', Ordered(queue')
  PROVE  PermitHolders' = Reserving' \cup Started(queue') \cup DOMAIN pending'
<1>1. queue' \in Seq(EventType)
  BY DEF TypeOK, EventType
<1> QED BY <1>1, StartEvents DEF PermitHolders, Reserving

(* A balanced counter is positive while somebody holds a permit.           *)
LEMMA CountedPermits ==
  ASSUME PermitInv
  PROVE  /\ admitted \in Nat
         /\ admitted = Cardinality(PermitHolders) /\ IsFiniteSet(PermitHolders)
         /\ \A r \in PermitHolders :
                Cardinality(PermitHolders \ {r}) = admitted - 1 /\ admitted >= 1
<1>1. IsFiniteSet(PermitHolders) /\ admitted = Cardinality(PermitHolders)
  BY DEF PermitInv, PermitsBalance
<1>2. admitted \in Nat
  BY <1>1, FS_CardinalityType
<1>3. ASSUME NEW r \in PermitHolders
      PROVE  Cardinality(PermitHolders \ {r}) = admitted - 1 /\ admitted >= 1
  <2>1. admitted # 0
    BY <1>1, <1>3, FS_EmptySet
  <2> QED BY <1>1, <1>2, <2>1, <1>3, FS_RemoveElement
<1> QED BY <1>1, <1>2, <1>3

(* The counter stays right when nobody takes or frees a permit,            *)
LEMMA SamePermits ==
  ASSUME PermitInv, PermitHolders' = PermitHolders, admitted' = admitted
  PROVE  PermitInv'
  BY DEF PermitInv, PermitsBalance

(* when one holder frees its own,                                          *)
LEMMA PermitFreed ==
  ASSUME PermitInv, NEW r \in PermitHolders, PermitHolders' = PermitHolders \ {r},
         admitted' = admitted - 1
  PROVE  PermitInv'
  BY CountedPermits, FS_RemoveElement DEF PermitInv, PermitsBalance

(* when one who had none takes one,                                        *)
LEMMA PermitTaken ==
  ASSUME PermitInv, NEW r, r \notin PermitHolders, PermitHolders' = PermitHolders \cup {r},
         admitted' = admitted + 1
  PROVE  PermitInv'
  BY CountedPermits, FS_AddElement DEF PermitInv, PermitsBalance

(* An event that its request reports next extends the channel's order.     *)
LEMMA SendFacts ==
  ASSUME TypeOK, QueueInv, NEW r \in Requests, NEW kind \in Kinds,
         kind \notin sent[r], "finish" \notin sent[r], kind = "start" => sent[r] = {}
  PROVE  LET q == Append(queue, Event(r, kind)) IN
         /\ Event(r, kind) \in EventType /\ Event(r, kind) \notin Queued
         /\ q \in Seq(EventType) /\ Len(q) = Len(queue) + 1 /\ Len(queue) \in Nat
         /\ Ordered(q) /\ EventsOf(q) = Queued \cup {Event(r, kind)}
<1> DEFINE e == Event(r, kind)
<1>1. queue \in Seq(EventType) /\ e \in EventType /\ e.id = r /\ e.kind = kind
  BY DEF TypeOK, EventType, Event
<1>2. e \notin Queued
  BY <1>1 DEF QueueInv
<1>3. \A f \in Queued : f.id = e.id => f.kind # "finish" /\ e.kind # "start"
  BY <1>1 DEF QueueInv
<1>4. Ordered(queue)
  BY DEF QueueInv
<1> HIDE DEF e
<1>5. Ordered(Append(queue, e))
  BY <1>1, <1>2, <1>3, <1>4, OrderedAppend DEF Queued
<1>6. EventsOf(Append(queue, e)) = Queued \cup {e}
  BY <1>1, EventsOfAppend DEF Queued
<1>7. Append(queue, e) \in Seq(EventType) /\ Len(Append(queue, e)) = Len(queue) + 1
      /\ Len(queue) \in Nat
  BY <1>1, AppendFacts
<1> QED BY <1>1, <1>2, <1>5, <1>6, <1>7 DEF e

(* Products grow with their factors.                                       *)
LEMMA Monotone ==
  ASSUME NEW a \in Nat, NEW b \in Nat, NEW c \in Nat, NEW d \in Nat, a <= b, c <= d
  PROVE  a * c <= b * d
<1>1. a * c <= b * c
  OBVIOUS
<1>2. b * c <= b * d
  OBVIOUS
<1>3. a * c \in Nat /\ b * c \in Nat /\ b * d \in Nat
  OBVIOUS
<1> QED BY <1>1, <1>2, <1>3

(* While the writer works, try_send has room for the next event of every   *)
(* request that holds a permit.                                            *)
LEMMA NeverFull ==
  ASSUME Inv, writer \in Working, NEW r \in PermitHolders, r \in Requests, NEW kind \in Kinds,
         kind \notin sent[r], "finish" \notin sent[r], kind = "start" => sent[r] = {}
  PROVE  TrySendSucceeds
<1> DEFINE q == Append(queue, Event(r, kind))
<1>1. /\ q \in Seq(EventType) /\ Len(q) = Len(queue) + 1 /\ Len(queue) \in Nat
      /\ Ordered(q) /\ EventsOf(q) = Queued \cup {Event(r, kind)}
  BY SendFacts DEF Inv
<1>2. \A e \in EventsOf(q) : e.id \in PermitHolders
  <2>1. PermitHolders = Reserving \cup Started(queue) \cup DOMAIN pending
    BY Holders DEF Inv, QueueInv
  <2>2. \A e \in Queued : e.id \in Requests
    BY QueuedType DEF Inv
  <2>3. \A e \in Queued : Held(e.id)
    BY DEF Inv, HeldInv
  <2> QED BY <1>1, <2>1, <2>2, <2>3 DEF Held, Started, Queued, Event
<1>3. IsFiniteSet(PermitHolders) /\ admitted = Cardinality(PermitHolders) /\ admitted \in Nat
  BY CountedPermits DEF Inv
<1> HIDE DEF q
<1>4. Len(q) <= admitted * Cardinality(Kinds)
  BY <1>1, <1>2, <1>3, EventsFit
<1>5. admitted <= RequestSlots
  BY DEF Inv, TypeOK
<1>6. admitted * Cardinality(Kinds) <= RequestSlots * MaxEvents
  BY <1>3, <1>5, FiveKinds, AuditAssumption, Monotone
<1>7. Len(queue) < EventSlots
  <2>1. admitted * Cardinality(Kinds) \in Nat /\ RequestSlots * MaxEvents \in Nat
    BY <1>3, FiveKinds, AuditAssumption
  <2> QED BY <1>1, <1>4, <1>6, <2>1 DEF EventSlots
<1> QED BY <1>7 DEF TrySendSucceeds, Connected, Working
-----------------------------------------------------------------------------
(* The invariant holds at the start.                                       *)
LEMMA InitInv == Init => Inv
<1> SUFFICES ASSUME Init PROVE Inv
  OBVIOUS
<1>1. Len(queue) = 0 /\ Queued = {} /\ DOMAIN pending = {}
  BY DEF Init, Queued, EventsOf, NoEntries
<1>2. TypeOK
  <2>1. EventSlots \in Nat
    BY AuditAssumption DEF EventSlots
  <2>2. admitted \in 0..RequestSlots /\ Len(queue) <= EventSlots
    BY <1>1, <2>1, AuditAssumption DEF Init
  <2>3. phase \in [Requests -> Phases] /\ sent \in [Requests -> SUBSET Kinds]
    BY DEF Init, Phases
  <2>4. queue \in Seq([id : Requests, kind : Kinds])
    BY DEF Init
  <2>5. DOMAIN pending \subseteq Requests /\ \A r \in DOMAIN pending : pending[r] \subseteq Kinds
    BY <1>1
  <2>6. healthy \in BOOLEAN /\ notified \in BOOLEAN
    BY DEF Init
  <2> QED BY <2>2, <2>3, <2>4, <2>5, <2>6 DEF Init, TypeOK
<1>3. Ordered(queue)
  BY <1>1 DEF Ordered
<1>4. SentInPhase /\ QueueInv
  BY <1>1, <1>3 DEF Init, SentInPhase, QueueInv
<1>5. PermitInv
  <2>1. PermitHolders = {}
    BY <1>1, <1>2, <1>3, Holders DEF Init, Reserving, Started, Queued
  <2> QED BY <2>1, FS_EmptySet DEF PermitInv, PermitsBalance, Init
<1>6. HeldInv /\ MergedInv /\ FailsOnlyWithTheWriter
  BY <1>1 DEF Init, HeldInv, MergedInv, FailsOnlyWithTheWriter
<1>7. RecordInv /\ KeptInv /\ EndInv
  BY <1>1 DEF Init, RecordInv, RecordsAreWhole, KeptInv, EndInv
<1> QED BY <1>2, <1>4, <1>5, <1>6, <1>7 DEF Inv

(* A handler that has reported nothing yet goes on, or is refused.         *)
LEMMA SmallPhaseChange ==
  ASSUME Inv, NEW r \in Requests, NEW next \in {"checked", "reserved", "vetted", "refused"},
         phase[r] \in {"new", "checked", "reserved", "vetted"},
         supervisor \in {"joining", "exited"} => next = "refused",
         phase' = [phase EXCEPT ![r] = next],
         UNCHANGED <<sent, queue, writerVars, runVars>>,
         health' = health \/ writer \notin Working,
         admitted' \in 0..RequestSlots, healthy' \in BOOLEAN, notified' \in BOOLEAN,
         PermitInv'
  PROVE  Inv'
<1> USE DEF Inv, writerVars, runVars, health
<1>1. Queued' = Queued
  BY DEF Queued
<1>2. TypeOK'
  BY DEF TypeOK, Phases
<1>3. SentInPhase'
  BY DEF TypeOK, SentInPhase
<1>4. QueueInv'
  BY <1>1 DEF QueueInv
<1>5. FailsOnlyWithTheWriter'
  BY DEF FailsOnlyWithTheWriter, Working
<1>6. HeldInv'
  BY <1>1 DEF TypeOK, HeldInv, Held
<1>7. MergedInv'
  BY <1>1 DEF MergedInv
<1>8. RecordInv'
  BY <1>1 DEF TypeOK, RecordInv, RecordsAreWhole, RecordType
<1>9. KeptInv'
  BY <1>1 DEF TypeOK, KeptInv, Held, Recorded
<1>10. EndInv'
  BY DEF TypeOK, EndInv, Ended
<1> QED BY <1>2, <1>3, <1>4, <1>5, <1>6, <1>7, <1>8, <1>9, <1>10
(* request_started: the first look at the health.                          *)
LEMMA CheckHealthStep ==
  ASSUME Inv, NEW r \in Requests, CheckHealth(r)
  PROVE  Inv'
<1> USE DEF CheckHealth, health, runVars, writerVars
<1>1. PermitHolders' = PermitHolders
  BY DEF PermitHolders, Inv, TypeOK
<1>2. PermitInv'
  BY <1>1, SamePermits DEF Inv
<1>3. supervisor \notin {"joining", "exited"}
  BY DEF Accepting
<1> QED BY <1>2, <1>3, SmallPhaseChange DEF Inv, TypeOK

(* Who has reported nothing has no start event and no entry.               *)
LEMMA NotYetHolding ==
  ASSUME Inv, NEW r \in Requests, sent[r] = {}
  PROVE  r \notin Started(queue) /\ r \notin DOMAIN pending
  BY DEF Inv, QueueInv, Started, Queued, Event

(* request_started: the permit.                                            *)
LEMMA ReservePermitStep ==
  ASSUME Inv, NEW r \in Requests, ReservePermit(r)
  PROVE  Inv'
<1> USE DEF ReservePermit, health, runVars, writerVars
<1>1. sent[r] = {} /\ phase[r] = "checked" /\ supervisor \notin {"joining", "exited"}
  BY DEF Inv, SentInPhase, EndInv, Ended
<1>2. PermitHolders = Reserving \cup Started(queue) \cup DOMAIN pending
  BY Holders DEF Inv, QueueInv
<1>3. CASE admitted < RequestSlots
  <2>1. PermitHolders' = PermitHolders \cup {r}
    BY <1>1, <1>3 DEF PermitHolders, Inv, TypeOK
  <2>2. r \notin PermitHolders
    BY <1>1, <1>2, NotYetHolding DEF Reserving
  <2>3. PermitInv'
    BY <1>3, <2>1, <2>2, PermitTaken DEF Inv
  <2>4. admitted' \in 0..RequestSlots
    BY <1>3, AuditAssumption DEF Inv, TypeOK
  <2> QED BY <1>1, <1>3, <2>3, <2>4, SmallPhaseChange DEF Inv, TypeOK
<1>4. CASE ~(admitted < RequestSlots)
  <2>1. PermitHolders' = PermitHolders
    BY <1>1, <1>4 DEF PermitHolders, Inv, TypeOK
  <2>2. PermitInv'
    BY <1>4, <2>1, SamePermits DEF Inv
  <2> QED BY <1>1, <1>4, <2>2, SmallPhaseChange DEF Inv, TypeOK
<1> QED BY <1>3, <1>4

(* A handler that has reserved gives its permit back.                      *)
LEMMA GivenBack ==
  ASSUME Inv, NEW r \in Requests, phase[r] \in {"reserved", "vetted"},
         phase' = [phase EXCEPT ![r] = "refused"], admitted' = admitted - 1,
         UNCHANGED <<queue, pending>>
  PROVE  PermitInv' /\ admitted' \in 0..RequestSlots
<1>1. PermitHolders = Reserving \cup Started(queue) \cup DOMAIN pending
  BY Holders DEF Inv, QueueInv
<1>2. sent[r] = {}
  BY DEF Inv, SentInPhase
<1>3. r \notin Started(queue) /\ r \notin DOMAIN pending
  BY <1>2, NotYetHolding
<1>4. Reserving' = Reserving \ {r} /\ r \in Reserving
  BY DEF Reserving, Inv, TypeOK
<1>5. PermitHolders' = Reserving' \cup Started(queue) \cup DOMAIN pending
  <2>1. queue \in Seq(EventType) /\ Ordered(queue)
    BY DEF Inv, TypeOK, EventType, QueueInv
  <2> QED BY <2>1, StartEvents DEF PermitHolders, Reserving
<1>6. PermitHolders' = PermitHolders \ {r} /\ r \in PermitHolders
  BY <1>1, <1>3, <1>4, <1>5
<1>7. PermitInv'
  BY <1>6, PermitFreed DEF Inv
<1>8. admitted \in 0..RequestSlots /\ admitted >= 1
  BY <1>6, CountedPermits DEF Inv, TypeOK
<1> QED BY <1>7, <1>8, AuditAssumption

(* request_started: the second look at the health.                         *)
LEMMA RecheckHealthStep ==
  ASSUME Inv, NEW r \in Requests, RecheckHealth(r)
  PROVE  Inv'
<1> USE DEF RecheckHealth, health, runVars, writerVars
<1>1. phase[r] = "reserved" /\ supervisor \notin {"joining", "exited"}
  BY DEF Inv, EndInv, Ended
<1>2. CASE healthy
  <2>1. PermitHolders' = PermitHolders
    BY <1>1, <1>2 DEF PermitHolders, Inv, TypeOK
  <2>2. PermitInv'
    BY <1>2, <2>1, SamePermits DEF Inv
  <2> QED BY <1>1, <1>2, <2>2, SmallPhaseChange DEF Inv, TypeOK
<1>3. CASE ~healthy
  <2>1. PermitInv' /\ admitted' \in 0..RequestSlots
    BY <1>1, <1>3, GivenBack
  <2> QED BY <1>1, <1>3, <2>1, SmallPhaseChange DEF Inv, TypeOK
<1> QED BY <1>2, <1>3
(* request_started: the start event takes the permit along; when it cannot *)
(* be sent the writer is going, and the permit is given back.              *)
LEMMA SendStartStep ==
  ASSUME Inv, NEW r \in Requests, SendStart(r)
  PROVE  Inv'
<1> DEFINE e == Event(r, "start")
<1>1. phase[r] = "vetted" /\ sent[r] = {} /\ supervisor \notin {"joining", "exited"}
  BY DEF SendStart, Inv, SentInPhase, EndInv, Ended
<1>2. r \in PermitHolders /\ "start" \in Kinds
  BY <1>1 DEF PermitHolders, Kinds
<1>3. CASE TrySendSucceeds
  <2>1. /\ queue' = Append(queue, e) /\ phase' = [phase EXCEPT ![r] = "open"]
        /\ sent' = [sent EXCEPT ![r] = {"start"}] /\ UNCHANGED <<admitted, health, runVars, writerVars>>
    BY <1>3 DEF SendStart, Send
  <2>2. /\ e \notin Queued /\ queue' \in Seq(EventType) /\ Ordered(queue') /\ Queued' = Queued \cup {e}
        /\ Len(queue') = Len(queue) + 1 /\ Len(queue) \in Nat
    BY <1>1, <1>2, <2>1, SendFacts DEF Inv, Queued
  <2>3. r \notin Started(queue) /\ r \notin DOMAIN pending
    BY <1>1, NotYetHolding
  <2> USE <1>1, <2>1, <2>2, <2>3 DEF Inv, health, runVars, writerVars
  <2>4. TypeOK'
    <3>1. Len(queue') <= EventSlots
      BY <1>3, AuditAssumption DEF TrySendSucceeds, EventSlots
    <3>2. phase' \in [Requests -> Phases] /\ sent' \in [Requests -> SUBSET Kinds]
      BY <1>2 DEF TypeOK, Phases
    <3> QED BY <3>1, <3>2 DEF TypeOK, EventType
  <2>5. SentInPhase'
    BY DEF TypeOK, SentInPhase
  <2>6. QueueInv'
    <3>1. \A f \in Queued' : f.kind \in sent'[f.id]
      BY DEF QueueInv, TypeOK, Event
    <3>2. \A x \in DOMAIN pending' : "start" \in sent'[x] /\ Event(x, "start") \notin Queued'
      BY DEF QueueInv, TypeOK, Event
    <3> QED BY <3>1, <3>2 DEF QueueInv
  <2>7. PermitInv'
    <3>1. PermitHolders = Reserving \cup Started(queue) \cup DOMAIN pending
      BY Holders DEF QueueInv
    <3>2. PermitHolders' = Reserving' \cup Started(queue') \cup DOMAIN pending'
      BY <2>4, HoldersNext
    <3>3. Started(queue') = Started(queue) \cup {r}
      BY DEF Started, Queued, Event
    <3>4. Reserving' = Reserving \ {r} /\ r \in Reserving
      BY DEF Reserving, TypeOK
    <3>5. PermitHolders' = PermitHolders
      BY <3>1, <3>2, <3>3, <3>4
    <3> QED BY <3>5, SamePermits
  <2>8. FailsOnlyWithTheWriter'
    BY DEF FailsOnlyWithTheWriter
  <2>9. HeldInv'
    BY DEF HeldInv, Held, TypeOK, Event
  <2>10. MergedInv'
    <3> SUFFICES ASSUME writer \in Working PROVE MergedInv'
      BY DEF MergedInv
    <3>1. ASSUME NEW x \in DOMAIN pending
          PROVE  /\ \A k \in Kinds \ {"start", "finish"} :
                    k \in sent'[x] <=> k \in pending[x] \/ Event(x, k) \in Queued'
                 /\ pending[x] \cap {"start", "finish"} = {}
      BY <3>1 DEF MergedInv, TypeOK, Event
    <3>2. ASSUME NEW x \in Requests, Event(x, "start") \in Queued', NEW k \in sent'[x]
          PROVE  Event(x, k) \in Queued'
      BY <3>2 DEF MergedInv, TypeOK, Event
    <3> QED BY <3>1, <3>2 DEF MergedInv
  <2>11. RecordInv'
    <3>1. \A a \in written \cup flushed : a.id \in Requests /\ a.id # r
      BY DEF RecordInv, TypeOK, RecordType
    <3> QED BY <3>1 DEF RecordInv, RecordsAreWhole, TypeOK, Event
  <2>12. KeptInv'
    BY DEF KeptInv, Held, Recorded, TypeOK
  <2>13. EndInv'
    BY <1>3 DEF EndInv, Ended, TypeOK, TrySendSucceeds, Connected
  <2> QED BY <2>4, <2>5, <2>6, <2>7, <2>8, <2>9, <2>10, <2>11, <2>12, <2>13
<1>4. CASE ~TrySendSucceeds
  <2>1. /\ healthy' = FALSE /\ notified' = (notified \/ healthy)
        /\ phase' = [phase EXCEPT ![r] = "refused"] /\ admitted' = admitted - 1
        /\ UNCHANGED <<queue, sent, runVars, writerVars>>
    BY <1>4 DEF SendStart, Send, MarkFailed
  <2>2. writer \notin Working
    BY <1>1, <1>2, <1>4, NeverFull
  <2>3. PermitInv' /\ admitted' \in 0..RequestSlots
    BY <1>1, <2>1, GivenBack DEF writerVars
  <2>4. healthy' \in BOOLEAN /\ notified' \in BOOLEAN
    BY <2>1
  <2> QED BY <1>1, <2>1, <2>2, <2>3, <2>4, SmallPhaseChange
<1> QED BY <1>3, <1>4
(* Every later event of a request.                                         *)
LEMMA ReportStep ==
  ASSUME Inv, NEW r \in Requests, NEW kind \in Kinds \ {"start"},
         NEW next \in {"routed", "failed", "answered", "done"},
         Report(r, kind, next), phase[r] \in {"open", "routed", "failed", "answered"},
         kind \notin sent[r], SentInPhase'
  PROVE  Inv'
<1> DEFINE e == Event(r, kind)
<1>1. /\ "start" \in sent[r] /\ "finish" \notin sent[r]
      /\ supervisor \notin {"joining", "exited"} /\ writer # "stopped"
  BY DEF Inv, SentInPhase, EndInv, Ended
<1>2. /\ phase' = [phase EXCEPT ![r] = next] /\ sent' = [sent EXCEPT ![r] = @ \cup {kind}]
      /\ UNCHANGED <<admitted, runVars, writerVars>>
  BY DEF Report
<1>3. /\ e \notin Queued /\ Append(queue, e) \in Seq(EventType) /\ Ordered(Append(queue, e))
      /\ EventsOf(Append(queue, e)) = Queued \cup {e}
      /\ Len(Append(queue, e)) = Len(queue) + 1 /\ Len(queue) \in Nat
  BY <1>1, SendFacts DEF Inv
<1>4. writer \in Working => TrySendSucceeds
  <2>1. ASSUME writer \in Working PROVE r \in PermitHolders
    <3>1. Held(r)
      BY <2>1 DEF Inv, HeldInv
    <3>2. PermitHolders = Reserving \cup Started(queue) \cup DOMAIN pending
      BY Holders DEF Inv, QueueInv
    <3> QED BY <3>1, <3>2 DEF Held, Started, Queued
  <2> QED BY <1>1, <2>1, NeverFull
<1>5. \/ queue' = Append(queue, e) /\ Queued' = Queued \cup {e} /\ UNCHANGED health /\ TrySendSucceeds
      \/ /\ queue' = queue /\ Queued' = Queued /\ writer \notin Working
         /\ healthy' = FALSE /\ notified' = (notified \/ healthy)
  BY <1>3, <1>4 DEF Report, Send, MarkFailed, Queued
<1>6. writer \in Working => Queued' = Queued \cup {e} /\ healthy' = healthy
  BY <1>5 DEF health
<1>7. Queued \subseteq Queued' /\ Queued' \subseteq Queued \cup {e} /\ e.id = r /\ e.kind = kind
  BY <1>5 DEF Event
<1> USE <1>1, <1>2 DEF Inv, runVars, writerVars
<1>8. \A x \in Requests : Event(x, "start") \in Queued' <=> Event(x, "start") \in Queued
  BY <1>7 DEF Event
<1>9. TypeOK'
  <2>1. queue' \in Seq(EventType) /\ Len(queue') <= EventSlots
    <3>1. EventSlots \in Nat
      BY AuditAssumption DEF EventSlots
    <3>2. queue \in Seq(EventType) /\ Len(queue) <= EventSlots
      BY DEF TypeOK, EventType
    <3>3. TrySendSucceeds => Len(queue) + 1 <= EventSlots
      BY <1>3, <3>1 DEF TrySendSucceeds
    <3> HIDE DEF e
    <3> QED BY <1>3, <1>5, <3>2, <3>3
  <2>2. phase' \in [Requests -> Phases] /\ sent' \in [Requests -> SUBSET Kinds]
    BY DEF TypeOK, Phases
  <2>3. healthy' \in BOOLEAN /\ notified' \in BOOLEAN
    BY <1>5 DEF TypeOK, health
  <2> QED BY <2>1, <2>2, <2>3 DEF TypeOK, EventType
<1>10. QueueInv'
  <2>1. Ordered(queue')
    BY <1>3, <1>5 DEF QueueInv
  <2>2. \A f \in Queued' : f.kind \in sent'[f.id]
    BY <1>7, QueuedType DEF QueueInv, TypeOK
  <2>3. \A x \in DOMAIN pending' : "start" \in sent'[x] /\ Event(x, "start") \notin Queued'
    BY <1>8 DEF QueueInv, TypeOK
  <2> QED BY <2>1, <2>2, <2>3 DEF QueueInv
<1>11. PermitInv'
  <2>1. PermitHolders = Reserving \cup Started(queue) \cup DOMAIN pending
    BY Holders DEF QueueInv
  <2>2. PermitHolders' = Reserving' \cup Started(queue') \cup DOMAIN pending'
    BY <1>9, <1>10, HoldersNext DEF QueueInv
  <2>3. Started(queue') = Started(queue)
    BY <1>8 DEF Started, Queued
  <2>4. Reserving' = Reserving
    BY DEF Reserving, TypeOK
  <2> QED BY <2>1, <2>2, <2>3, <2>4, SamePermits
<1>12. FailsOnlyWithTheWriter'
  BY <1>6 DEF FailsOnlyWithTheWriter, Working
<1>13. HeldInv'
  <2> SUFFICES ASSUME writer \in Working PROVE HeldInv'
    BY DEF HeldInv
  <2>1. \A x \in Requests : Held(x)' <=> Held(x)
    BY <1>8 DEF Held
  <2>2. Held(r) /\ \A f \in Queued : Held(f.id)
    BY DEF HeldInv
  <2>3. \A f \in Queued' : Held(f.id)'
    BY <1>7, <2>1, <2>2, QueuedType
  <2>4. ASSUME NEW x \in Requests, phase'[x] \in {"open", "routed", "failed", "answered"}
        PROVE  Held(x)'
    BY <2>1, <2>2, <2>4 DEF HeldInv, TypeOK
  <2> QED BY <2>3, <2>4 DEF HeldInv
<1>14. MergedInv'
  <2> SUFFICES ASSUME writer \in Working PROVE MergedInv'
    BY DEF MergedInv
  <2>1. ASSUME NEW x \in DOMAIN pending
        PROVE  /\ \A k \in Kinds \ {"start", "finish"} :
                    k \in sent'[x] <=> k \in pending[x] \/ Event(x, k) \in Queued'
               /\ pending[x] \cap {"start", "finish"} = {}
    BY <1>6, <2>1 DEF MergedInv, TypeOK, Event
  <2>2. ASSUME NEW x \in Requests, Event(x, "start") \in Queued', NEW k \in sent'[x]
        PROVE  Event(x, k) \in Queued'
    BY <1>6, <1>8, <2>2 DEF MergedInv, TypeOK, Event
  <2> QED BY <2>1, <2>2 DEF MergedInv
<1>15. RecordInv'
  <2>1. \A a \in written \cup flushed : a.id \in Requests /\ a.id # r
    BY DEF RecordInv, TypeOK, RecordType
  <2> QED BY <1>8, <2>1 DEF RecordInv, RecordsAreWhole, TypeOK
<1>16. KeptInv'
  <2>1. \A x \in Requests : Held(x)' <=> Held(x)
    BY <1>8 DEF Held
  <2>2. \A x \in Requests : sent'[x] # {} => sent[x] # {}
    BY DEF TypeOK
  <2>3. \A x \in Requests : Recorded(x)' <=> Recorded(x)
    BY DEF Recorded
  <2> QED BY <2>1, <2>2, <2>3 DEF KeptInv
<1>17. EndInv'
  BY <1>5 DEF EndInv, Ended, TypeOK, TrySendSucceeds, Connected
<1> QED BY <1>9, <1>10, <1>11, <1>12, <1>13, <1>14, <1>15, <1>16, <1>17

(* A request's own steps.                                                  *)
LEMMA HandlerStep ==
  ASSUME Inv, NEW r \in Requests, Runs(r) \/ Awaits(r)
  PROVE  Inv'
<1> USE DEF Kinds, SentInPhase, TypeOK
<1>1. CASE ReservePermit(r) \/ RecheckHealth(r) \/ SendStart(r)
  BY <1>1, ReservePermitStep, RecheckHealthStep, SendStartStep
<1>2. CASE Route(r)
  <2>1. "routed" \notin sent[r] /\ SentInPhase'
    BY <1>2 DEF Route, Report, Inv
  <2> QED BY <1>2, <2>1, ReportStep DEF Route
<1>3. CASE BackendRequestFails(r)
  <2>1. "error" \notin sent[r] /\ SentInPhase'
    BY <1>3 DEF BackendRequestFails, Report, Inv
  <2> QED BY <1>3, <2>1, ReportStep DEF BackendRequestFails
<1>4. CASE Abandon(r) \/ Finish(r)
  <2>1. "finish" \notin sent[r] /\ SentInPhase'
    BY <1>4 DEF Abandon, Finish, Report, Inv
  <2> QED BY <1>4, <2>1, ReportStep DEF Abandon, Finish
<1>5. CASE Respond(r)
  <2>1. "response" \notin sent[r] /\ SentInPhase'
    BY <1>5 DEF Respond, Report, Inv
  <2> QED BY <1>5, <2>1, ReportStep DEF Respond
<1> QED BY <1>1, <1>2, <1>3, <1>4, <1>5 DEF Runs, Awaits
-----------------------------------------------------------------------------
(* What the writer takes from the queue, whatever it does with it.         *)
LEMMA ReceiveFacts ==
  ASSUME Inv, HandleEvent
  PROVE  /\ queue' \in Seq(EventType) /\ Ordered(queue') /\ Len(queue') <= EventSlots
         /\ Head(queue) \in Queued /\ Queued' = Queued \ {Head(queue)}
         /\ Head(queue) = Event(Head(queue).id, Head(queue).kind)
         /\ Head(queue).id \in Requests /\ Head(queue).kind \in Kinds
         /\ \A f \in Queued' : f.id = Head(queue).id =>
                Head(queue).kind # "finish" /\ f.kind # "start"
         /\ Head(queue).kind # "start" => Head(queue).id \in DOMAIN pending
         /\ writer = "running" /\ UNCHANGED <<phase, sent, health, supervisor, outcome>>
<1> DEFINE e == Head(queue)
<1>1. queue \in Seq(EventType) /\ queue # <<>> /\ Ordered(queue) /\ queue' = Tail(queue)
  BY DEF HandleEvent, Inv, TypeOK, EventType, QueueInv
<1>2. /\ Ordered(queue') /\ e \in Queued /\ Queued' = Queued \ {e}
      /\ \A f \in Queued' : f.id = e.id => e.kind # "finish" /\ f.kind # "start"
  BY <1>1, OrderedTail DEF Queued
<1>3. queue' \in Seq(EventType) /\ Len(queue') <= EventSlots
  <2>1. EventSlots \in Nat /\ Len(queue) <= EventSlots
    BY AuditAssumption DEF EventSlots, Inv, TypeOK
  <2> QED BY <1>1, <2>1, TailFacts
<1>4. e = Event(e.id, e.kind) /\ e.id \in Requests /\ e.kind \in Kinds
  BY <1>2, QueuedType DEF Inv
<1>5. writer = "running" /\ UNCHANGED <<phase, sent, health, supervisor, outcome>>
  BY DEF HandleEvent, requestVars, runVars
<1>6. ASSUME e.kind # "start" PROVE e.id \in DOMAIN pending
  <2>1. Held(e.id)
    BY <1>2, <1>5 DEF Inv, HeldInv, Working
  <2>2. Event(e.id, "start") \in Queued => Event(e.id, "start") \in Queued'
    BY <1>2, <1>6 DEF Event
  <2>3. Event(e.id, "start") \notin Queued'
    BY <1>2 DEF Event
  <2> QED BY <2>1, <2>2, <2>3 DEF Held
<1> QED BY <1>2, <1>3, <1>4, <1>5, <1>6

(* The permit moves from the start event to the entry.                     *)
LEMMA HandleStartStep ==
  ASSUME Inv, HandleEvent, Head(queue).kind = "start"
  PROVE  Inv'
<1> DEFINE e == Head(queue)
           r == e.id
<1>1. HandleStart(r)
  BY DEF HandleEvent
<1>2. /\ queue' \in Seq(EventType) /\ Ordered(queue') /\ Len(queue') <= EventSlots
      /\ Event(r, "start") \in Queued /\ Queued' = Queued \ {Event(r, "start")} /\ r \in Requests
      /\ \A f \in Queued' : f.id = r => f.kind # "start"
      /\ writer = "running" /\ UNCHANGED <<phase, sent, health, supervisor, outcome>>
  BY ReceiveFacts
<1> HIDE DEF e, r
<1>3. /\ DOMAIN pending' = DOMAIN pending \cup {r} /\ pending'[r] = {}
      /\ \A x \in DOMAIN pending : x # r => pending'[x] = pending[x]
      /\ UNCHANGED <<admitted, writer, written, flushed>>
  BY <1>1 DEF HandleStart
<1>4. r \notin DOMAIN pending
  BY <1>2 DEF Inv, QueueInv
<1>5. \A x \in Requests : Held(x)' <=> Held(x)
  BY <1>2, <1>3 DEF Held, Event
<1> USE DEF Inv, health
<1>6. TypeOK'
  BY <1>2, <1>3 DEF TypeOK, EventType
<1>7. SentInPhase' /\ FailsOnlyWithTheWriter'
  BY <1>2, <1>3 DEF SentInPhase, FailsOnlyWithTheWriter
<1>8. QueueInv'
  <2>1. \A f \in Queued' : f.kind \in sent'[f.id]
    BY <1>2 DEF QueueInv
  <2>2. "start" \in sent[r]
    BY <1>2 DEF QueueInv, Event
  <2>3. \A x \in DOMAIN pending' : "start" \in sent'[x] /\ Event(x, "start") \notin Queued'
    BY <1>2, <1>3, <2>2 DEF QueueInv
  <2> QED BY <1>2, <2>1, <2>3 DEF QueueInv
<1>9. PermitInv'
  <2>1. PermitHolders = Reserving \cup Started(queue) \cup DOMAIN pending
    BY Holders DEF QueueInv
  <2>2. PermitHolders' = Reserving' \cup Started(queue') \cup DOMAIN pending'
    BY <1>6, <1>2, HoldersNext
  <2>3. Started(queue') = Started(queue) \ {r} /\ r \in Started(queue)
    BY <1>2 DEF Started, Queued, Event
  <2>4. Reserving' = Reserving
    BY <1>2 DEF Reserving
  <2>5. PermitHolders' = PermitHolders
    BY <1>3, <2>1, <2>2, <2>3, <2>4
  <2> QED BY <1>3, <2>5, SamePermits
<1>10. HeldInv'
  BY <1>2, <1>3, <1>5, QueuedType DEF HeldInv, Working
<1>11. MergedInv'
  <2>1. ASSUME NEW x \in DOMAIN pending'
        PROVE  /\ \A k \in Kinds \ {"start", "finish"} :
                    k \in sent'[x] <=> k \in pending'[x] \/ Event(x, k) \in Queued'
               /\ pending'[x] \cap {"start", "finish"} = {}
    <3>1. CASE x = r
      <4>1. \A k \in Kinds : k \in sent[r] <=> Event(r, k) \in Queued
        BY <1>2 DEF MergedInv, Working, QueueInv, Event
      <4> QED BY <1>2, <1>3, <3>1, <4>1 DEF Event
    <3>2. CASE x # r
      BY <1>2, <1>3, <2>1, <3>2 DEF MergedInv, Working, Event
    <3> QED BY <3>1, <3>2
  <2>2. ASSUME NEW x \in Requests, Event(x, "start") \in Queued', NEW k \in sent'[x]
        PROVE  Event(x, k) \in Queued'
    BY <1>2, <2>2 DEF MergedInv, Working, Event
  <2> QED BY <2>1, <2>2 DEF MergedInv
<1>12. RecordInv'
  <2>1. \A a \in written \cup flushed : a.id # r
    BY <1>2 DEF RecordInv
  <2> QED BY <1>2, <1>3, <2>1 DEF RecordInv, RecordsAreWhole
<1>13. KeptInv'
  BY <1>2, <1>3, <1>5 DEF KeptInv, Recorded
<1>14. EndInv'
  BY <1>2, <1>3 DEF EndInv, Ended
<1> QED BY <1>6, <1>7, <1>8, <1>9, <1>10, <1>11, <1>12, <1>13, <1>14

(* An event is merged in the entry, which is there.                        *)
LEMMA HandleDetailStep ==
  ASSUME Inv, HandleEvent, Head(queue).kind \notin {"start", "finish"}
  PROVE  Inv'
<1> DEFINE e == Head(queue)
           r == e.id
           kind == e.kind
<1>1. HandleDetail(r, kind)
  BY DEF HandleEvent
<1>2. /\ queue' \in Seq(EventType) /\ Ordered(queue') /\ Len(queue') <= EventSlots
      /\ Event(r, kind) \in Queued /\ Queued' = Queued \ {Event(r, kind)} /\ r \in Requests
      /\ kind \in Kinds \ {"start", "finish"} /\ r \in DOMAIN pending
      /\ writer = "running" /\ UNCHANGED <<phase, sent, health, supervisor, outcome>>
  BY ReceiveFacts
<1> HIDE DEF e, r, kind
<1>3. /\ DOMAIN pending' = DOMAIN pending /\ pending'[r] = pending[r] \cup {kind}
      /\ \A x \in DOMAIN pending : x # r => pending'[x] = pending[x]
      /\ UNCHANGED <<admitted, writer, written, flushed>>
  BY <1>1, <1>2 DEF HandleDetail
<1>4. \A x \in Requests : Event(x, "start") \in Queued' <=> Event(x, "start") \in Queued
  BY <1>2 DEF Event
<1>5. \A x \in Requests : Held(x)' <=> Held(x)
  BY <1>3, <1>4 DEF Held
<1> USE DEF Inv, health
<1>6. TypeOK'
  BY <1>2, <1>3 DEF TypeOK, EventType
<1>7. SentInPhase' /\ FailsOnlyWithTheWriter'
  BY <1>2, <1>3 DEF SentInPhase, FailsOnlyWithTheWriter
<1>8. QueueInv'
  BY <1>2, <1>3 DEF QueueInv
<1>9. PermitInv'
  <2>1. PermitHolders = Reserving \cup Started(queue) \cup DOMAIN pending
    BY Holders DEF QueueInv
  <2>2. PermitHolders' = Reserving' \cup Started(queue') \cup DOMAIN pending'
    BY <1>6, <1>2, HoldersNext
  <2>3. Started(queue') = Started(queue) /\ Reserving' = Reserving
    BY <1>2, <1>4 DEF Started, Queued, Reserving
  <2> QED BY <1>3, <2>1, <2>2, <2>3, SamePermits
<1>10. HeldInv'
  BY <1>2, <1>3, <1>5, QueuedType DEF HeldInv, Working
<1>11. MergedInv'
  <2>1. ASSUME NEW x \in DOMAIN pending'
        PROVE  /\ \A k \in Kinds \ {"start", "finish"} :
                    k \in sent'[x] <=> k \in pending'[x] \/ Event(x, k) \in Queued'
               /\ pending'[x] \cap {"start", "finish"} = {}
    <3>1. CASE x = r
      BY <1>2, <1>3, <3>1 DEF MergedInv, Working, Event
    <3>2. CASE x # r
      BY <1>2, <1>3, <2>1, <3>2 DEF MergedInv, Working, Event
    <3> QED BY <3>1, <3>2
  <2>2. ASSUME NEW x \in Requests, Event(x, "start") \in Queued', NEW k \in sent'[x]
        PROVE  Event(x, k) \in Queued'
    <3>1. x # r
      BY <1>2, <2>2 DEF QueueInv
    <3> QED BY <1>2, <2>2, <3>1 DEF MergedInv, Working, Event
  <2> QED BY <2>1, <2>2 DEF MergedInv
<1>12. RecordInv'
  BY <1>2, <1>3 DEF RecordInv, RecordsAreWhole
<1>13. KeptInv'
  BY <1>2, <1>3, <1>5 DEF KeptInv, Recorded
<1>14. EndInv'
  BY <1>2, <1>3 DEF EndInv, Ended
<1> QED BY <1>6, <1>7, <1>8, <1>9, <1>10, <1>11, <1>12, <1>13, <1>14
(* The entry becomes a record, with all that was reported; the permit is   *)
(* free, and no event of the request is left.                              *)
LEMMA HandleFinishStep ==
  ASSUME Inv, HandleEvent, Head(queue).kind = "finish"
  PROVE  Inv'
<1> DEFINE e == Head(queue)
           r == e.id
           record == [id |-> r, saw |-> pending[r]]
<1>1. HandleFinish(r)
  BY DEF HandleEvent
<1>2. /\ queue' \in Seq(EventType) /\ Ordered(queue') /\ Len(queue') <= EventSlots
      /\ Event(r, "finish") \in Queued /\ Queued' = Queued \ {Event(r, "finish")} /\ r \in Requests
      /\ \A f \in Queued' : f.id # r
      /\ r \in DOMAIN pending
      /\ writer = "running" /\ UNCHANGED <<phase, sent, health, supervisor, outcome>>
  BY ReceiveFacts
<1> HIDE DEF e, r
<1>3. /\ DOMAIN pending' = DOMAIN pending \ {r}
      /\ \A x \in DOMAIN pending' : pending'[x] = pending[x]
      /\ admitted' = admitted - 1 /\ flushed' = flushed
      /\ \/ written' = written \cup {record} /\ writer' = "running"
         \/ writer' = "unwinding" /\ written' = written
  BY <1>1, <1>2 DEF HandleFinish, Without
<1>4. \A x \in Requests : Event(x, "start") \in Queued' <=> Event(x, "start") \in Queued
  BY <1>2 DEF Event
<1>5. phase[r] = "done" /\ Event(r, "start") \notin Queued /\ "start" \in sent[r]
  <2>1. "finish" \in sent[r]
    BY <1>2 DEF Inv, QueueInv, Event
  <2>2. phase[r] = "done"
    BY <1>2, <2>1 DEF Inv, SentInPhase, TypeOK, Phases
  <2> QED BY <1>2, <2>2 DEF Inv, QueueInv
<1>6. \A x \in Requests : Held(x)' <=> Held(x) /\ x # r
  BY <1>3, <1>4, <1>5 DEF Held
<1>7. record.saw = sent[r] \ {"start", "finish"} /\ record.id = r
  <2>1. \A k \in Kinds \ {"start", "finish"} : Event(r, k) \notin Queued
    BY <1>2 DEF Event
  <2>2. \A k \in Kinds \ {"start", "finish"} : k \in sent[r] <=> k \in pending[r]
    BY <1>2, <2>1 DEF Inv, MergedInv, Working
  <2>3. pending[r] \cap {"start", "finish"} = {} /\ pending[r] \subseteq Kinds /\ sent[r] \subseteq Kinds
    BY <1>2 DEF Inv, MergedInv, Working, TypeOK
  <2> QED BY <2>2, <2>3
<1>8. r \in PermitHolders /\ admitted >= 1
  <2>1. r \in PermitHolders
    BY <1>2 DEF PermitHolders
  <2> QED BY <2>1, CountedPermits DEF Inv
<1> USE DEF Inv, health
<1>9. TypeOK'
  <2>1. admitted' \in 0..RequestSlots
    BY <1>3, <1>8, AuditAssumption DEF TypeOK
  <2>2. record \in RecordType
    BY <1>2 DEF TypeOK, RecordType
  <2>3. written' \subseteq RecordType
    BY <1>3, <2>2 DEF TypeOK
  <2> QED BY <1>2, <1>3, <2>1, <2>3 DEF TypeOK, EventType
<1> HIDE DEF record
<1>10. SentInPhase' /\ FailsOnlyWithTheWriter'
  BY <1>2, <1>3 DEF SentInPhase, FailsOnlyWithTheWriter
<1>11. QueueInv'
  BY <1>2, <1>3 DEF QueueInv
<1>12. PermitInv'
  <2>1. PermitHolders = Reserving \cup Started(queue) \cup DOMAIN pending
    BY Holders DEF QueueInv
  <2>2. PermitHolders' = Reserving' \cup Started(queue') \cup DOMAIN pending'
    BY <1>9, <1>2, HoldersNext
  <2>3. Started(queue') = Started(queue) /\ Reserving' = Reserving
    BY <1>2, <1>4 DEF Started, Queued, Reserving
  <2>4. r \notin Started(queue) /\ r \notin Reserving
    BY <1>5 DEF Started, Queued, Reserving
  <2>5. PermitHolders' = PermitHolders \ {r}
    BY <1>3, <2>1, <2>2, <2>3, <2>4
  <2> QED BY <1>3, <1>8, <2>5, PermitFreed
<1>13. HeldInv'
  <2>1. \A f \in Queued' : Held(f.id)'
    BY <1>2, <1>6, QueuedType DEF HeldInv, Working
  <2>2. \A x \in Requests : phase'[x] \in {"open", "routed", "failed", "answered"} => Held(x)'
    BY <1>2, <1>5, <1>6 DEF HeldInv, Working
  <2> QED BY <2>1, <2>2 DEF HeldInv
<1>14. MergedInv'
  <2>1. ASSUME NEW x \in DOMAIN pending'
        PROVE  /\ \A k \in Kinds \ {"start", "finish"} :
                    k \in sent'[x] <=> k \in pending'[x] \/ Event(x, k) \in Queued'
               /\ pending'[x] \cap {"start", "finish"} = {}
    BY <1>2, <1>3, <2>1 DEF MergedInv, Working, Event
  <2>2. ASSUME NEW x \in Requests, Event(x, "start") \in Queued', NEW k \in sent'[x]
        PROVE  Event(x, k) \in Queued'
    <3>1. x # r
      BY <1>4, <1>5, <2>2
    <3> QED BY <1>2, <2>2, <3>1 DEF MergedInv, Working, Event
  <2> QED BY <2>1, <2>2 DEF MergedInv
<1>15. RecordInv'
  <2>1. \A a \in written \cup flushed : a.id # r
    BY <1>2 DEF RecordInv
  <2>2. \A a \in written' \cup flushed' : a \in written \cup flushed \/ a = record
    BY <1>3
  <2>3. written' \cap flushed' = {}
    BY <1>3, <1>7, <2>1 DEF RecordInv, RecordsAreWhole
  <2>4. \A a \in written \cup flushed \cup {record} :
            /\ phase[a.id] = "done" /\ a.id \notin DOMAIN pending' /\ Event(a.id, "start") \notin Queued'
            /\ a.saw = sent[a.id] \ {"start", "finish"}
    BY <1>2, <1>3, <1>5, <1>7 DEF RecordInv, RecordsAreWhole
  <2> QED BY <1>2, <2>2, <2>3, <2>4 DEF RecordInv, RecordsAreWhole
<1>16. KeptInv'
  <2>1. writer' = "running" => \A x \in Requests : Recorded(x)' <=> Recorded(x) \/ x = r
    BY <1>3, <1>7 DEF Recorded
  <2> QED BY <1>2, <1>3, <1>6, <2>1 DEF KeptInv
<1>17. EndInv'
  BY <1>2, <1>3 DEF EndInv, Ended
<1> QED BY <1>9, <1>10, <1>11, <1>12, <1>13, <1>14, <1>15, <1>16, <1>17

(* handle_event.                                                           *)
LEMMA HandleEventStep ==
  ASSUME Inv, HandleEvent
  PROVE  Inv'
  BY HandleStartStep, HandleDetailStep, HandleFinishStep
(* and when several holders go at once.                                    *)
LEMMA PermitsFreed ==
  ASSUME PermitInv, NEW D \in SUBSET PermitHolders, PermitHolders' = PermitHolders \ D,
         admitted' = admitted - Cardinality(D)
  PROVE  PermitInv' /\ admitted' \in Nat /\ admitted' <= admitted
<1>1. IsFiniteSet(PermitHolders) /\ admitted = Cardinality(PermitHolders) /\ admitted \in Nat
  BY CountedPermits
<1>2. PermitHolders \cap D = D /\ IsFiniteSet(D) /\ Cardinality(D) <= admitted
  BY <1>1, FS_Subset
<1>3. IsFiniteSet(PermitHolders \ D) /\ Cardinality(PermitHolders \ D) = admitted - Cardinality(D)
  BY <1>1, <1>2, FS_Difference
<1>4. Cardinality(D) \in Nat
  BY <1>2, FS_CardinalityType
<1> QED BY <1>1, <1>2, <1>3, <1>4 DEF PermitInv, PermitsBalance

(* Steps that touch neither requests, queue, map nor permits.              *)
LEMMA WriterOnly ==
  ASSUME Inv, UNCHANGED <<phase, sent, admitted, queue, pending>>, TypeOK',
         writer' \in Working => writer \in Working,
         FailsOnlyWithTheWriter'
  PROVE  /\ SentInPhase' /\ QueueInv' /\ PermitInv' /\ HeldInv' /\ MergedInv'
         /\ Queued' = Queued /\ \A r \in Requests : Held(r)' <=> Held(r)
<1> USE DEF Inv
<1>1. Queued' = Queued /\ \A r \in Requests : Held(r)' <=> Held(r)
  BY DEF Queued, Held
<1>2. SentInPhase' /\ QueueInv'
  BY <1>1 DEF SentInPhase, QueueInv
<1>3. PermitInv'
  BY DEF PermitInv, PermitsBalance, PermitHolders
<1>4. HeldInv'
  BY <1>1, QueuedType DEF HeldInv
<1>5. MergedInv'
  BY <1>1 DEF MergedInv
<1> QED BY <1>1, <1>2, <1>3, <1>4, <1>5

(* A write that hangs.                                                     *)
LEMMA WedgeStep ==
  ASSUME Inv, Wedge
  PROVE  Inv'
<1> USE DEF Wedge, requestVars, health, runVars
<1>1. TypeOK' /\ FailsOnlyWithTheWriter'
  BY DEF Inv, TypeOK, FailsOnlyWithTheWriter
<1>2. SentInPhase' /\ QueueInv' /\ PermitInv' /\ HeldInv' /\ MergedInv'
      /\ Queued' = Queued /\ \A r \in Requests : Held(r)' <=> Held(r)
  BY <1>1, WriterOnly DEF Working
<1>3. RecordInv' /\ KeptInv' /\ EndInv'
  BY <1>2 DEF Inv, RecordInv, RecordsAreWhole, KeptInv, Recorded, EndInv, Ended
<1> QED BY <1>1, <1>2, <1>3 DEF Inv

(* The buffer is flushed, or the flush fails.                              *)
LEMMA FlushStep ==
  ASSUME Inv, Flush
  PROVE  Inv'
<1> USE DEF Flush, requestVars, health, runVars
<1>1. TypeOK' /\ FailsOnlyWithTheWriter'
  BY DEF Inv, TypeOK, FailsOnlyWithTheWriter
<1>2. SentInPhase' /\ QueueInv' /\ PermitInv' /\ HeldInv' /\ MergedInv'
      /\ Queued' = Queued /\ \A r \in Requests : Held(r)' <=> Held(r)
  BY <1>1, WriterOnly DEF Working
<1>3. written' \cup flushed' = written \cup flushed /\ written' \cap flushed' = {}
  BY DEF Inv, RecordInv, RecordsAreWhole
<1>4. RecordInv'
  BY <1>2, <1>3 DEF Inv, RecordInv, RecordsAreWhole
<1>5. KeptInv' /\ EndInv'
  BY <1>2, <1>3 DEF Inv, KeptInv, Recorded, EndInv, Ended
<1> QED BY <1>1, <1>2, <1>4, <1>5 DEF Inv

(* The last flush.                                                         *)
LEMMA DisconnectStep ==
  ASSUME Inv, Disconnect
  PROVE  Inv'
<1> USE DEF Disconnect, requestVars, health, runVars
<1>1. CASE writer' = "unwinding" /\ UNCHANGED <<pending, written, flushed, admitted>>
  <2>1. TypeOK' /\ FailsOnlyWithTheWriter'
    BY <1>1 DEF Inv, TypeOK, FailsOnlyWithTheWriter
  <2>2. SentInPhase' /\ QueueInv' /\ PermitInv' /\ HeldInv' /\ MergedInv'
        /\ Queued' = Queued /\ \A r \in Requests : Held(r)' <=> Held(r)
    BY <1>1, <2>1, WriterOnly DEF Working
  <2>3. RecordInv' /\ KeptInv' /\ EndInv'
    BY <1>1, <2>2 DEF Inv, RecordInv, RecordsAreWhole, KeptInv, Recorded, EndInv, Ended
  <2> QED BY <2>1, <2>2, <2>3 DEF Inv
<1>2. CASE writer' = "stopped"
  <2> DEFINE left == {[id |-> r, saw |-> pending[r]] : r \in DOMAIN pending}
  <2>1. /\ flushed' = flushed \cup written \cup left /\ written' = {} /\ DOMAIN pending' = {}
        /\ admitted' = admitted - Cardinality(DOMAIN pending)
        /\ UNCHANGED <<phase, sent, queue, healthy, notified, supervisor, outcome>>
        /\ writer = "running" /\ queue = <<>> /\ supervisor = "joining"
    BY <1>2 DEF NoEntries
  <2>2. Queued = {} /\ Queued' = {} /\ \A r \in Requests : Event(r, "start") \notin EventsOf(queue)
    BY <2>1 DEF Queued, EventsOf
  <2>3. \A r \in Requests : Ended(r)
    BY <2>1 DEF Inv, EndInv
  <2>4. ASSUME NEW r \in DOMAIN pending
        PROVE  /\ r \in Requests /\ phase[r] = "done" /\ ~Recorded(r)
               /\ pending[r] = sent[r] \ {"start", "finish"}
    <3>1. r \in Requests /\ "start" \in sent[r] /\ pending[r] \subseteq Kinds /\ sent[r] \subseteq Kinds
      BY <2>4 DEF Inv, TypeOK, QueueInv
    <3>2. phase[r] = "done"
      BY <2>3, <3>1 DEF Ended, Inv, SentInPhase
    <3>3. /\ pending[r] \cap {"start", "finish"} = {}
          /\ \A k \in Kinds \ {"start", "finish"} : k \in sent[r] <=> k \in pending[r]
      BY <2>1, <2>2, <2>4 DEF Inv, MergedInv, Working
    <3>4. ~Recorded(r)
      BY <2>4 DEF Inv, RecordInv, Recorded
    <3> QED BY <3>1, <3>2, <3>3, <3>4
  <2>5. \A a \in left : a.id \in DOMAIN pending /\ a.saw = pending[a.id] /\ a = [id |-> a.id, saw |-> a.saw]
    OBVIOUS
  <2>6. ASSUME NEW r \in DOMAIN pending PROVE \E a \in left : a.id = r
    <3>1. [id |-> r, saw |-> pending[r]] \in left
      OBVIOUS
    <3> QED BY <3>1
  <2>7. left \subseteq RecordType
    BY <2>4, <2>5 DEF RecordType, Inv, TypeOK
  <2> HIDE DEF left
  <2>8. PermitInv' /\ admitted' \in 0..RequestSlots
    <3>1. PermitHolders = Reserving \cup Started(queue) \cup DOMAIN pending
      BY Holders DEF Inv, QueueInv
    <3>2. Reserving = {} /\ Started(queue) = {}
      BY <2>2, <2>3 DEF Reserving, Started, Ended
    <3>3. PermitHolders' = {}
      <4>1. \A r \in Requests : phase'[r] \notin {"reserved", "vetted"}
        BY <2>1, <2>3 DEF Ended
      <4> QED BY <2>1, <4>1 DEF PermitHolders
    <3>4. PermitHolders' = PermitHolders \ DOMAIN pending
      BY <3>1, <3>2, <3>3
    <3>5. PermitInv' /\ admitted' \in Nat /\ admitted' <= admitted
      BY <2>1, <3>1, <3>4, PermitsFreed DEF Inv
    <3> QED BY <3>5, AuditAssumption DEF Inv, TypeOK
  <2>9. TypeOK'
    BY <1>2, <2>1, <2>7, <2>8 DEF Inv, TypeOK
  <2>10. SentInPhase' /\ QueueInv' /\ FailsOnlyWithTheWriter' /\ HeldInv' /\ MergedInv'
    BY <1>2, <2>1, <2>2 DEF Inv, SentInPhase, QueueInv, FailsOnlyWithTheWriter, HeldInv, MergedInv, Working
  <2>11. RecordInv'
    <3>1. \A a \in written \cup flushed \cup left :
            phase[a.id] = "done" /\ a.saw = sent[a.id] \ {"start", "finish"}
      BY <2>4, <2>5 DEF Inv, RecordInv, RecordsAreWhole
    <3> QED BY <2>1, <2>2, <3>1 DEF RecordInv, RecordsAreWhole
  <2>12. KeptInv'
    <3>1. ASSUME NEW r \in Requests, phase[r] = "done" PROVE \E a \in flushed' : a.id = r
      <4>1. Held(r) \/ Recorded(r)
        BY <2>1, <3>1 DEF Inv, KeptInv, SentInPhase
      <4> QED BY <2>1, <2>2, <2>6, <4>1 DEF Held, Recorded
    <3> QED BY <1>2, <2>1, <3>1 DEF KeptInv
  <2>13. EndInv'
    BY <1>2, <2>1, <2>3 DEF Inv, EndInv, Ended
  <2> QED BY <2>8, <2>9, <2>10, <2>11, <2>12, <2>13 DEF Inv
<1> QED BY <1>1, <1>2

(* The writer's map goes, with its permits.                                *)
LEMMA DropPendingStep ==
  ASSUME Inv, DropPending
  PROVE  Inv'
<1>1. /\ DOMAIN pending' = {} /\ admitted' = admitted - Cardinality(DOMAIN pending)
      /\ writer' = "closing"
      /\ UNCHANGED <<phase, sent, queue, healthy, notified, supervisor, outcome, written, flushed>>
  BY DEF DropPending, NoEntries, requestVars, health, runVars
<1>2. Queued' = Queued
  BY <1>1 DEF Queued
<1>3. PermitInv' /\ admitted' \in 0..RequestSlots
  <2>1. PermitHolders = Reserving \cup Started(queue) \cup DOMAIN pending
    BY Holders DEF Inv, QueueInv
  <2>2. PermitHolders' = Reserving \cup Started(queue)
    <3>1. queue \in Seq(EventType) /\ Ordered(queue)
      BY DEF Inv, TypeOK, EventType, QueueInv
    <3> QED BY <1>1, <3>1, StartEvents DEF PermitHolders, Reserving
  <2>3. ASSUME NEW r \in DOMAIN pending PROVE r \notin Reserving /\ r \notin Started(queue)
    BY <2>3 DEF Inv, QueueInv, SentInPhase, Reserving, Started, Queued
  <2>4. PermitHolders' = PermitHolders \ DOMAIN pending
    BY <2>1, <2>2, <2>3
  <2>5. PermitInv' /\ admitted' \in Nat /\ admitted' <= admitted
    BY <1>1, <2>1, <2>4, PermitsFreed DEF Inv
  <2> QED BY <2>5, AuditAssumption DEF Inv, TypeOK
<1>4. TypeOK'
  BY <1>1, <1>3 DEF Inv, TypeOK
<1>5. SentInPhase' /\ QueueInv' /\ FailsOnlyWithTheWriter' /\ HeldInv' /\ MergedInv'
  BY <1>1, <1>2 DEF Inv, SentInPhase, QueueInv, FailsOnlyWithTheWriter, HeldInv, MergedInv, Working
<1>6. RecordInv' /\ KeptInv' /\ EndInv'
  BY <1>1, <1>2 DEF Inv, RecordInv, RecordsAreWhole, KeptInv, EndInv, Ended, DropPending
<1> QED BY <1>3, <1>4, <1>5, <1>6 DEF Inv

(* The channel goes, with the permits of its start events.                 *)
LEMMA DropReceiverStep ==
  ASSUME Inv, DropReceiver
  PROVE  Inv'
<1>1. /\ queue' = <<>> /\ writer = "closing" /\ writer' = "gone"
      /\ admitted' = admitted - Cardinality({i \in DOMAIN queue : queue[i].kind = "start"})
      /\ UNCHANGED <<phase, sent, healthy, notified, supervisor, outcome, pending, written, flushed>>
  BY DEF DropReceiver, requestVars, health, runVars
<1>2. Queued' = {} /\ DOMAIN pending = {} /\ Ordered(queue')
  BY <1>1 DEF Queued, EventsOf, Inv, EndInv, Ordered
<1>3. PermitInv' /\ admitted' \in 0..RequestSlots
  <2>1. PermitHolders = Reserving \cup Started(queue)
    BY <1>2, Holders DEF Inv, QueueInv
  <2>2. PermitHolders' = Reserving
    BY <1>1, <1>2 DEF PermitHolders, Reserving
  <2>3. ASSUME NEW r \in Started(queue) PROVE r \notin Reserving
    BY <2>3 DEF Inv, QueueInv, SentInPhase, Reserving, Started, Queued, Event
  <2>4. PermitHolders' = PermitHolders \ Started(queue)
    BY <2>1, <2>2, <2>3
  <2>5. admitted' = admitted - Cardinality(Started(queue))
    <3>1. queue \in Seq(EventType) /\ Ordered(queue)
      BY DEF Inv, TypeOK, EventType, QueueInv
    <3> QED BY <1>1, <3>1, StartEvents
  <2>6. PermitInv' /\ admitted' \in Nat /\ admitted' <= admitted
    BY <2>1, <2>4, <2>5, PermitsFreed DEF Inv
  <2> QED BY <2>6, AuditAssumption DEF Inv, TypeOK
<1>4. TypeOK'
  <2>1. Len(queue') <= EventSlots /\ queue' \in Seq([id : Requests, kind : Kinds])
    <3>1. EventSlots \in Nat
      BY AuditAssumption DEF EventSlots
    <3> QED BY <1>1, <3>1
  <2> QED BY <1>1, <1>3, <2>1 DEF Inv, TypeOK
<1>5. SentInPhase' /\ QueueInv' /\ FailsOnlyWithTheWriter' /\ HeldInv' /\ MergedInv'
  BY <1>1, <1>2 DEF Inv, SentInPhase, QueueInv, FailsOnlyWithTheWriter, HeldInv, MergedInv, Working
<1>6. RecordInv' /\ KeptInv' /\ EndInv'
  BY <1>1, <1>2 DEF Inv, RecordInv, RecordsAreWhole, KeptInv, EndInv, Ended
<1> QED BY <1>3, <1>4, <1>5, <1>6 DEF Inv

(* The steps of run(), and the health guard.                               *)
LEMMA RunStep ==
  ASSUME Inv, DropHealthGuard \/ Supervise \/ Shutdown
  PROVE  Inv'
<1>1. UNCHANGED <<phase, sent, admitted, queue, writer, pending, written, flushed>>
  BY DEF DropHealthGuard, Supervise, Shutdown, CheckWriter, WakeSupervisor, GraceExpires,
         ConnectionsClosed, Join, requestVars, writerVars
<1>2. /\ supervisor' \in {"check", "await", "stopping", "aborting", "joining", "exited"}
      /\ outcome' \in {"ok", "error"} /\ healthy' \in BOOLEAN /\ notified' \in BOOLEAN
  BY DEF DropHealthGuard, Supervise, Shutdown, CheckWriter, WakeSupervisor, GraceExpires,
         ConnectionsClosed, Join, health, runVars, MarkFailed, Inv, TypeOK
<1>3. TypeOK'
  BY <1>1, <1>2 DEF Inv, TypeOK
<1>4. FailsOnlyWithTheWriter'
  BY <1>1 DEF DropHealthGuard, Supervise, Shutdown, CheckWriter, WakeSupervisor, GraceExpires,
         ConnectionsClosed, Join, health, runVars, MarkFailed, Inv, FailsOnlyWithTheWriter
<1>5. SentInPhase' /\ QueueInv' /\ PermitInv' /\ HeldInv' /\ MergedInv'
      /\ Queued' = Queued /\ \A r \in Requests : Held(r)' <=> Held(r)
  BY <1>1, <1>3, <1>4, WriterOnly
<1>6. RecordInv' /\ KeptInv'
  BY <1>1, <1>5 DEF Inv, RecordInv, RecordsAreWhole, KeptInv, Recorded
<1>7. EndInv'
  BY <1>1 DEF DropHealthGuard, Supervise, Shutdown, CheckWriter, WakeSupervisor, GraceExpires,
         ConnectionsClosed, Join, runVars, Inv, EndInv, Ended
<1> QED BY <1>3, <1>4, <1>5, <1>6, <1>7 DEF Inv

(* Every step keeps the invariant.                                         *)
LEMMA NextKeepsInv == Inv /\ [Next]_vars => Inv'
<1> SUFFICES ASSUME Inv, [Next]_vars PROVE Inv'
  OBVIOUS
<1>1. CASE UNCHANGED vars
  <2> USE <1>1 DEF vars, requestVars, health, runVars, writerVars
  <2>1. TypeOK' /\ FailsOnlyWithTheWriter'
    BY DEF Inv, TypeOK, FailsOnlyWithTheWriter
  <2>2. SentInPhase' /\ QueueInv' /\ PermitInv' /\ HeldInv' /\ MergedInv'
        /\ Queued' = Queued /\ \A r \in Requests : Held(r)' <=> Held(r)
    BY <2>1, WriterOnly
  <2>3. RecordInv' /\ KeptInv' /\ EndInv'
    BY <2>2 DEF Inv, RecordInv, RecordsAreWhole, KeptInv, Recorded, EndInv, Ended
  <2> QED BY <2>1, <2>2, <2>3 DEF Inv
<1>2. ASSUME NEW r \in Requests, CheckHealth(r) \/ Runs(r) \/ Awaits(r) PROVE Inv'
  BY <1>2, CheckHealthStep, HandlerStep
<1>3. CASE Writer \/ Flush \/ Wedge
  BY <1>3, HandleEventStep, DisconnectStep, DropPendingStep, DropReceiverStep, RunStep,
     FlushStep, WedgeStep DEF Writer
<1>4. CASE Supervise \/ Shutdown
  BY <1>4, RunStep
<1> QED BY <1>1, <1>2, <1>3, <1>4 DEF Next

(* The invariant holds of every reachable state.                           *)
THEOREM AuditInvariant == Spec => []Inv
  BY InitInv, NextKeepsInv, PTL DEF Spec

(* The admission counter stays within AUDIT_REQUEST_SLOTS and the channel  *)
(* within its capacity, for any number of requests and slots.              *)
THEOREM TypesHold == Spec => []TypeOK
<1>1. Inv => TypeOK
  BY DEF Inv
<1> QED BY <1>1, AuditInvariant, PTL

(* AuditPermit: the counter is exactly the number of permits held,         *)
(* whatever request_started, the writer and its failure do to them.        *)
THEOREM PermitsAreCounted == Spec => []PermitsBalance
<1>1. Inv => PermitsBalance
  BY DEF Inv, PermitInv
<1> QED BY <1>1, AuditInvariant, PTL

(* The sizing rule of the channel, AUDIT_REQUEST_SLOTS times               *)
(* MAX_EVENTS_PER_REQUEST, is right: the log never fails for a full        *)
(* channel before the writer begins to drop what it holds.                 *)
THEOREM ChannelHoldsEveryEvent == Spec => []FailsOnlyWithTheWriter
<1>1. Inv => FailsOnlyWithTheWriter
  BY DEF Inv
<1> QED BY <1>1, AuditInvariant, PTL

(* handle_event: a record that is written holds everything its request has *)
(* reported, and is written once.                                          *)
THEOREM RecordsHoldEverything == Spec => []RecordsAreWhole
<1>1. Inv => RecordsAreWhole
  BY DEF Inv, RecordInv
<1> QED BY <1>1, AuditInvariant, PTL

(* run() returns no error only when every request that was admitted is in  *)
(* the file.                                                               *)
THEOREM CleanExitLosesNothing == Spec => []NothingLostAtExit
<1>1. Inv => NothingLostAtExit
  BY DEF Inv, KeptInv, EndInv, NothingLostAtExit
<1> QED BY <1>1, AuditInvariant, PTL
=============================================================================

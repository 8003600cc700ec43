------------------------- MODULE CollectorRuntime_proof -------------------------
(***************************************************************************)
(* Proofs about the Collector's loop, for any number of sources, batch     *)
(* size, capacity and faults.  The pipeline - what was read and not yet    *)
(* published, in the order it will leave - changes in four ways only: it   *)
(* grows at its end (a poll), loses the publication at its front, is       *)
(* emptied (a restart), or a late refusal moves one record back in it.     *)
(* Every other step leaves it equal while its records pass from one        *)
(* container to the next.                                                  *)
(***************************************************************************)
EXTENDS CollectorRuntime, SequenceTheorems, WellFoundedInduction, TLAPS

Item == [src : Source, pos : Nat \ {0}, class : {"event", "refused", "unrepresentable"}]
Queued == {x \in Item : x.class # "refused"}
Event == {x \in Item : x.class = "event"}

TypeOK ==
  /\ phase \in {"down", "starting", "running", "stopping", "stopped", "failed"}
  /\ pc \in {"idle", "publish", "process", "sources", "drain", "reject", "refuse", "dwell",
             "flush", "stop", "started"}
  /\ ret \in {"idle", "process", "drain", "refuse", "reject", "stop", "started"}
  /\ drainFor \in {"poll", "room", "rejection", "shutdown"}
  /\ after \in Nat
  /\ buffered \in Seq(Item) /\ queue \in Seq(Queued) /\ batch \in Seq(Event)
  /\ deferred \in Seq(Queued) /\ Len(deferred) <= 1
  /\ pending \in [kind : {"none", "batch", "rejection"}, items : Seq(Item)]
  /\ pending.kind = "none" => pending = Nothing
  /\ sealed \in BOOLEAN /\ late \in BOOLEAN
  /\ read \in [Source -> Nat] /\ committed \in [Source -> Nat]
  /\ delivered \subseteq Source \X Nat
  /\ faults \in Nat

Rest == batch \o (Waiting \o buffered)

\* At step l, or publishing on the way to it.
At(l) == pc = l \/ (pc = "publish" /\ ret = l)

\* Where the loop is, what it may hold there.
Control ==
  /\ pc = "publish" => pending # Nothing
  /\ pending # Nothing => pc \in {"publish", "idle"}
  /\ sealed => pending # Nothing
  /\ phase \in {"down", "stopped", "failed"} => pc = "idle"
  /\ phase = "starting" => At("started") /\ Rest = <<>>
  /\ Running => ~At("started")

\* What drain_queue was called for.
Draining ==
  /\ At("refuse") => late /\ deferred # <<>> /\ batch = <<>>
  /\ pc = "sources" => buffered = <<>>
  /\ pc = "dwell" => drainFor = "poll"
  /\ At("reject") => drainFor = "rejection" /\ batch = <<>>
  /\ At("stop") => drainFor = "shutdown" /\ batch = <<>>
  /\ drainFor = "rejection" /\ (At("drain") \/ At("refuse") \/ At("flush") \/ At("reject")) =>
       buffered # <<>> /\ Head(buffered).class = "refused"
  /\ drainFor = "rejection" /\ (At("flush") \/ At("reject")) =>
       /\ late \/ Waiting = <<>>
       /\ \A x \in Range(Waiting) : x.src = Head(buffered).src => Head(buffered).pos < x.pos
  /\ drainFor = "shutdown" /\ (At("drain") \/ At("refuse")) => buffered = <<>>
  /\ drainFor = "shutdown" /\ (At("flush") \/ At("stop")) =>
       /\ late \/ (buffered = <<>> /\ Waiting = <<>>)
       /\ \A x \in Range(buffered) : x.pos > committed[x.src]
       /\ batch # <<>> \/ pc = "publish" => buffered = <<>>

\* A record is before each later one of its source, except that one refused
\* late may be anywhere.
Sorted(items, lax) ==
  \A i, j \in 1..Len(items) :
    i < j /\ items[i].src = items[j].src /\ (lax => items[j].class # "refused") =>
      items[i].pos < items[j].pos

\* What is in memory of a running Collector.
Order ==
  /\ Sorted(Pipeline, late)
  /\ \A r \in Records(Pipeline) : r[2] <= read[r[1]]
  /\ \A s \in Source : committed[s] <= read[s]
  /\ \A s \in Source : \A k \in Nat :
       committed[s] < k /\ k <= read[s] => <<s, k>> \in Records(Pipeline)
  /\ \A x \in Range(Rest) : (late => x.class # "refused") => x.pos > committed[x.src]
  /\ ~late => \A r \in Records(Pipeline) : \A k \in Nat :
       r[2] < k /\ k <= read[r[1]] => <<r[1], k>> \in Records(Pipeline)
  /\ ~late \/ faults = 0 => \A s \in Source : \A k \in Nat \ {0} :
       k <= read[s] => <<s, k>> \in delivered \cup Records(Pipeline)

\* What is being published, also after a crash.
Publication ==
  /\ Sorted(pending.items, FALSE)
  /\ ~late => \A r \in Records(pending.items) : \A k \in Nat \ {0} :
       k <= r[2] => <<r[1], k>> \in delivered \cup Records(pending.items)
  /\ ~late => ~Regresses(pending.items)

Stuck == sealed /\ Regresses(pending.items)

Committed == \A s \in Source : \A k \in Nat \ {0} : k <= committed[s] => <<s, k>> \in delivered

\* Checkpoints, and what an exit leaves.
Left ==
  /\ ~late => Committed
  /\ faults = 0 /\ ~Running /\ ~Stuck => pending = Nothing /\ Committed
  /\ phase = "stopped" =>
       /\ pending = Nothing
       /\ \A s \in Source : committed[s] = read[s]
       /\ ~late \/ faults = 0 => Committed
  /\ phase = "failed" /\ ~late => faults > 0

LoopInv == TypeOK /\ Control /\ Draining /\ (Running => Order) /\ Publication /\ Left
-----------------------------------------------------------------------------
(* Sequences of records.                                                   *)

LEMMA QueuedAreItems ==
  /\ \A q : q \in Seq(Queued) => q \in Seq(Item) /\ \A x \in Range(q) : x.class # "refused"
  /\ \A q : q \in Seq(Event) => q \in Seq(Queued) /\ \A x \in Range(q) : x.class = "event"
<1>1. Queued \subseteq Item /\ Event \subseteq Queued
  BY DEF Queued, Event
<1>2. ASSUME NEW q, q \in Seq(Queued)
      PROVE  q \in Seq(Item) /\ \A x \in Range(q) : x.class # "refused"
  <2>1. q \in Seq(Item)
    BY <1>1, <1>2, SeqMonotonic
  <2>2. \A i \in DOMAIN q : q[i] \in Queued
    BY <1>2
  <2> QED  BY <2>1, <2>2 DEF Range, Queued
<1>3. ASSUME NEW q, q \in Seq(Event)
      PROVE  q \in Seq(Queued) /\ \A x \in Range(q) : x.class = "event"
  <2>1. q \in Seq(Queued)
    BY <1>1, <1>3, SeqMonotonic
  <2>2. \A i \in DOMAIN q : q[i] \in Event
    BY <1>3
  <2> QED  BY <2>1, <2>2 DEF Range, Event
<1> QED  BY <1>2, <1>3

LEMMA Elements ==
  ASSUME NEW P \in Seq(Item)
  PROVE  /\ \A i \in 1..Len(P) : P[i] \in Item /\ P[i] \in Range(P)
         /\ \A x \in Range(P) : x \in Item /\ \E i \in 1..Len(P) : x = P[i]
  BY DEF Range

LEMMA Catenation ==
  ASSUME NEW A \in Seq(Item), NEW B \in Seq(Item)
  PROVE  /\ A \o B \in Seq(Item) /\ Len(A) \in Nat /\ Len(B) \in Nat
         /\ Len(A \o B) = Len(A) + Len(B)
         /\ \A i \in 1..Len(A) : i \in 1..Len(A \o B) /\ (A \o B)[i] = A[i]
         /\ \A i \in 1..Len(B) : Len(A) + i \in 1..Len(A \o B) /\ (A \o B)[Len(A) + i] = B[i]
  BY ConcatProperties

LEMMA Reassociated == \A A, B, C \in Seq(Item) : (A \o B) \o C = A \o (B \o C)
<1> TAKE A, B, C \in Seq(Item)
<1> QED  BY ConcatAssociative

LEMMA RangeCat ==
  ASSUME NEW A \in Seq(Item), NEW B \in Seq(Item)
  PROVE  Range(A \o B) = Range(A) \cup Range(B)
<1> DEFINE C == A \o B
<1>0. /\ C \in Seq(Item) /\ Len(A) \in Nat /\ Len(B) \in Nat /\ Len(C) = Len(A) + Len(B)
      /\ \A i \in 1..Len(A) : i \in 1..Len(C) /\ C[i] = A[i]
      /\ \A i \in 1..Len(B) : Len(A) + i \in 1..Len(C) /\ C[Len(A) + i] = B[i]
  BY Catenation
<1> HIDE DEF C
<1>1. ASSUME NEW x \in Range(C) PROVE x \in Range(A) \cup Range(B)
  <2>1. PICK i \in 1..Len(C) : x = C[i]
    BY <1>0, Elements
  <2>2. CASE i \in 1..Len(A)
    BY <1>0, <2>1, <2>2, Elements
  <2>3. CASE i \notin 1..Len(A)
    <3>1. i - Len(A) \in 1..Len(B) /\ i = Len(A) + (i - Len(A))
      BY <1>0, <2>3
    <3>2. x = B[i - Len(A)]
      BY <1>0, <2>1, <3>1
    <3> QED  BY <3>1, <3>2, Elements
  <2> QED  BY <2>2, <2>3
<1>2. ASSUME NEW x \in Range(A) PROVE x \in Range(C)
  <2>1. PICK i \in 1..Len(A) : x = A[i]
    BY Elements
  <2>2. i \in 1..Len(C) /\ x = C[i]
    BY <1>0, <2>1
  <2> QED  BY <1>0, <2>2, Elements
<1>3. ASSUME NEW x \in Range(B) PROVE x \in Range(C)
  <2>1. PICK i \in 1..Len(B) : x = B[i]
    BY Elements
  <2>2. Len(A) + i \in 1..Len(C) /\ x = C[Len(A) + i]
    BY <1>0, <2>1
  <2> QED  BY <1>0, <2>2, Elements
<1> QED  BY <1>1, <1>2, <1>3 DEF C

LEMMA RecordsCat ==
  ASSUME NEW A \in Seq(Item), NEW B \in Seq(Item)
  PROVE  Records(A \o B) = Records(A) \cup Records(B)
  BY RangeCat DEF Records

LEMMA RecordTypes ==
  ASSUME NEW A \in Seq(Item)
  PROVE  /\ \A r \in Records(A) : r[1] \in Source /\ r[2] \in Nat \ {0}
                                   /\ \E x \in Range(A) : x.src = r[1] /\ x.pos = r[2]
         /\ \A x \in Range(A) : <<x.src, x.pos>> \in Records(A) /\ x.src \in Source
                                /\ x.pos \in Nat \ {0} /\ x \in Item
         /\ Records(A) \subseteq Source \X Nat
<1>1. \A x \in Range(A) : x \in Item
  BY Elements
<1>2. \A x \in Range(A) : <<x.src, x.pos>> \in Records(A) /\ x.src \in Source
                          /\ x.pos \in Nat \ {0} /\ x \in Item
  BY <1>1 DEF Records, Item
<1>3. \A r \in Records(A) : \E x \in Range(A) : r = <<x.src, x.pos>>
  BY DEF Records
<1> QED  BY <1>2, <1>3

LEMMA EmptyAndOne ==
  /\ <<>> \in Seq(Item) /\ Range(<<>>) = {} /\ Records(<<>>) = {}
  /\ \A lax : Sorted(<<>>, lax)
  /\ \A x \in Item : /\ <<x>> \in Seq(Item) /\ Range(<<x>>) = {x}
                     /\ Records(<<x>>) = {<<x.src, x.pos>>}
                     /\ \A lax : Sorted(<<x>>, lax)
  BY DEF Range, Records, Sorted

\* One part after another.
LEMMA SortedCat ==
  ASSUME NEW A \in Seq(Item), NEW B \in Seq(Item), NEW lax \in BOOLEAN
  PROVE  Sorted(A \o B, lax) <=>
           /\ Sorted(A, lax) /\ Sorted(B, lax)
           /\ \A x \in Range(A), y \in Range(B) :
                x.src = y.src /\ (lax => y.class # "refused") => x.pos < y.pos
<1> DEFINE C == A \o B
           n == Len(A)
<1>0. /\ C \in Seq(Item) /\ n \in Nat /\ Len(B) \in Nat /\ Len(C) = n + Len(B)
      /\ \A i \in 1..n : i \in 1..Len(C) /\ C[i] = A[i]
      /\ \A i \in 1..Len(B) : n + i \in 1..Len(C) /\ C[n + i] = B[i]
  BY Catenation
<1> HIDE DEF C, n
<1>1. ASSUME Sorted(C, lax)
      PROVE  /\ Sorted(A, lax) /\ Sorted(B, lax)
             /\ \A x \in Range(A), y \in Range(B) :
                  x.src = y.src /\ (lax => y.class # "refused") => x.pos < y.pos
  <2>1. Sorted(A, lax)
    BY <1>0, <1>1 DEF Sorted, n
  <2>2. Sorted(B, lax)
    <3>1. \A i, j \in 1..Len(B) : i < j => n + i < n + j
      BY <1>0
    <3> QED  BY <1>0, <1>1, <3>1, ZenonT(30) DEF Sorted
  <2>3. ASSUME NEW x \in Range(A), NEW y \in Range(B),
               x.src = y.src /\ (lax => y.class # "refused")
        PROVE  x.pos < y.pos
    <3>1. PICK i \in 1..n : x = A[i]
      BY Elements DEF n
    <3>2. PICK j \in 1..Len(B) : y = B[j]
      BY Elements
    <3>3. i \in 1..Len(C) /\ n + j \in 1..Len(C) /\ i < n + j /\ C[i] = x /\ C[n + j] = y
      BY <1>0, <3>1, <3>2
    <3> QED  BY <1>1, <2>3, <3>3 DEF Sorted
  <2> QED  BY <2>1, <2>2, <2>3
<1>2. ASSUME Sorted(A, lax), Sorted(B, lax),
             \A x \in Range(A), y \in Range(B) :
               x.src = y.src /\ (lax => y.class # "refused") => x.pos < y.pos
      PROVE  Sorted(C, lax)
  <2> SUFFICES ASSUME NEW i \in 1..Len(C), NEW j \in 1..Len(C), i < j, C[i].src = C[j].src,
                      lax => C[j].class # "refused"
               PROVE  C[i].pos < C[j].pos
    BY DEF Sorted
  <2>1. CASE j \in 1..n
    <3>1. i \in 1..n
      BY <1>0, <2>1
    <3> QED  BY <1>0, <1>2, <2>1, <3>1 DEF Sorted, n
  <2>2. CASE i \notin 1..n
    <3>1. i - n \in 1..Len(B) /\ j - n \in 1..Len(B) /\ i - n < j - n
          /\ n + (i - n) = i /\ n + (j - n) = j
      BY <1>0, <2>2
    <3>2. C[i] = B[i - n] /\ C[j] = B[j - n]
      BY <1>0, <3>1
    <3> QED  BY <1>2, <3>1, <3>2 DEF Sorted
  <2>3. CASE i \in 1..n /\ j \notin 1..n
    <3>1. j - n \in 1..Len(B) /\ n + (j - n) = j
      BY <1>0, <2>3
    <3>2. C[i] = A[i] /\ C[j] = B[j - n]
      BY <1>0, <2>3, <3>1
    <3>3. C[i] \in Range(A) /\ C[j] \in Range(B)
      BY <2>3, <3>1, <3>2, Elements DEF n
    <3> QED  BY <1>2, <3>3
  <2> QED  BY <2>1, <2>2, <2>3
<1> QED  BY <1>1, <1>2 DEF C

LEMMA OneMore ==
  ASSUME NEW h \in Item, NEW A \in Seq(Item), NEW lax \in BOOLEAN
  PROVE  /\ <<h>> \o A \in Seq(Item) /\ Range(<<h>> \o A) = {h} \cup Range(A)
         /\ Records(<<h>> \o A) = {<<h.src, h.pos>>} \cup Records(A)
         /\ Sorted(<<h>> \o A, lax) <=>
              /\ Sorted(A, lax)
              /\ \A y \in Range(A) : h.src = y.src /\ (lax => y.class # "refused") => h.pos < y.pos
<1> DEFINE H == <<h>>
<1>1. /\ H \in Seq(Item) /\ Range(H) = {h} /\ Records(H) = {<<h.src, h.pos>>} /\ Sorted(H, lax)
  BY EmptyAndOne
<1> HIDE DEF H
<1>2. H \o A \in Seq(Item)
  BY <1>1, Catenation
<1>3. Range(H \o A) = {h} \cup Range(A)
  BY <1>1, RangeCat
<1>4. Records(H \o A) = {<<h.src, h.pos>>} \cup Records(A)
  BY <1>1, RecordsCat
<1>5. Sorted(H \o A, lax) <=>
        /\ Sorted(A, lax)
        /\ \A y \in Range(A) : h.src = y.src /\ (lax => y.class # "refused") => h.pos < y.pos
  BY <1>1, SortedCat
<1> QED  BY <1>2, <1>3, <1>4, <1>5 DEF H

LEMMA SortedLax ==
  ASSUME NEW A \in Seq(Item)
  PROVE  /\ Sorted(A, FALSE) => Sorted(A, TRUE)
         /\ Sorted(A, TRUE) /\ (\A x \in Range(A) : x.class # "refused") => Sorted(A, FALSE)
<1>1. \A i \in 1..Len(A) : A[i] \in Range(A)
  BY Elements
<1> QED  BY <1>1 DEF Sorted
-----------------------------------------------------------------------------
(* positions_for.                                                          *)

LEMMA NatOrder == IsWellFoundedOn({ss \in Nat \X Nat : ss[1] < ss[2]}, Nat)
  BY NatLessThanWellFounded DEF OpToRel

LEMMA LeastNumber ==
  ASSUME NEW T, T \subseteq Nat, T # {}
  PROVE  \E x \in T : \A y \in T : x <= y
<1> DEFINE R == {ss \in Nat \X Nat : ss[1] < ss[2]}
<1>1. \E x \in T : \A y \in T : <<y, x>> \notin R
  <2>1. IsWellFoundedOn(R, Nat)
    BY NatOrder
  <2> HIDE DEF R
  <2> QED  BY <2>1, WFMin
<1>2. \A x, y \in Nat : <<y, x>> \in R <=> y < x
  OBVIOUS
<1> HIDE DEF R
<1>3. PICK x \in T : \A y \in T : <<y, x>> \notin R
  BY <1>1
<1>4. \A y \in T : x \in Nat /\ y \in Nat /\ ~(y < x)
  BY <1>2, <1>3
<1> QED  BY <1>4

LEMMA GreatestNumber ==
  ASSUME NEW n \in Nat, NEW T, T \subseteq 1..n, T # {}
  PROVE  Max(T) \in T /\ \A y \in T : y <= Max(T)
<1> DEFINE U == {n - x : x \in T}
<1>1. U \subseteq Nat /\ U # {}
  <2>1. \A x \in T : x \in Nat /\ n - x \in Nat /\ n - x \in U
    OBVIOUS
  <2> QED  BY <2>1
<1>2. PICK u \in U : \A y \in U : u <= y
  BY <1>1, LeastNumber
<1>3. PICK x \in T : u = n - x
  BY <1>2
<1>4. \A y \in T : x >= y
  <2> TAKE y \in T
  <2>1. n - y \in U
    OBVIOUS
  <2>2. n - x <= n - y
    BY <1>2, <1>3, <2>1
  <2>3. x \in 1..n /\ y \in 1..n
    OBVIOUS
  <2> HIDE DEF U
  <2> QED  BY <2>2, <2>3
<1>5. Max(T) \in T /\ \A y \in T : Max(T) >= y
  BY <1>4 DEF Max
<1> QED  BY <1>5

LEMMA LastFacts ==
  ASSUME NEW items \in Seq(Item), Sorted(items, FALSE), NEW s \in Source, Touches(items, s)
  PROVE  /\ <<s, LastPosition(s, items)>> \in Records(items)
         /\ LastPosition(s, items) \in Nat
         /\ \A x \in Range(items) : x.src = s => x.pos <= LastPosition(s, items)
<1> DEFINE m == Max(Of(s, items))
<1>1. Of(s, items) \subseteq 1..Len(items) /\ Of(s, items) # {} /\ Len(items) \in Nat
  BY DEF Of, Touches
<1>2. m \in Of(s, items) /\ \A j \in Of(s, items) : j <= m
  BY <1>1, GreatestNumber
<1> HIDE DEF m
<1>3. m \in 1..Len(items) /\ items[m].src = s
  BY <1>1, <1>2 DEF Of
<1>4. LastPosition(s, items) = items[m].pos
  BY DEF LastPosition, m
<1>5. items[m] \in Range(items) /\ items[m] \in Item
  BY <1>3, Elements
<1>6. ASSUME NEW x \in Range(items), x.src = s PROVE x.pos <= items[m].pos
  <2>1. PICK j \in 1..Len(items) : x = items[j]
    BY Elements
  <2>2. j \in Of(s, items)
    BY <1>6, <2>1 DEF Of
  <2>3. CASE j = m
    BY <1>5, <2>1, <2>3 DEF Item
  <2>4. CASE j < m
    <3>1. items[j].pos < items[m].pos
      BY <1>3, <1>6, <2>1, <2>4 DEF Sorted
    <3>2. items[j].pos \in Nat /\ items[m].pos \in Nat
      BY <1>5, Elements DEF Item
    <3> QED  BY <2>1, <3>1, <3>2
  <2> QED  BY <1>2, <1>3, <2>2, <2>3, <2>4
<1> QED  BY <1>3, <1>4, <1>5, <1>6, RecordTypes

LEMMA AdvanceFacts ==
  ASSUME committed \in [Source -> Nat], NEW items \in Seq(Item), Sorted(items, FALSE)
  PROVE  /\ Advance(items) \in [Source -> Nat]
         /\ \A x \in Range(items) : x.pos <= Advance(items)[x.src]
         /\ \A s \in Source : \/ Advance(items)[s] = committed[s]
                              \/ <<s, Advance(items)[s]>> \in Records(items)
         /\ ~Regresses(items) => \A s \in Source : committed[s] <= Advance(items)[s]
         /\ (\A x \in Range(items) : x.pos > committed[x.src]) => ~Regresses(items)
         /\ \A s \in Source : Touches(items, s) => ~(LastPosition(s, items) < Advance(items)[s])
<1>1. \A s \in Source : Touches(items, s) =>
        /\ <<s, LastPosition(s, items)>> \in Records(items)
        /\ LastPosition(s, items) \in Nat
        /\ \A x \in Range(items) : x.src = s => x.pos <= LastPosition(s, items)
  BY LastFacts
<1>2. \A s \in Source :
        Advance(items)[s] = IF Touches(items, s) THEN LastPosition(s, items) ELSE committed[s]
  BY DEF Advance
<1>3. \A x \in Range(items) : Touches(items, x.src) /\ x.src \in Source
  <2> TAKE x \in Range(items)
  <2>1. PICK i \in 1..Len(items) : x = items[i]
    BY Elements
  <2>2. i \in Of(x.src, items)
    BY <2>1 DEF Of
  <2> QED  BY <2>2, RecordTypes DEF Touches
<1>4. Advance(items) \in [Source -> Nat]
  BY <1>1 DEF Advance
<1>5. \A x \in Range(items) : x.pos <= Advance(items)[x.src]
  BY <1>1, <1>2, <1>3
<1>6. \A s \in Source : Advance(items)[s] = committed[s]
                        \/ <<s, Advance(items)[s]>> \in Records(items)
  BY <1>1, <1>2
<1>7. ASSUME ~Regresses(items), NEW s \in Source PROVE committed[s] <= Advance(items)[s]
  <2>1. CASE Touches(items, s)
    <3>1. ~(LastPosition(s, items) < committed[s]) /\ Advance(items)[s] = LastPosition(s, items)
      BY <1>2, <1>7, <2>1 DEF Regresses
    <3>2. LastPosition(s, items) \in Nat /\ committed[s] \in Nat
      BY <1>1, <2>1
    <3> QED  BY <3>1, <3>2
  <2>2. CASE ~Touches(items, s)
    <3>1. Advance(items)[s] = committed[s] /\ committed[s] \in Nat
      BY <1>2, <2>2
    <3> QED  BY <3>1
  <2> QED  BY <2>1, <2>2
<1>8. ASSUME \A x \in Range(items) : x.pos > committed[x.src] PROVE ~Regresses(items)
  <2> SUFFICES ASSUME NEW s \in Source, Touches(items, s), LastPosition(s, items) < committed[s]
               PROVE  FALSE
    BY DEF Regresses
  <2>1. <<s, LastPosition(s, items)>> \in Records(items) /\ LastPosition(s, items) \in Nat
    BY <1>1
  <2>2. PICK x \in Range(items) : x.src = s /\ x.pos = LastPosition(s, items)
    BY <2>1, RecordTypes
  <2> QED  BY <1>8, <2>1, <2>2
<1>9. ASSUME NEW s \in Source, Touches(items, s)
      PROVE  ~(LastPosition(s, items) < Advance(items)[s])
  <2>1. LastPosition(s, items) \in Nat /\ Advance(items)[s] = LastPosition(s, items)
    BY <1>1, <1>2, <1>9
  <2> QED  BY <2>1
<1> QED  BY <1>4, <1>5, <1>6, <1>7, <1>8, <1>9
-----------------------------------------------------------------------------
(* The pipeline.                                                           *)

LEMMA PipelineTypes ==
  ASSUME TypeOK
  PROVE  /\ Waiting \in Seq(Queued) /\ Waiting \in Seq(Item) /\ batch \in Seq(Item)
         /\ buffered \in Seq(Item) /\ pending.items \in Seq(Item) /\ Waiting \o buffered \in Seq(Item)
         /\ Rest \in Seq(Item) /\ Pipeline \in Seq(Item) /\ Pipeline = pending.items \o Rest
         /\ Range(Rest) = Range(batch) \cup (Range(Waiting) \cup Range(buffered))
         /\ Range(Pipeline) = Range(pending.items) \cup Range(Rest)
         /\ Records(Pipeline) = Records(pending.items) \cup Records(Rest)
<1>1. /\ deferred \in Seq(Queued) /\ queue \in Seq(Queued) /\ batch \in Seq(Item)
      /\ buffered \in Seq(Item) /\ pending.items \in Seq(Item)
  BY QueuedAreItems DEF TypeOK
<1>2. Waiting \in Seq(Queued)
  BY <1>1, ConcatProperties DEF Waiting
<1>3. Waiting \in Seq(Item)
  BY <1>2, QueuedAreItems
<1>4. Waiting \o buffered \in Seq(Item)
      /\ Range(Waiting \o buffered) = Range(Waiting) \cup Range(buffered)
  BY <1>1, <1>3, Catenation, RangeCat
<1>5. Rest \in Seq(Item) /\ Range(Rest) = Range(batch) \cup Range(Waiting \o buffered)
  BY <1>1, <1>4, Catenation, RangeCat DEF Rest
<1>6. Pipeline = pending.items \o Rest
  BY DEF Pipeline, Rest
<1>7. /\ Pipeline \in Seq(Item) /\ Range(Pipeline) = Range(pending.items) \cup Range(Rest)
      /\ Records(Pipeline) = Records(pending.items) \cup Records(Rest)
  BY <1>1, <1>5, <1>6, Catenation, RangeCat, RecordsCat
<1> QED  BY <1>1, <1>2, <1>3, <1>4, <1>5, <1>6, <1>7

LEMMA NoPipeline ==
  ASSUME TypeOK, pending = Nothing
  PROVE  Pipeline = Rest /\ pending.items = <<>>
<1>1. pending.items = <<>>
  BY DEF Nothing
<1> QED  BY <1>1, PipelineTypes, ConcatEmptySeq

LEMMA OneInFront ==
  ASSUME NEW S, NEW q \in Seq(S), NEW r \in Seq(S), q # <<>>, Len(q) <= 1
  PROVE  q = <<Head(q)>> /\ Head(q) \in S /\ Head(q \o r) = Head(q)
<1>1. Len(q) \in Nat \ {0}
  BY EmptySeq
<1>2. Len(q) = 1
  <2>1. \A n \in Nat \ {0} : n <= 1 => n = 1
    OBVIOUS
  <2> QED  BY ONLY <1>1, <2>1, Len(q) <= 1
<1>3. q = <<Head(q)>> /\ Head(q) \in S
  BY <1>2
<1>4. Len(q \o r) = 1 + Len(r) /\ (q \o r)[1] = q[1] /\ Len(r) \in Nat
  BY <1>2, ConcatProperties
<1> QED  BY <1>2, <1>3, <1>4

\* drain_queue takes the front of what waits,
LEMMA TakeFirst ==
  ASSUME TypeOK, Waiting # <<>>, TakeNext
  PROVE  /\ Head(Waiting) \in Queued /\ Waiting = <<Head(Waiting)>> \o Waiting'
         /\ deferred' \in Seq(Queued) /\ Len(deferred') <= 1 /\ queue' \in Seq(Queued)
<1>1. deferred \in Seq(Queued) /\ queue \in Seq(Queued) /\ Len(deferred) <= 1
  BY DEF TypeOK
<1>2. CASE deferred # <<>>
  <2>1. /\ deferred = <<Head(deferred)>> /\ Head(deferred) \in Queued
        /\ Head(deferred \o queue) = Head(deferred)
    BY <1>1, <1>2, OneInFront
  <2>2. deferred' = <<>> /\ queue' = queue
    BY <1>2 DEF TakeNext
  <2>3. Waiting' = queue
    BY <1>1, <2>2, ConcatEmptySeq DEF Waiting
  <2>4. Head(Waiting) = Head(deferred)
    BY <2>1 DEF Waiting
  <2>5. Waiting = <<Head(Waiting)>> \o Waiting'
    BY <2>1, <2>3, <2>4 DEF Waiting
  <2> QED  BY <1>1, <2>1, <2>2, <2>4, <2>5
<1>3. CASE deferred = <<>>
  <2>1. Waiting = queue /\ queue # <<>> /\ deferred' = <<>> /\ queue' = Tail(queue)
    BY <1>1, <1>3, ConcatEmptySeq DEF Waiting, TakeNext
  <2>2. Head(queue) \in Queued /\ Tail(queue) \in Seq(Queued) /\ queue = <<Head(queue)>> \o Tail(queue)
    BY <1>1, <2>1
  <2>3. Waiting' = Tail(queue)
    BY <2>1, <2>2, ConcatEmptySeq DEF Waiting
  <2> QED  BY <2>1, <2>2, <2>3
<1> QED  BY <1>2, <1>3

\* or puts it aside.
LEMMA PutAside ==
  ASSUME TypeOK, Waiting # <<>>, deferred' = <<Head(Waiting)>>,
         queue' = IF deferred # <<>> THEN queue ELSE Tail(queue)
  PROVE  /\ Head(Waiting) \in Queued /\ Waiting' = Waiting
         /\ deferred' \in Seq(Queued) /\ Len(deferred') <= 1 /\ queue' \in Seq(Queued)
<1>1. deferred \in Seq(Queued) /\ queue \in Seq(Queued) /\ Len(deferred) <= 1
  BY DEF TypeOK
<1>2. CASE deferred # <<>>
  <2>1. /\ deferred = <<Head(deferred)>> /\ Head(deferred) \in Queued
        /\ Head(deferred \o queue) = Head(deferred)
    BY <1>1, <1>2, OneInFront
  <2>2. Head(Waiting) = Head(deferred)
    BY <2>1 DEF Waiting
  <2>3. deferred' = deferred /\ queue' = queue
    BY <1>2, <2>1, <2>2
  <2> QED  BY <1>1, <2>1, <2>2, <2>3 DEF Waiting
<1>3. CASE deferred = <<>>
  <2>1. Waiting = queue /\ queue # <<>> /\ queue' = Tail(queue)
    BY <1>1, <1>3, ConcatEmptySeq DEF Waiting
  <2>2. Head(queue) \in Queued /\ Tail(queue) \in Seq(Queued) /\ queue = <<Head(queue)>> \o Tail(queue)
    BY <1>1, <2>1
  <2>3. deferred' = <<Head(queue)>>
    BY <2>1
  <2>4. Waiting' = Waiting
    BY <2>1, <2>2, <2>3 DEF Waiting
  <2> QED  BY <2>1, <2>2, <2>3, <2>4
<1> QED  BY <1>2, <1>3

\* The records of the pipeline stay in order while they pass on.
LEMMA OrderMoves ==
  ASSUME LoopInv, TypeOK', Running, Records(Pipeline') = Records(Pipeline), Sorted(Pipeline', late'),
         \A x \in Range(Rest') : (late' => x.class # "refused") => x \in Range(Rest),
         UNCHANGED <<read, durable, faults>>, late => late'
  PROVE  Order'
<1>1. Order /\ TypeOK /\ late \in BOOLEAN
  BY DEF LoopInv, TypeOK
<1>2. read' = read /\ committed' = committed /\ delivered' = delivered /\ faults' = faults
  BY DEF durable
<1>3. Records(Pipeline)' = Records(Pipeline)
  BY DEF Records
<1>4. \A x \in Range(Rest') : (late' => x.class # "refused") => x.pos > committed'[x.src]
  BY <1>1, <1>2 DEF Order
<1>5. Sorted(Pipeline, late)'
  BY DEF Sorted
<1> QED  BY <1>1, <1>2, <1>3, <1>4, <1>5 DEF Order

\* A publication taken from what waits can be made.
LEMMA HandedOver ==
  ASSUME LoopInv, TypeOK', Running, Order', pending = Nothing, Sorted(pending'.items, FALSE),
         Range(pending'.items) \subseteq Range(Rest), UNCHANGED durable, late => late'
  PROVE  Publication'
<1> DEFINE items == pending'.items
           rest == Rest'
<1>1. Order /\ TypeOK /\ committed' = committed /\ delivered' = delivered
      /\ late \in BOOLEAN /\ late' \in BOOLEAN
  BY DEF LoopInv, TypeOK, durable
<1>2. items \in Seq(Item) /\ rest \in Seq(Item) /\ Pipeline' = items \o rest
  <2>1. (/\ Rest \in Seq(Item) /\ Pipeline = pending.items \o Rest
         /\ pending.items \in Seq(Item))'
    BY PipelineTypes, PTL
  <2> QED  BY <2>1
<1>3. ASSUME ~late', NEW r \in Records(items), NEW k \in Nat \ {0}, k <= r[2]
      PROVE  <<r[1], k>> \in delivered' \cup Records(items)
  <2>1. PICK x \in Range(items) : x.src = r[1] /\ x.pos = r[2]
    BY <1>2, RecordTypes
  <2>2. r[1] \in Source /\ r[2] \in Nat
    BY <1>2, RecordTypes
  <2>3. Records(Pipeline)' = Records(items) \cup Records(rest)
    <3>1. Records(Pipeline)' = Records(items \o rest)
      BY <1>2 DEF Records
    <3> QED  BY <1>2, <3>1, RecordsCat
  <2>4. k <= read'[r[1]]
    <3>1. r[2] <= read'[r[1]]
      BY <2>3 DEF Order
    <3>2. read'[r[1]] \in Nat
      BY <2>2 DEF TypeOK
    <3> QED  BY <1>3, <2>2, <3>1, <3>2
  <2>5. <<r[1], k>> \in delivered' \cup Records(Pipeline)'
    BY <1>3, <2>2, <2>4 DEF Order
  <2>6. <<r[1], k>> \notin Records(rest)
    <3> SUFFICES ASSUME <<r[1], k>> \in Records(rest) PROVE FALSE
      OBVIOUS
    <3>1. PICK y \in Range(rest) : y.src = r[1] /\ y.pos = k
      BY <1>2, RecordTypes
    <3>2. Sorted(items \o rest, FALSE)
      BY <1>2, <1>3, <1>1 DEF Order
    <3>3. x.pos < y.pos
      BY <1>2, <2>1, <3>1, <3>2, SortedCat
    <3> QED  BY <1>3, <2>1, <2>2, <3>1, <3>3
  <2> QED  BY <2>3, <2>5, <2>6
<1>4. ASSUME ~late' PROVE ~Regresses(items)
  <2>1. \A x \in Range(items) : x.pos > committed[x.src]
    BY <1>1, <1>4 DEF Order
  <2>2. committed \in [Source -> Nat]
    BY <1>1 DEF TypeOK
  <2> QED  BY <1>2, <2>1, <2>2, AdvanceFacts
<1>5. Regresses(pending.items)' = Regresses(items)
  BY <1>1 DEF Regresses, Touches, LastPosition, Of
<1>6. Records(pending.items)' = Records(items) /\ Sorted(pending.items, FALSE)'
  BY DEF Records, Sorted
<1> QED  BY <1>3, <1>4, <1>5, <1>6 DEF Publication

\* A step of a running Collector that publishes nothing leaves the checkpoints.
LEMMA RunningLeft ==
  ASSUME LoopInv, Running', UNCHANGED durable, late => late'
  PROVE  Left'
<1>1. Left /\ late \in BOOLEAN
  BY DEF LoopInv, TypeOK
<1>2. Committed' = Committed
  BY DEF Committed, durable
<1> QED  BY <1>1, <1>2 DEF Left, Running

\* Steps that move records, and
LEMMA MovedOn ==
  ASSUME LoopInv, TypeOK', Control', Draining', Running, Running',
         Records(Pipeline') = Records(Pipeline), Sorted(Pipeline', late'),
         \A x \in Range(Rest') : (late' => x.class # "refused") => x \in Range(Rest),
         UNCHANGED <<read, durable, faults>>, late => late',
         \/ pending' = pending
         \/ /\ pending = Nothing /\ Sorted(pending'.items, FALSE)
            /\ Range(pending'.items) \subseteq Range(Rest)
  PROVE  LoopInv'
<1>1. Order'
  BY OrderMoves
<1>2. Left'
  BY RunningLeft
<1>3. Publication'
  <2>1. CASE pending' = pending
    <3>1. Publication /\ committed' = committed /\ delivered' = delivered /\ late \in BOOLEAN
      BY DEF LoopInv, durable, TypeOK
    <3>2. /\ Regresses(pending.items)' = Regresses(pending.items)
          /\ Records(pending.items)' = Records(pending.items)
          /\ Sorted(pending.items, FALSE)' = Sorted(pending.items, FALSE)
      BY <2>1, <3>1 DEF Regresses, Touches, LastPosition, Of, Records, Sorted
    <3> QED  BY <3>1, <3>2 DEF Publication
  <2>2. CASE ~(pending' = pending)
    BY <1>1, <2>2, HandedOver
  <2> QED  BY <2>1, <2>2
<1> QED  BY <1>1, <1>2, <1>3 DEF LoopInv

\* those that leave their order alone.
LEMMA PassedOn ==
  ASSUME LoopInv, TypeOK', Control', Draining', Running, Running',
         Pipeline' = Pipeline, Range(Rest') \subseteq Range(Rest),
         UNCHANGED <<read, durable, faults>>, late => late',
         \/ pending' = pending
         \/ /\ pending = Nothing /\ Sorted(pending'.items, FALSE)
            /\ Range(pending'.items) \subseteq Range(Rest)
  PROVE  LoopInv'
<1>1. Sorted(Pipeline, late')
  <2>1. Sorted(Pipeline, FALSE) => Sorted(Pipeline, TRUE)
    BY PipelineTypes, SortedLax DEF LoopInv
  <2>2. late \in BOOLEAN /\ late' \in BOOLEAN
    BY DEF TypeOK, LoopInv
  <2> QED  BY <2>1, <2>2 DEF Order, LoopInv
<1> QED  BY <1>1, MovedOn
-----------------------------------------------------------------------------
(* Steps that move no record.                                              *)

LEMMA AtStep ==
  ASSUME LoopInv, pc \notin {"idle", "publish", "started"}
  PROVE  /\ Running /\ pending = Nothing /\ sealed = FALSE /\ TypeOK /\ Draining
         /\ Pipeline = Rest /\ pending.items = <<>>
<1>1. TypeOK /\ Control /\ Draining
  BY DEF LoopInv
<1>2. Running /\ pending = Nothing /\ sealed = FALSE
  BY <1>1 DEF TypeOK, Control, At, Running
<1> QED  BY <1>1, <1>2, NoPipeline

LEMMA Stays ==
  ASSUME LoopInv, TypeOK', Control', Draining', Running, Running',
         UNCHANGED <<ram, pending, read, durable, faults, late>>
  PROVE  LoopInv'
<1>1. Pipeline' = Pipeline /\ Rest' = Rest /\ late = late'
  BY DEF ram, Pipeline, Rest, Waiting
<1> QED  BY <1>1, PassedOn

LEMMA Turns ==
  ASSUME LoopInv, PollEnd \/ ProcessDone \/ MakeRoom \/ StartRejection \/ DrainDone \/ Dwell
  PROVE  LoopInv'
<1>1. /\ Running /\ pending = Nothing /\ sealed = FALSE /\ TypeOK /\ Draining
      /\ pc \in {"sources", "process", "drain", "dwell"}
  <2>1. pc \in {"sources", "process", "drain", "dwell"}
    BY DEF PollEnd, ProcessDone, MakeRoom, StartRejection, DrainDone, Dwell
  <2> QED  BY <2>1, AtStep
<1>2. UNCHANGED <<phase, after, ret, ram, pending, sealed, read, durable, faults, late>>
  BY DEF PollEnd, ProcessDone, MakeRoom, StartRejection, DrainDone, Dwell, history
<1>3. /\ pc' \in {"sources", "process", "drain", "dwell", "flush", "idle"}
      /\ drainFor' \in {"poll", "room", "rejection", "shutdown"}
  BY <1>1 DEF PollEnd, ProcessDone, MakeRoom, StartRejection, DrainDone, Dwell, DrainReturns, TypeOK
<1>4. TypeOK' /\ Running'
  BY <1>1, <1>2, <1>3 DEF TypeOK, Running, ram, durable
<1>5. Control'
  BY <1>1, <1>2, <1>3 DEF Control, At, Running
<1>6. Draining'
  <2>1. Waiting' = Waiting /\ buffered' = buffered /\ batch' = batch /\ deferred' = deferred
        /\ committed' = committed /\ late' = late
    BY <1>2 DEF Waiting, ram, durable
  <2>2. CASE PollEnd \/ ProcessDone \/ MakeRoom \/ StartRejection
    BY <1>1, <2>1, <2>2
       DEF Draining, At, PollEnd, ProcessDone, MakeRoom, StartRejection
  <2>3. CASE DrainDone
    <3>1. Range(<<>>) = {}
      BY DEF Range
    <3> QED  BY <1>1, <2>1, <2>3, <3>1 DEF Draining, At, DrainDone, DrainReturns
  <2>4. CASE Dwell
    BY <1>1, <2>1, <2>4 DEF Draining, At, Dwell
  <2> QED  BY <2>2, <2>3, <2>4
<1> QED  BY <1>1, <1>2, <1>4, <1>5, <1>6, Stays

LEMMA Begins ==
  ASSUME LoopInv, PollOnce \/ Shutdown
  PROVE  LoopInv'
<1>1. phase = "running" /\ TypeOK /\ Control /\ NumSources + 1 \in Nat
  BY RuntimeAssumption DEF PollOnce, Shutdown, LoopInv
<1>2. /\ UNCHANGED <<drainFor, ram, pending, sealed, read, durable, faults, late>>
      /\ ret' = "process" /\ pc' = IF pending = Nothing THEN "process" ELSE "publish"
      /\ phase' \in {"running", "stopping"} /\ after' \in Nat
  BY <1>1 DEF PollOnce, Shutdown, Begin, history
<1>3. TypeOK' /\ Running /\ Running'
  BY <1>1, <1>2 DEF TypeOK, Running, ram, durable
<1>4. Control' /\ Draining'
  BY <1>1, <1>2 DEF Control, Draining, At, Running
<1> QED  BY <1>2, <1>3, <1>4, Stays
-----------------------------------------------------------------------------
(* Steps that pass records from one container to the next.                 *)

LEMMA FrontEvents ==
  ASSUME LoopInv, Running, pending = Nothing, NEW A \in Seq(Event), NEW B \in Seq(Item),
         Rest = A \o B
  PROVE  Sorted(A, FALSE) /\ Range(A) \subseteq Range(Rest)
<1>1. Sorted(A \o B, late) /\ late \in BOOLEAN
  BY NoPipeline DEF LoopInv, Order, TypeOK
<1>2. A \in Seq(Item) /\ \A x \in Range(A) : x.class # "refused"
  <2>1. A \in Seq(Queued) /\ \A x \in Range(A) : x.class = "event"
    BY QueuedAreItems
  <2> QED  BY <2>1, QueuedAreItems
<1>3. Sorted(A, late) /\ Range(A) \subseteq Range(A \o B)
  BY <1>1, <1>2, SortedCat, RangeCat
<1> QED  BY <1>1, <1>2, <1>3, SortedLax

\* The assembler's batch becomes the publication.
LEMMA BatchLeaves ==
  ASSUME LoopInv, pc \notin {"idle", "publish", "started"}, batch' = <<>>,
         NEW items \in Seq(Event), items # <<>>, NEW W \in Seq(Item),
         pending' = [kind |-> "batch", items |-> items],
         buffered' = buffered, Waiting' = W, Rest = items \o (W \o buffered),
         NEW next, next \in {"idle", "process", "drain", "refuse", "reject", "stop"},
         pc' = "publish", ret' = next, sealed' = FALSE, phase' = phase,
         UNCHANGED <<read, durable, faults>>, late => late', TypeOK', Draining'
  PROVE  LoopInv'
<1>1. Running /\ pending = Nothing /\ TypeOK /\ Pipeline = Rest /\ pending.items = <<>>
  BY AtStep
<1>2. W \o buffered \in Seq(Item) /\ items \in Seq(Item)
  BY <1>1, Catenation, QueuedAreItems, PipelineTypes
<1>3. Rest' = W \o buffered
  BY <1>2, ConcatEmptySeq DEF Rest
<1>4. Pipeline' = Pipeline
  <2>1. Pipeline' = pending'.items \o Rest'
    BY DEF Pipeline, Rest
  <2> QED  BY <1>1, <1>3, <2>1
<1>5. Range(Rest') \subseteq Range(Rest)
  <2>1. Range(items \o (W \o buffered)) = Range(items) \cup Range(W \o buffered)
    BY <1>2, RangeCat, Zenon
  <2> QED  BY <1>3, <2>1, Zenon
<1>6. Sorted(pending'.items, FALSE) /\ Range(pending'.items) \subseteq Range(Rest)
  BY <1>1, <1>2, FrontEvents
<1>7. Control' /\ Running'
  <2>1. pending' # Nothing
    BY DEF Nothing
  <2> QED  BY <1>1, <2>1 DEF Control, At, Running
<1> QED  BY <1>1, <1>4, <1>5, <1>6, <1>7, PassedOn

LEMMA Enqueued ==
  ASSUME LoopInv, Enqueue
  PROVE  LoopInv'
<1> DEFINE h == Head(buffered)
<1>1. /\ Running /\ pending = Nothing /\ sealed = FALSE /\ TypeOK /\ Draining /\ pc = "process"
      /\ Pipeline = Rest
  <2>1. pc = "process"
    BY DEF Enqueue
  <2> QED  BY <2>1, AtStep
<1>2. /\ UNCHANGED <<phase, pc, after, drainFor, ret, deferred, batch, pending, sealed, read,
                     durable, faults, late>>
      /\ queue' = Append(queue, h) /\ buffered' = Tail(buffered)
      /\ buffered # <<>> /\ h.class # "refused"
  BY DEF Enqueue, control, history
<1>3. /\ h \in Item /\ Tail(buffered) \in Seq(Item) /\ buffered = <<h>> \o Tail(buffered)
      /\ buffered \in Seq(Item) /\ batch \in Seq(Item)
  BY <1>1, <1>2, PipelineTypes
<1>4. h \in Queued /\ queue \in Seq(Queued) /\ deferred \in Seq(Queued)
  BY <1>1, <1>2, <1>3 DEF TypeOK, Queued
<1>5. TypeOK' /\ Running'
  BY <1>1, <1>2, <1>3, <1>4 DEF TypeOK, Running, durable
<1>6. Waiting' = Waiting \o <<h>>
  <2>1. queue' = queue \o <<h>>
    BY <1>2, <1>4, AppendIsConcat
  <2>2. deferred \o (queue \o <<h>>) = (deferred \o queue) \o <<h>>
    BY <1>4, ConcatAssociative
  <2> QED  BY <1>2, <2>1, <2>2 DEF Waiting
<1>7. Rest' = Rest
  <2>1. (Waiting \o <<h>>) \o Tail(buffered) = Waiting \o (<<h>> \o Tail(buffered))
    <3>1. Waiting \in Seq(Item) /\ <<h>> \in Seq(Item)
      BY <1>1, <1>3, PipelineTypes, EmptyAndOne
    <3>2. Tail(buffered) \in Seq(Item)
      BY <1>3
    <3> HIDE DEF h
    <3> QED  BY <3>1, <3>2, Reassociated, Zenon
  <2> QED  BY <1>2, <1>3, <1>6, <2>1 DEF Rest
<1>8. Pipeline' = Pipeline
  BY <1>2, <1>7 DEF Pipeline, Rest
<1>9. Control' /\ Draining'
  BY <1>1, <1>2 DEF Control, Draining, At, Running
<1> QED  BY <1>1, <1>2, <1>5, <1>7, <1>8, <1>9, PassedOn

LEMMA EventAdded ==
  ASSUME LoopInv, AddEvent
  PROVE  LoopInv'
<1> DEFINE h == Head(Waiting)
<1>1. /\ Running /\ pending = Nothing /\ sealed = FALSE /\ TypeOK /\ Draining /\ pc = "drain"
      /\ Pipeline = Rest
  <2>1. pc = "drain"
    BY DEF AddEvent
  <2> QED  BY <2>1, AtStep
<1>2. /\ UNCHANGED <<phase, after, drainFor, buffered, read, durable, faults, late>>
      /\ Waiting # <<>> /\ h.class = "event" /\ TakeNext
  BY DEF AddEvent, history
<1>3. /\ h \in Queued /\ Waiting = <<h>> \o Waiting'
      /\ deferred' \in Seq(Queued) /\ Len(deferred') <= 1 /\ queue' \in Seq(Queued)
  BY <1>1, <1>2, TakeFirst
<1> DEFINE W == Waiting'
           items == Append(batch, h)
<1>4. W \in Seq(Item) /\ h \in Event /\ h \in Item /\ buffered \in Seq(Item)
      /\ batch \in Seq(Item) /\ batch \in Seq(Event) /\ <<h>> \in Seq(Item)
  <2>1. Waiting' \in Seq(Queued)
    BY <1>3, ConcatProperties DEF Waiting
  <2>2. h \in Event /\ h \in Item
    BY <1>2, <1>3 DEF Event, Queued
  <2> QED  BY <1>1, <2>1, <2>2, QueuedAreItems, PipelineTypes, EmptyAndOne DEF TypeOK
<1>5. items \in Seq(Event) /\ items # <<>> /\ items = batch \o <<h>> /\ items \in Seq(Item)
  BY <1>4, AppendIsConcat, QueuedAreItems
<1> HIDE DEF W, h, items
<1>6. Rest = items \o (W \o buffered)
  <2>1. Rest = batch \o ((<<h>> \o W) \o buffered)
    BY <1>3 DEF Rest, W
  <2>2. (<<h>> \o W) \o buffered = <<h>> \o (W \o buffered)
    BY <1>4, ConcatAssociative
  <2>3. W \o buffered \in Seq(Item)
    BY <1>4, Catenation
  <2>4. batch \o (<<h>> \o (W \o buffered)) = (batch \o <<h>>) \o (W \o buffered)
    BY <1>4, <2>3, ConcatAssociative, SMTT(30)
  <2> QED  BY <1>5, <2>1, <2>2, <2>4
<1>7. CASE Len(batch) + 1 < BatchSize
  <2>1. UNCHANGED <<pc, ret, pending, sealed>> /\ batch' = items
    BY <1>7 DEF AddEvent, items, h
  <2>2. TypeOK' /\ Running'
    BY <1>1, <1>2, <1>3, <1>5, <2>1 DEF TypeOK, Running, durable
  <2>3. Control' /\ Draining'
    BY <1>1, <1>2, <2>1 DEF Control, Draining, At, Running
  <2>4. Rest' = Rest
    BY <1>2, <1>6, <2>1 DEF Rest, W
  <2>5. Pipeline' = Pipeline
    BY <2>1, <2>4 DEF Pipeline, Rest
  <2> QED  BY <1>1, <1>2, <2>1, <2>2, <2>3, <2>4, <2>5, PassedOn
<1>8. CASE ~(Len(batch) + 1 < BatchSize)
  <2>1. /\ batch' = <<>> /\ pending' = [kind |-> "batch", items |-> items]
        /\ sealed' = FALSE /\ pc' = "publish" /\ ret' = "drain"
    BY <1>8 DEF AddEvent, Publish, items, h
  <2>2. TypeOK'
    <3>1. pending' \in [kind : {"none", "batch", "rejection"}, items : Seq(Item)]
          /\ pending'.kind # "none" /\ batch' \in Seq(Event)
      BY <1>5, <2>1
    <3> QED  BY <1>1, <1>2, <1>3, <2>1, <3>1 DEF TypeOK, durable
  <2>3. Draining'
    BY <1>1, <1>2, <2>1 DEF Draining, At
  <2> QED  BY <1>1, <1>2, <1>4, <1>5, <1>6, <2>1, <2>2, <2>3, BatchLeaves DEF W
<1> QED  BY <1>7, <1>8

LEMMA Flushed ==
  ASSUME LoopInv, Flush
  PROVE  LoopInv'
<1>1. /\ Running /\ pending = Nothing /\ sealed = FALSE /\ TypeOK /\ Draining /\ pc = "flush"
  <2>1. pc = "flush"
    BY DEF Flush
  <2> QED  BY <2>1, AtStep
<1>2. /\ UNCHANGED <<phase, after, drainFor, buffered, queue, deferred, read, durable, faults, late>>
  BY DEF Flush, history
<1>3. /\ AfterFlush \in {"process", "reject", "stop", "idle"}
      /\ AfterFlush = "reject" => drainFor = "rejection"
      /\ AfterFlush = "stop" => drainFor = "shutdown"
      /\ Waiting' = Waiting /\ committed' = committed
  BY <1>1, <1>2 DEF AfterFlush, Waiting, durable
<1>4. CASE batch = <<>>
  <2>1. pc' = AfterFlush /\ UNCHANGED <<batch, pending, sealed, ret>>
    BY <1>4 DEF Flush
  <2>2. TypeOK' /\ Running'
    BY <1>1, <1>2, <1>3, <2>1 DEF TypeOK, Running, durable
  <2>3. Control' /\ Draining'
    BY <1>1, <1>2, <1>3, <1>4, <2>1 DEF Control, Draining, At, Running
  <2> QED  BY <1>1, <1>2, <2>1, <2>2, <2>3, Stays DEF ram
<1>5. CASE batch # <<>>
  <2>1. /\ batch' = <<>> /\ pending' = [kind |-> "batch", items |-> batch]
        /\ sealed' = FALSE /\ pc' = "publish" /\ ret' = AfterFlush
    BY <1>5 DEF Flush, Publish
  <2>2. batch \in Seq(Event) /\ Waiting \in Seq(Item) /\ batch \in Seq(Item)
    BY <1>1, PipelineTypes DEF TypeOK
  <2>3. TypeOK'
    <3>1. pending' \in [kind : {"none", "batch", "rejection"}, items : Seq(Item)]
          /\ pending'.kind # "none" /\ batch' \in Seq(Event)
      BY <2>1, <2>2
    <3> QED  BY <1>1, <1>2, <1>3, <2>1, <3>1 DEF TypeOK, durable
  <2>4. Draining'
    BY <1>1, <1>2, <1>3, <1>5, <2>1 DEF Draining, At
  <2> QED  BY <1>1, <1>2, <1>3, <1>5, <2>1, <2>2, <2>3, <2>4, BatchLeaves DEF Rest
<1> QED  BY <1>4, <1>5

LEMMA EventPutAside ==
  ASSUME LoopInv, DeferEvent \/ RefuseEvent
  PROVE  LoopInv'
<1>1. /\ Running /\ pending = Nothing /\ sealed = FALSE /\ TypeOK /\ Draining /\ pc = "drain"
      /\ Pipeline = Rest
  <2>1. pc = "drain"
    BY DEF DeferEvent, RefuseEvent
  <2> QED  BY <2>1, AtStep
<1>2. /\ UNCHANGED <<phase, after, drainFor, buffered, read, durable, faults>>
      /\ Waiting # <<>> /\ deferred' = <<Head(Waiting)>> /\ (late' = late \/ late' = TRUE)
      /\ queue' = IF deferred # <<>> THEN queue ELSE Tail(queue)
  BY <1>1 DEF DeferEvent, RefuseEvent, history
<1>3. /\ Waiting' = Waiting
      /\ deferred' \in Seq(Queued) /\ Len(deferred') <= 1 /\ queue' \in Seq(Queued)
      /\ deferred' # <<>> /\ late \in BOOLEAN /\ late' \in BOOLEAN /\ (late => late')
  <2>1. late \in BOOLEAN /\ late' \in BOOLEAN /\ (late => late')
    <3>1. late \in BOOLEAN
      BY <1>1 DEF TypeOK
    <3>2. CASE late' = late
      BY <3>1, <3>2
    <3>3. CASE late' = TRUE
      BY <3>1, <3>3
    <3> QED  BY <1>2, <3>2, <3>3
  <2>2. deferred' # <<>>
    BY <1>2
  <2>3. Waiting' = Waiting /\ deferred' \in Seq(Queued) /\ Len(deferred') <= 1
        /\ queue' \in Seq(Queued)
    BY <1>1, <1>2, PutAside
  <2> QED  BY <2>1, <2>2, <2>3
<1>4. batch \in Seq(Event) /\ batch \in Seq(Item) /\ Waiting \in Seq(Item)
  BY <1>1, PipelineTypes DEF TypeOK
<1>5. CASE batch # <<>>
  <2>1. PICK next \in {"drain", "refuse"} :
          /\ batch' = <<>> /\ pending' = [kind |-> "batch", items |-> batch]
          /\ sealed' = FALSE /\ pc' = "publish" /\ ret' = next /\ (next = "refuse" => late' = TRUE)
    BY <1>5 DEF DeferEvent, RefuseEvent, Publish
  <2>2. TypeOK'
    <3>1. pending' \in [kind : {"none", "batch", "rejection"}, items : Seq(Item)]
          /\ pending'.kind # "none" /\ batch' \in Seq(Event)
      BY <1>4, <2>1
    <3>2. ret' \in {"drain", "refuse"}
      BY <2>1
    <3> QED  BY <1>1, <1>2, <1>3, <2>1, <3>1, <3>2 DEF TypeOK, durable
  <2>3. Draining'
    BY <1>1, <1>2, <1>3, <2>1 DEF Draining, At
  <2> QED  BY <1>1, <1>2, <1>3, <1>4, <1>5, <2>1, <2>2, <2>3, BatchLeaves DEF Rest
<1>6. CASE batch = <<>>
  <2>1. pc' = "refuse" /\ late' = TRUE /\ UNCHANGED <<batch, pending, sealed, ret>>
    BY <1>6 DEF DeferEvent, RefuseEvent
  <2>2. TypeOK' /\ Running'
    BY <1>1, <1>2, <1>3, <2>1 DEF TypeOK, Running, durable
  <2>3. Control' /\ Draining'
    BY <1>1, <1>2, <1>3, <1>6, <2>1 DEF Control, Draining, At, Running
  <2>4. Rest' = Rest /\ Pipeline' = Pipeline
    BY <1>2, <1>3, <2>1 DEF Pipeline, Rest
  <2> QED  BY <1>1, <1>2, <2>1, <2>2, <2>3, <2>4, PassedOn
<1> QED  BY <1>5, <1>6
-----------------------------------------------------------------------------
(* A rejection overtakes what it precedes, a late one falls behind.        *)

LEMMA RejectionPublished ==
  ASSUME LoopInv, PublishRejection
  PROVE  LoopInv'
<1> DEFINE h == Head(buffered)
           B == Tail(buffered)
           W == Waiting
<1>1. /\ Running /\ pending = Nothing /\ sealed = FALSE /\ TypeOK /\ Draining /\ pc = "reject"
      /\ Pipeline = Rest /\ Order /\ late \in BOOLEAN
  <2>1. pc = "reject"
    BY DEF PublishRejection
  <2> QED  BY <2>1, AtStep DEF LoopInv, TypeOK
<1>2. /\ UNCHANGED <<phase, after, drainFor, queue, deferred, batch, read, durable, faults, late>>
      /\ buffered' = B /\ pending' = [kind |-> "rejection", items |-> <<h>>]
      /\ sealed' = FALSE /\ pc' = "publish" /\ ret' = "process"
  BY DEF PublishRejection, Publish, history
<1>3. /\ batch = <<>> /\ buffered # <<>> /\ h.class = "refused" /\ (late \/ W = <<>>)
      /\ \A x \in Range(W) : x.src = h.src => h.pos < x.pos
  BY <1>1 DEF Draining, At
<1>4. /\ h \in Item /\ B \in Seq(Item) /\ buffered = <<h>> \o B /\ W \in Seq(Item)
      /\ buffered \in Seq(Item) /\ <<h>> \in Seq(Item) /\ Range(<<h>>) = {h}
      /\ Sorted(<<h>>, FALSE)
  <2>1. buffered \in Seq(Item) /\ W \in Seq(Item)
    BY <1>1, PipelineTypes
  <2>2. h \in Item /\ B \in Seq(Item) /\ buffered = <<h>> \o B
    BY <1>3, <2>1
  <2> QED  BY <2>1, <2>2, EmptyAndOne
<1>5. Waiting' = W
  BY <1>2 DEF Waiting
<1> HIDE DEF h, B, W
<1>6. Rest = W \o (<<h>> \o B) /\ Rest' = W \o B /\ Pipeline' = <<h>> \o (W \o B)
  <2>1. W \o buffered \in Seq(Item) /\ W \o B \in Seq(Item)
    BY <1>4, Catenation
  <2>2. Rest = W \o buffered
    BY <1>3, <2>1, ConcatEmptySeq DEF Rest, W
  <2>3. Rest' = W \o B
    BY <1>2, <1>3, <1>5, <2>1, ConcatEmptySeq DEF Rest
  <2>4. Pipeline' = pending'.items \o Rest'
    BY DEF Pipeline, Rest
  <2> QED  BY <1>2, <1>4, <2>2, <2>3, <2>4
<1> DEFINE hB == <<h>> \o B
           WB == W \o B
<1>7. /\ WB \in Seq(Item) /\ hB \in Seq(Item)
      /\ Range(WB) = Range(W) \cup Range(B)
      /\ Range(hB) = {h} \cup Range(B)
      /\ Sorted(hB, late) <=>
           /\ Sorted(B, late)
           /\ \A y \in Range(B) : h.src = y.src /\ (late => y.class # "refused") => h.pos < y.pos
  BY <1>1, <1>4, Catenation, RangeCat, OneMore
<1> HIDE DEF hB, WB
<1>8. Range(Rest) = Range(W) \cup ({h} \cup Range(B)) /\ Range(Pipeline') = Range(Pipeline)
  <2>1. Range(W \o hB) = Range(W) \cup Range(hB) /\ Range(<<h>> \o WB) = {h} \cup Range(WB)
    BY <1>1, <1>4, <1>7, RangeCat, OneMore
  <2> QED  BY <1>1, <1>6, <1>7, <2>1 DEF hB, WB
<1>9. Sorted(Pipeline', late)
  <2>1. /\ Sorted(W, late) /\ Sorted(hB, late)
        /\ \A x \in Range(W), y \in Range(hB) :
             x.src = y.src /\ (late => y.class # "refused") => x.pos < y.pos
    <3>1. Sorted(W \o hB, late)
      BY <1>1, <1>6 DEF Order, hB
    <3> QED  BY <1>1, <1>4, <1>7, <3>1, SortedCat
  <2>2. Sorted(WB, late)
    <3>1. Sorted(W \o B, late)
      BY <1>1, <1>4, <1>7, <2>1, SortedCat
    <3> QED  BY <3>1 DEF WB
  <2>3. \A y \in Range(WB) : h.src = y.src /\ (late => y.class # "refused") => h.pos < y.pos
    BY <1>3, <1>7, <2>1
  <2>4. Sorted(<<h>> \o WB, late)
    BY <1>1, <1>4, <1>7, <2>2, <2>3, OneMore
  <2> QED  BY <1>6, <2>4 DEF WB
<1>10. TypeOK'
  <2>1. pending' \in [kind : {"none", "batch", "rejection"}, items : Seq(Item)]
        /\ pending'.kind # "none" /\ buffered' \in Seq(Item)
    BY <1>2, <1>4
  <2> QED  BY <1>1, <1>2, <2>1 DEF TypeOK, durable
<1>11. Control' /\ Running'
  <2>1. pending' # Nothing
    BY <1>2 DEF Nothing
  <2> QED  BY <1>1, <1>2, <2>1 DEF Control, At, Running
<1>12. Draining'
  BY <1>2 DEF Draining, At
<1>13. /\ Records(Pipeline') = Records(Pipeline)
       /\ \A x \in Range(Rest') : x \in Range(Rest)
       /\ Sorted(pending'.items, FALSE) /\ Range(pending'.items) \subseteq Range(Rest)
  BY <1>2, <1>4, <1>6, <1>7, <1>8 DEF Records, WB
<1> QED  BY <1>1, <1>2, <1>9, <1>10, <1>11, <1>12, <1>13, MovedOn

LEMMA RejectionQueued ==
  ASSUME LoopInv, QueueRejection
  PROVE  LoopInv'
<1> DEFINE d == Head(deferred)
           r == [d EXCEPT !.class = "refused"]
<1>1. /\ Running /\ pending = Nothing /\ sealed = FALSE /\ TypeOK /\ Draining /\ pc = "refuse"
      /\ Pipeline = Rest /\ Order /\ late = TRUE /\ deferred # <<>> /\ batch = <<>>
  <2>1. pc = "refuse"
    BY DEF QueueRejection
  <2>2. Draining /\ late \in BOOLEAN /\ TypeOK
    BY <2>1, AtStep DEF TypeOK
  <2>3. late /\ deferred # <<>> /\ batch = <<>>
    BY <2>1, <2>2 DEF Draining, At
  <2> QED  BY <2>1, <2>2, <2>3, AtStep DEF LoopInv
<1>2. /\ UNCHANGED <<phase, after, drainFor, ret, queue, batch, pending, sealed, read, durable,
                     faults, late>>
      /\ buffered' = <<r>> \o buffered /\ deferred' = <<>> /\ pc' = DrainReturns
  BY DEF QueueRejection, history
<1>3. /\ d \in Queued /\ deferred = <<d>> /\ queue \in Seq(Queued) /\ queue \in Seq(Item)
      /\ buffered \in Seq(Item)
  <2>1. deferred \in Seq(Queued) /\ Len(deferred) <= 1 /\ queue \in Seq(Queued)
    BY <1>1 DEF TypeOK
  <2> QED  BY <1>1, <2>1, OneInFront, PipelineTypes, QueuedAreItems
<1>4. /\ d \in Item /\ r \in Item /\ r.src = d.src /\ r.pos = d.pos /\ r.class = "refused"
      /\ d.class # "refused"
  BY <1>3 DEF Queued, Item
<1> HIDE DEF d, r
<1> DEFINE A == queue \o buffered
           rB == <<r>> \o buffered
<1>5. /\ A \in Seq(Item) /\ rB \in Seq(Item)
      /\ Range(A) = Range(queue) \cup Range(buffered) /\ Range(rB) = {r} \cup Range(buffered)
      /\ Records(A) = Records(queue) \cup Records(buffered)
      /\ Records(rB) = {<<d.src, d.pos>>} \cup Records(buffered)
      /\ Sorted(rB, TRUE) <=>
           /\ Sorted(buffered, TRUE)
           /\ \A y \in Range(buffered) : d.src = y.src /\ y.class # "refused" => d.pos < y.pos
  <2>1. /\ A \in Seq(Item) /\ Range(A) = Range(queue) \cup Range(buffered)
        /\ Records(A) = Records(queue) \cup Records(buffered)
    BY <1>3, Catenation, RangeCat, RecordsCat
  <2>2. /\ rB \in Seq(Item) /\ Range(rB) = {r} \cup Range(buffered)
        /\ Records(rB) = {<<r.src, r.pos>>} \cup Records(buffered)
        /\ Sorted(rB, TRUE) <=>
             /\ Sorted(buffered, TRUE)
             /\ \A y \in Range(buffered) : r.src = y.src /\ y.class # "refused" => r.pos < y.pos
    <3>1. buffered \in Seq(Item) /\ r \in Item /\ TRUE \in BOOLEAN
      BY <1>3, <1>4
    <3> HIDE <1>3, <1>4
    <3> QED  BY <3>1, OneMore
  <2> QED  BY <1>4, <2>1, <2>2
<1>7. Waiting' = queue /\ Waiting = <<d>> \o queue
  BY <1>2, <1>3, ConcatEmptySeq DEF Waiting
<1>8. Rest = <<d>> \o A
  <2>1. <<d>> \in Seq(Item)
    BY <1>4, EmptyAndOne
  <2>2. (<<d>> \o queue) \o buffered = <<d>> \o (queue \o buffered)
    BY <1>3, <2>1, ConcatAssociative
  <2>3. <<d>> \o (queue \o buffered) \in Seq(Item)
    BY <1>4, <1>5, OneMore
  <2> QED  BY <1>1, <1>7, <2>2, <2>3, ConcatEmptySeq DEF Rest
<1> HIDE DEF A, rB
<1>9. Rest' = queue \o rB /\ Pipeline' = Rest'
  <2>1. queue \o rB \in Seq(Item)
    BY <1>3, <1>5, Catenation
  <2>2. Rest' = queue \o rB
    BY <1>1, <1>2, <1>7, <2>1, ConcatEmptySeq DEF Rest, rB, d, r
  <2>3. Pipeline' = <<>> \o Rest'
    BY <1>1, <1>2 DEF Pipeline, Rest, Nothing
  <2> QED  BY <2>1, <2>2, <2>3, ConcatEmptySeq
<1>10. /\ Records(Pipeline') = Records(Pipeline)
       /\ Range(Rest') = Range(queue) \cup ({r} \cup Range(buffered))
       /\ Range(Rest) = {d} \cup (Range(queue) \cup Range(buffered))
  <2>1. /\ Records(<<d>> \o A) = {<<d.src, d.pos>>} \cup Records(A)
        /\ Range(<<d>> \o A) = {d} \cup Range(A)
    BY <1>4, <1>5, OneMore
  <2>2. /\ Records(queue \o rB) = Records(queue) \cup Records(rB)
        /\ Range(queue \o rB) = Range(queue) \cup Range(rB)
    BY <1>3, <1>5, RecordsCat, RangeCat
  <2> QED  BY <1>1, <1>5, <1>8, <1>9, <2>1, <2>2
<1>11. /\ Sorted(A, TRUE)
       /\ \A y \in Range(queue) \cup Range(buffered) :
            d.src = y.src /\ y.class # "refused" => d.pos < y.pos
  <2>1. Sorted(<<d>> \o A, TRUE)
    BY <1>1, <1>8 DEF Order
  <2> QED  BY <1>4, <1>5, <2>1, OneMore
<1>12. Sorted(Pipeline', TRUE)
  <2>1. /\ Sorted(queue, TRUE) /\ Sorted(buffered, TRUE)
        /\ \A x \in Range(queue), y \in Range(buffered) :
             x.src = y.src /\ y.class # "refused" => x.pos < y.pos
    BY <1>3, <1>11, SortedCat DEF A
  <2>2. Sorted(rB, TRUE)
    BY <1>5, <1>11, <2>1
  <2>3. \A x \in Range(queue), y \in Range(rB) :
          x.src = y.src /\ y.class # "refused" => x.pos < y.pos
    BY <1>4, <1>5, <2>1
  <2>4. Sorted(queue \o rB, TRUE)
    BY <1>3, <1>5, <2>1, <2>2, <2>3, SortedCat
  <2> QED  BY <1>9, <2>4
<1>13. pc' \in {"dwell", "flush"} /\ (pc' = "dwell" => drainFor = "poll")
  BY <1>2 DEF DrainReturns
<1>14. TypeOK' /\ Running' /\ Control'
  <2>1. buffered' \in Seq(Item) /\ deferred' \in Seq(Queued) /\ Len(deferred') <= 1
    BY <1>2, <1>5, EmptySeq DEF rB, r, d
  <2>2. TypeOK'
    BY <1>1, <1>2, <1>13, <2>1 DEF TypeOK, durable
  <2> QED  BY <1>1, <1>2, <1>13, <2>2 DEF Control, At, Running
<1>15. Draining'
  <2>1. /\ buffered' # <<>> /\ Head(buffered') = r
    <3>1. <<r>> \in Seq(Item) /\ Len(<<r>>) = 1 /\ <<r>>[1] = r
      BY <1>4, EmptyAndOne
    <3>2. Len(rB) = 1 + Len(buffered) /\ rB[1] = r /\ Len(buffered) \in Nat
      BY <1>3, <3>1, ConcatProperties DEF rB
    <3>3. rB # <<>>
      BY <1>3, <3>2
    <3> QED  BY <1>2, <3>2, <3>3 DEF rB, r, d
  <2>2. \A x \in Range(Waiting') : x.src = r.src => r.pos < x.pos
    BY <1>3, <1>4, <1>7, <1>11, QueuedAreItems
  <2>3. d.pos > committed[d.src]
    BY <1>1, <1>4, <1>10 DEF Order
  <2>4. drainFor = "shutdown" => Range(buffered') = {r}
    <3>1. drainFor = "shutdown" => buffered = <<>>
      BY <1>1 DEF Draining, At
    <3> QED  BY <1>2, <1>5, <3>1, EmptyAndOne DEF rB, r, d
  <2> QED  BY <1>1, <1>2, <1>4, <1>13, <2>1, <2>2, <2>3, <2>4 DEF Draining, At, durable
<1>16. \A x \in Range(Rest') : x.class # "refused" => x \in Range(Rest)
  BY <1>4, <1>10
<1> QED  BY <1>1, <1>2, <1>10, <1>12, <1>14, <1>15, <1>16, MovedOn
-----------------------------------------------------------------------------
(* A poll.                                                                 *)

LEMMA NewRecords ==
  ASSUME NEW s \in Source, NEW from \in Nat, NEW N \in Seq(Item),
         \A i \in 1..Len(N) : N[i].src = s /\ N[i].pos = from + i
  PROVE  /\ Sorted(N, FALSE) /\ Sorted(N, TRUE)
         /\ \A x \in Range(N) : x.src = s /\ from < x.pos /\ x.pos <= from + Len(N)
         /\ \A k \in Nat : from < k /\ k <= from + Len(N) => <<s, k>> \in Records(N)
<1>3. Sorted(N, FALSE) /\ Sorted(N, TRUE)
  BY DEF Sorted
<1>4. ASSUME NEW x \in Range(N) PROVE x.src = s /\ from < x.pos /\ x.pos <= from + Len(N)
  <2>1. PICK i \in 1..Len(N) : x = N[i]
    BY Elements
  <2> QED  BY <2>1
<1>5. ASSUME NEW k \in Nat, from < k, k <= from + Len(N) PROVE <<s, k>> \in Records(N)
  <2>1. k - from \in 1..Len(N) /\ from + (k - from) = k
    BY <1>5
  <2>2. N[k - from] \in Range(N) /\ N[k - from].src = s /\ N[k - from].pos = k
    BY <2>1, Elements
  <2> QED  BY <2>2, RecordTypes
<1> QED  BY <1>3, <1>4, <1>5

LEMMA SourcePolled ==
  ASSUME LoopInv, PollSource
  PROVE  LoopInv'
<1>1. /\ Running /\ pending = Nothing /\ sealed = FALSE /\ TypeOK /\ Draining /\ pc = "sources"
      /\ Pipeline = Rest /\ pending.items = <<>> /\ Order /\ Publication /\ after \in Source
      /\ buffered = <<>> /\ late \in BOOLEAN
  <2>1. pc = "sources" /\ after \in Source
    BY DEF PollSource
  <2>2. Draining /\ TypeOK
    BY <2>1, AtStep
  <2> QED  BY <2>1, <2>2, AtStep DEF LoopInv, Draining, TypeOK
<1> DEFINE from == read[after]
<1>2. PICK n \in 0..BatchSize : \E class \in [1..n -> Classes] :
        /\ buffered' = buffered \o
             [i \in 1..n |-> [src |-> after, pos |-> read[after] + i, class |-> class[i]]]
        /\ read' = [read EXCEPT ![after] = @ + n]
  BY DEF PollSource
<1>3. PICK class \in [1..n -> Classes] :
        /\ buffered' = buffered \o
             [i \in 1..n |-> [src |-> after, pos |-> read[after] + i, class |-> class[i]]]
        /\ read' = [read EXCEPT ![after] = @ + n]
  BY <1>2
<1> DEFINE N == [i \in 1..n |-> [src |-> after, pos |-> from + i, class |-> class[i]]]
<1>4. /\ UNCHANGED <<phase, drainFor, ret, queue, deferred, batch, pending, sealed, durable, faults, late>>
      /\ after' = after + 1 /\ pc' = "process"
  BY DEF PollSource, history
<1>5. n \in Nat /\ from \in Nat /\ read \in [Source -> Nat] /\ committed \in [Source -> Nat]
  BY <1>1, RuntimeAssumption DEF TypeOK
<1>6. N \in Seq(Item) /\ Len(N) = n /\ \A i \in 1..n : N[i].src = after /\ N[i].pos = from + i
  <2>1. \A i \in 1..n : N[i] \in Item /\ N[i].src = after /\ N[i].pos = from + i
    <3> TAKE i \in 1..n
    <3>1. class[i] \in {"event", "refused", "unrepresentable"}
      BY RuntimeAssumption
    <3>2. /\ N[i] = [src |-> after, pos |-> from + i, class |-> class[i]]
          /\ from + i \in Nat \ {0} /\ after \in Source
      BY <1>1, <1>5
    <3> HIDE DEF from, N
    <3> QED  BY <3>1, <3>2 DEF Item
  <2> QED  BY <1>5, <2>1
<1> HIDE DEF N, from
<1>7. /\ Sorted(N, FALSE) /\ Sorted(N, TRUE)
      /\ \A x \in Range(N) : x.src = after /\ from < x.pos /\ x.pos <= from + n
      /\ \A k \in Nat : from < k /\ k <= from + n => <<after, k>> \in Records(N)
  <2>1. /\ after \in Source /\ from \in Nat /\ N \in Seq(Item)
        /\ \A i \in 1..Len(N) : N[i].src = after /\ N[i].pos = from + i
    BY <1>1, <1>5, <1>6
  <2>2. /\ Sorted(N, FALSE) /\ Sorted(N, TRUE)
        /\ \A x \in Range(N) : x.src = after /\ from < x.pos /\ x.pos <= from + Len(N)
        /\ \A k \in Nat : from < k /\ k <= from + Len(N) => <<after, k>> \in Records(N)
    BY ONLY <2>1, NewRecords
  <2> QED  BY <1>6, <2>2
<1>8. buffered' = N
  <2>1. buffered' = buffered \o N
    BY <1>3 DEF N, from
  <2> QED  BY <1>1, <1>6, <2>1, ConcatEmptySeq
<1>9. read' \in [Source -> Nat] /\ read'[after] = from + n
      /\ \A s \in Source : s # after => read'[s] = read[s]
  BY <1>1, <1>3, <1>5 DEF from
<1>10. \A s \in Source : read[s] <= read'[s]
  BY <1>5, <1>9 DEF from
<1>11. Pipeline \in Seq(Item) /\ Pipeline' = Pipeline \o N /\ Rest' = Rest \o N
  <2>1. batch \in Seq(Item) /\ Waiting \in Seq(Item) /\ Waiting' = Waiting
    BY <1>1, <1>4, PipelineTypes DEF Waiting
  <2>2. Rest = batch \o Waiting
    BY <1>1, <2>1, ConcatEmptySeq DEF Rest
  <2>3. batch \o (Waiting \o N) = (batch \o Waiting) \o N
    BY <1>6, <2>1, ConcatAssociative, SMTT(30)
  <2>4. Rest' = Rest \o N
    BY <1>4, <1>8, <2>1, <2>2, <2>3 DEF Rest
  <2>5. Pipeline \in Seq(Item) /\ Rest \o N \in Seq(Item)
    BY <1>1, <1>6, PipelineTypes, Catenation
  <2>6. Pipeline' = pending.items \o Rest'
    BY <1>4 DEF Pipeline, Rest
  <2> QED  BY <1>1, <2>4, <2>5, <2>6, ConcatEmptySeq
<1> DEFINE P == Pipeline
<1>12. /\ Range(P \o N) = Range(P) \cup Range(N)
       /\ Records(Pipeline)' = Records(P) \cup Records(N)
  <2>1. Records(Pipeline)' = Records(P \o N)
    BY <1>11 DEF Records
  <2> QED  BY <1>6, <1>11, <2>1, RangeCat, RecordsCat
<1>13. \A r \in Records(N) : r[1] = after /\ from < r[2] /\ r[2] <= from + n /\ r[2] \in Nat
  BY <1>6, <1>7, RecordTypes
<1>14. \A r \in Records(P) : r[1] \in Source /\ r[2] \in Nat /\ r[2] <= read[r[1]]
  BY <1>1, <1>11, RecordTypes DEF Order
<1>15. \A x \in Range(P) : x.src \in Source /\ x.pos \in Nat /\ x.pos <= read[x.src]
  BY <1>11, <1>14, RecordTypes
<1>16. \A s \in Source : \A k \in Nat : k <= read'[s] /\ ~(k <= read[s]) => <<s, k>> \in Records(N)
  <2> SUFFICES ASSUME NEW s \in Source, NEW k \in Nat, k <= read'[s], ~(k <= read[s])
               PROVE  <<s, k>> \in Records(N)
    OBVIOUS
  <2>1. s = after
    BY <1>9
  <2>2. from < k /\ k <= from + n
    BY <1>5, <1>9, <2>1 DEF from
  <2> QED  BY <1>7, <2>1, <2>2
<1>17. Order'
  <2>1. Sorted(Pipeline, late)'
    <3>1. \A x \in Range(P), y \in Range(N) : x.src = y.src => x.pos < y.pos
      <4> TAKE x \in Range(P), y \in Range(N)
      <4>1. x.pos \in Nat /\ x.pos <= read[x.src]
        BY <1>15
      <4>2. y.src = after /\ from < y.pos /\ y.pos \in Nat
        BY <1>6, <1>7, RecordTypes
      <4>3. x.src = after => x.pos <= from
        BY <4>1 DEF from
      <4> QED  BY <1>5, <4>1, <4>2, <4>3
    <3>2. Sorted(P \o N, late)
      <4>1. Sorted(P, late) /\ Sorted(N, late) /\ P \in Seq(Item) /\ late \in BOOLEAN
        BY <1>1, <1>7, <1>11 DEF Order
      <4> HIDE DEF P
      <4> QED  BY <1>6, <3>1, <4>1, SortedCat
    <3>3. Sorted(Pipeline, late)' = Sorted(P \o N, late)
      BY <1>4, <1>11 DEF Sorted
    <3> QED  BY <3>2, <3>3
  <2>2. \A r \in Records(Pipeline)' : r[2] <= read'[r[1]]
    <3>1. \A r \in Records(P) : r[2] <= read'[r[1]]
      BY <1>5, <1>9, <1>10, <1>14
    <3> QED  BY <1>9, <1>12, <1>13, <3>1
  <2>3. \A s \in Source : committed'[s] <= read'[s]
    BY <1>1, <1>4, <1>5, <1>9, <1>10 DEF Order, durable
  <2>4. \A s \in Source : \A k \in Nat :
          committed'[s] < k /\ k <= read'[s] => <<s, k>> \in Records(Pipeline)'
    BY <1>1, <1>4, <1>12, <1>16 DEF Order, durable
  <2>5. \A x \in Range(Rest') : (late' => x.class # "refused") => x.pos > committed'[x.src]
    <3>1. Range(Rest') = Range(Rest) \cup Range(N)
      BY <1>1, <1>11, <1>12
    <3>2. \A x \in Range(N) : x.pos > committed[x.src]
      <4>1. committed[after] <= from
        BY <1>1 DEF Order, from
      <4>2. \A x \in Range(N) : x.pos \in Nat /\ x.src = after /\ from < x.pos
        BY <1>6, <1>7, RecordTypes
      <4>3. committed[after] \in Nat /\ from \in Nat
        BY <1>1, <1>5
      <4> QED  BY <4>1, <4>2, <4>3
    <3> QED  BY <1>1, <1>4, <3>1, <3>2 DEF Order, durable
  <2>6. ~late' => \A r \in Records(Pipeline)' : \A k \in Nat :
          r[2] < k /\ k <= read'[r[1]] => <<r[1], k>> \in Records(Pipeline)'
    <3> SUFFICES ASSUME ~late, NEW r \in Records(P) \cup Records(N), NEW k \in Nat,
                        r[2] < k, k <= read'[r[1]], k <= read[r[1]]
                 PROVE  <<r[1], k>> \in Records(P) \cup Records(N)
      BY <1>1, <1>4, <1>12, <1>13, <1>14, <1>16
    <3>1. CASE r \in Records(P)
      BY <1>1, <3>1 DEF Order
    <3>2. CASE r \in Records(N)
      <4>1. from < r[2] /\ r[2] < k /\ k <= from /\ r[2] \in Nat
        BY <1>13, <3>2 DEF from
      <4> QED  BY <1>5, <4>1
    <3> QED  BY <3>1, <3>2
  <2>7. ~late' \/ faults' = 0 => \A s \in Source : \A k \in Nat \ {0} :
          k <= read'[s] => <<s, k>> \in delivered' \cup Records(Pipeline)'
    BY <1>1, <1>4, <1>12, <1>16 DEF Order, durable
  <2> QED  BY <2>1, <2>2, <2>3, <2>4, <2>5, <2>6, <2>7 DEF Order
<1>18. TypeOK' /\ Running'
  <2>1. after' \in Nat
    BY <1>1, <1>4 DEF TypeOK
  <2> QED  BY <1>1, <1>4, <1>6, <1>8, <1>9, <2>1 DEF TypeOK, Running, durable
<1>19. Control' /\ Draining'
  BY <1>1, <1>4 DEF Control, Draining, At, Running
<1>20. Publication'
  <2>1. /\ Regresses(pending.items)' = Regresses(pending.items)
        /\ Records(pending.items)' = Records(pending.items)
        /\ Sorted(pending.items, FALSE)' = Sorted(pending.items, FALSE)
    BY <1>4 DEF Regresses, Touches, LastPosition, Of, Records, Sorted, durable
  <2> QED  BY <1>1, <1>4, <2>1 DEF Publication, durable
<1>21. Left'
  BY <1>4, <1>18, RunningLeft
<1> QED  BY <1>17, <1>18, <1>19, <1>20, <1>21 DEF LoopInv
-----------------------------------------------------------------------------
(* A publication, however it ends.                                         *)

LEMMA NoRecords ==
  /\ Sorted(<<>>, FALSE) /\ Records(<<>>) = {} /\ ~Regresses(<<>>)
  BY DEF Sorted, Records, Range, Regresses, Touches, Of

\* What the checkpoint becomes, when it does not regress.
LEMMA CheckpointMoves ==
  ASSUME LoopInv, Running, ~Regresses(pending.items)
  PROVE  LET now == Advance(pending.items) IN
         /\ \A s \in Source : now[s] <= read[s]
         /\ \A s \in Source : \A k \in Nat :
              now[s] < k /\ k <= read[s] => <<s, k>> \in Records(Rest)
         /\ \A x \in Range(Rest) : (late => x.class # "refused") => x.pos > now[x.src]
<1> DEFINE now == Advance(pending.items)
           items == pending.items
<1>1. /\ Order /\ TypeOK /\ Publication /\ items \in Seq(Item) /\ Rest \in Seq(Item)
      /\ Pipeline = items \o Rest /\ Records(Pipeline) = Records(items) \cup Records(Rest)
      /\ committed \in [Source -> Nat] /\ read \in [Source -> Nat] /\ late \in BOOLEAN
  BY PipelineTypes DEF LoopInv, TypeOK
<1>2. /\ now \in [Source -> Nat]
      /\ \A x \in Range(items) : x.pos <= now[x.src]
      /\ \A s \in Source : now[s] = committed[s] \/ <<s, now[s]>> \in Records(items)
      /\ \A s \in Source : committed[s] <= now[s]
  BY <1>1, AdvanceFacts DEF Publication
<1>3. \A x \in Range(items), y \in Range(Rest) :
        x.src = y.src /\ (late => y.class # "refused") => x.pos < y.pos
  <2>1. Sorted(items \o Rest, late)
    BY <1>1 DEF Order
  <2> QED  BY <1>1, <2>1, SortedCat
<1> HIDE DEF now, items
<1>4. ASSUME NEW s \in Source PROVE now[s] <= read[s]
  <2>1. CASE now[s] = committed[s]
    BY <1>1, <2>1 DEF Order
  <2>2. CASE <<s, now[s]>> \in Records(items)
    BY <1>1, <2>2 DEF Order
  <2> QED  BY <1>2, <2>1, <2>2
<1>5. ASSUME NEW s \in Source, NEW k \in Nat, now[s] < k, k <= read[s]
      PROVE  <<s, k>> \in Records(Rest)
  <2>1. now[s] \in Nat /\ committed[s] \in Nat /\ committed[s] <= now[s]
    BY <1>1, <1>2
  <2>2. committed[s] < k
    BY <1>5, <2>1
  <2>3. <<s, k>> \in Records(items) \cup Records(Rest)
    BY <1>1, <1>5, <2>2 DEF Order
  <2>4. <<s, k>> \notin Records(items)
    <3> SUFFICES ASSUME <<s, k>> \in Records(items) PROVE FALSE
      OBVIOUS
    <3>1. PICK x \in Range(items) : x.src = s /\ x.pos = k
      BY <1>1, RecordTypes
    <3>2. k <= now[s]
      BY <1>2, <3>1
    <3> QED  BY <1>5, <2>1, <3>2
  <2> QED  BY <2>3, <2>4
<1>6. ASSUME NEW y \in Range(Rest), late => y.class # "refused"
      PROVE  y.pos > now[y.src]
  <2>1. y.src \in Source /\ y.pos \in Nat
    BY <1>1, RecordTypes
  <2>2. CASE now[y.src] = committed[y.src]
    BY <1>1, <1>6, <2>2 DEF Order
  <2>3. CASE <<y.src, now[y.src]>> \in Records(items)
    <3>1. PICK x \in Range(items) : x.src = y.src /\ x.pos = now[y.src]
      BY <1>1, <2>3, RecordTypes
    <3>2. x.pos < y.pos
      BY <1>3, <1>6, <3>1
    <3>3. now[y.src] \in Nat
      BY <1>2, <2>1
    <3> QED  BY <2>1, <3>1, <3>2, <3>3
  <2> QED  BY <1>2, <2>1, <2>2, <2>3
<1> QED  BY <1>4, <1>5, <1>6 DEF now

\* Up to the advanced checkpoint everything is published or was.
LEMMA CheckpointPublished ==
  ASSUME LoopInv, ~late, NEW s \in Source, NEW k \in Nat \ {0}, k <= Advance(pending.items)[s]
  PROVE  <<s, k>> \in delivered \cup Records(pending.items)
<1> DEFINE now == Advance(pending.items)
           items == pending.items
<1>1. TypeOK /\ Publication /\ Left /\ items \in Seq(Item) /\ committed \in [Source -> Nat]
  BY PipelineTypes DEF LoopInv, TypeOK
<1>2. now[s] = committed[s] \/ <<s, now[s]>> \in Records(items)
  BY <1>1, AdvanceFacts DEF Publication
<1> HIDE DEF now, items
<1>3. CASE now[s] = committed[s]
  BY <1>1, <1>3 DEF Left, Committed, now
<1>4. CASE <<s, now[s]>> \in Records(items)
  <2> DEFINE r == <<s, now[s]>>
  <2>1. r \in Records(items) /\ r[1] = s /\ r[2] = now[s] /\ k <= r[2]
    BY <1>4 DEF now
  <2> HIDE DEF r
  <2>2. <<r[1], k>> \in delivered \cup Records(items)
    BY <1>1, <2>1 DEF Publication, items
  <2> QED  BY <2>1, <2>2 DEF items
<1> QED  BY <1>2, <1>3, <1>4

LEMMA Succeeded ==
  ASSUME LoopInv, PublicationSucceeds
  PROVE  LoopInv'
<1> DEFINE now == Advance(pending.items)
           items == pending.items
<1>1. /\ pc = "publish" /\ ~Regresses(items) /\ committed' = now
      /\ delivered' = delivered \cup Records(items) /\ pending' = Nothing /\ sealed' = FALSE
      /\ pc' = ret /\ UNCHANGED <<phase, after, drainFor, ret, ram, read, faults, late>>
  BY DEF PublicationSucceeds, history
<1>2. /\ TypeOK /\ Control /\ Draining /\ Publication /\ Left /\ items \in Seq(Item)
      /\ Rest \in Seq(Item) /\ Pipeline = items \o Rest /\ late \in BOOLEAN
      /\ Records(Pipeline) = Records(items) \cup Records(Rest)
      /\ committed \in [Source -> Nat] /\ read \in [Source -> Nat]
  BY PipelineTypes DEF LoopInv, TypeOK
<1>3. now \in [Source -> Nat] /\ Records(items) \subseteq Source \X Nat
  BY <1>2, AdvanceFacts, RecordTypes DEF Publication
<1>4. Waiting' = Waiting /\ Rest' = Rest /\ Pipeline' = Rest /\ buffered' = buffered
      /\ batch' = batch /\ deferred' = deferred /\ pending'.items = <<>>
  <2>1. Waiting' = Waiting /\ Rest' = Rest /\ Pipeline' = <<>> \o Rest
    BY <1>1 DEF ram, Waiting, Rest, Pipeline, Nothing
  <2> QED  BY <1>1, <1>2, <2>1, ConcatEmptySeq DEF ram, Nothing
<1>5. TypeOK'
  <2>1. pending' \in [kind : {"none", "batch", "rejection"}, items : Seq(Item)]
    BY <1>1, EmptyAndOne DEF Nothing
  <2>2. delivered' \subseteq Source \X Nat
    BY <1>1, <1>2, <1>3 DEF TypeOK
  <2> QED  BY <1>1, <1>2, <1>3, <2>1, <2>2 DEF TypeOK, ram
<1>6. Control'
  BY <1>1, <1>2, <1>4 DEF TypeOK, Control, At, Running
<1>7. Draining'
  <2>1. \A x : x \notin Range(<<>>)
    BY DEF Range
  <2>2. ret = "stop" => buffered = <<>>
    BY <1>1, <1>2 DEF Draining, At
  <2> QED  BY <1>1, <1>2, <1>4, <2>1, <2>2 DEF Draining, At, TypeOK
<1>8. Publication'
  <2>1. (/\ Sorted(<<>>, FALSE) /\ Records(<<>>) = {} /\ ~Regresses(<<>>))'
    BY NoRecords, PTL
  <2>2. /\ Sorted(pending.items, FALSE)' /\ Records(pending.items)' = {}
        /\ ~Regresses(pending.items)'
    BY <1>4, <2>1 DEF Sorted, Records, Regresses, Touches, Of, LastPosition
  <2> QED  BY <2>2 DEF Publication
<1>9. ~late => Committed'
  BY <1>1, CheckpointPublished DEF Committed
<1>10. Left'
  <2>1. phase \in {"running", "stopping", "starting"}
    BY <1>1, <1>2 DEF Control, TypeOK
  <2>2. ~Stuck /\ pending # Nothing
    BY <1>1, <1>2 DEF Stuck, Control
  <2>3. faults # 0 \/ Running
    BY <1>2, <2>2 DEF Left
  <2> QED  BY <1>1, <1>9, <2>1, <2>3 DEF Left, Running
<1>11. ASSUME Running PROVE Order'
  <2>1. Order
    BY <1>11 DEF LoopInv
  <2>2. /\ Sorted(Rest, late)
        /\ \A x \in Range(items), y \in Range(Rest) :
             x.src = y.src /\ (late => y.class # "refused") => x.pos < y.pos
    BY <1>2, <2>1, SortedCat DEF Order
  <2>3. Sorted(Pipeline, late)' /\ Records(Pipeline)' = Records(Rest)
    BY <1>1, <1>4, <2>2 DEF Sorted, Records
  <2>4. /\ \A s \in Source : now[s] <= read[s]
        /\ \A s \in Source : \A k \in Nat :
             now[s] < k /\ k <= read[s] => <<s, k>> \in Records(Rest)
        /\ \A x \in Range(Rest) : (late => x.class # "refused") => x.pos > now[x.src]
    BY <1>1, <1>11, CheckpointMoves
  <2>5. ASSUME ~late, NEW r \in Records(Rest), NEW k \in Nat, r[2] < k, k <= read[r[1]]
        PROVE  <<r[1], k>> \in Records(Rest)
    <3>1. <<r[1], k>> \in Records(items) \cup Records(Rest)
      BY <1>2, <2>1, <2>5 DEF Order
    <3>2. <<r[1], k>> \notin Records(items)
      <4> SUFFICES ASSUME <<r[1], k>> \in Records(items) PROVE FALSE
        OBVIOUS
      <4>1. PICK x \in Range(items) : x.src = r[1] /\ x.pos = k
        BY <1>2, RecordTypes
      <4>2. PICK y \in Range(Rest) : y.src = r[1] /\ y.pos = r[2]
        BY <1>2, RecordTypes
      <4>3. k < r[2] /\ r[2] \in Nat
        BY <1>2, <2>2, <2>5, <4>1, <4>2, RecordTypes
      <4> QED  BY <2>5, <4>3
    <3> QED  BY <3>1, <3>2
  <2>6. delivered' \cup Records(Rest) = delivered \cup Records(Pipeline)
    BY <1>1, <1>2
  <2> QED  BY <1>1, <1>2, <1>4, <2>1, <2>3, <2>4, <2>5, <2>6 DEF Order
<1> QED  BY <1>1, <1>5, <1>6, <1>7, <1>8, <1>10, <1>11 DEF LoopInv, Running

\* The loop gives up with its publication pending.
LEMMA GivenUp ==
  ASSUME TypeOK, Control, pc = "publish", GiveUp, UNCHANGED <<ram, pending, ret, drainFor>>
  PROVE  /\ phase' \in {"running", "failed", "down"} /\ (phase' = "failed" => Running)
         /\ (Running' => Running) /\ Control' /\ Draining'
         /\ Pipeline' = Pipeline /\ Rest' = Rest /\ pending # Nothing
<1>1. phase \in {"running", "stopping", "starting"} /\ pending # Nothing
  BY DEF Control, TypeOK
<1>2. pc' = "idle" /\ phase' \in {"running", "failed", "down"} /\ (phase' = "failed" => Running)
      /\ (phase' = "running" => phase = "running")
  BY <1>1 DEF GiveUp, Running
<1> QED  BY <1>1, <1>2 DEF Control, Draining, At, Running, Pipeline, Rest, Waiting, ram

LEMMA Failed ==
  ASSUME LoopInv, PublicationFails
  PROVE  LoopInv'
<1> DEFINE now == Advance(pending.items)
           items == pending.items
<1>1. /\ pc = "publish" /\ faults' = faults + 1 /\ late' = late /\ GiveUp
      /\ UNCHANGED <<after, drainFor, ret, ram, pending, read>>
      /\ delivered' \in {delivered, delivered \cup Records(items)}
      /\ sealed' \in {sealed, TRUE}
      /\ \/ committed' = committed
         \/ /\ ~Regresses(items) /\ committed' = now
            /\ delivered' = delivered \cup Records(items)
  BY DEF PublicationFails, durable
<1>2. /\ TypeOK /\ Control /\ Publication /\ Left /\ items \in Seq(Item) /\ late \in BOOLEAN
      /\ committed \in [Source -> Nat] /\ read \in [Source -> Nat] /\ sealed \in BOOLEAN
      /\ faults \in Nat /\ delivered \subseteq Source \X Nat
  BY PipelineTypes DEF LoopInv, TypeOK
<1>3. now \in [Source -> Nat] /\ Records(items) \subseteq Source \X Nat
  BY <1>2, AdvanceFacts, RecordTypes DEF Publication
<1>4. /\ phase' \in {"running", "failed", "down"} /\ (Running' => Running) /\ Control' /\ Draining'
      /\ Pipeline' = Pipeline /\ Rest' = Rest /\ pc' = "idle"
  BY <1>1, <1>2, GivenUp DEF GiveUp
<1>5. TypeOK'
  <2>1. committed' \in [Source -> Nat] /\ delivered' \subseteq Source \X Nat /\ faults' \in Nat
    <3> HIDE DEF now, items
    <3>1. committed' = committed \/ committed' = now
      BY <1>1, Zenon
    <3>2. committed' \in [Source -> Nat]
      BY <1>2, <1>3, <3>1, Zenon
    <3>3. delivered' \subseteq Source \X Nat
      BY <1>1, <1>2, <1>3
    <3>4. faults' \in Nat
      BY <1>1, <1>2
    <3> QED  BY <3>2, <3>3, <3>4, Zenon
  <2>2. sealed' \in BOOLEAN
    BY <1>1, <1>2
  <2> QED  BY <1>1, <1>2, <1>4, <2>1, <2>2 DEF TypeOK, ram
<1>6. delivered \subseteq delivered' /\ Records(pending.items)' = Records(items) /\ faults' > 0
  BY <1>1, <1>2 DEF Records
<1>7. ~late => Committed'
  <2> SUFFICES ASSUME ~late, NEW s \in Source, NEW k \in Nat \ {0}, k <= committed'[s]
               PROVE  <<s, k>> \in delivered'
    BY DEF Committed
  <2>1. CASE committed' = committed
    BY <1>2, <1>6, <2>1 DEF Left, Committed
  <2>2. CASE committed' = now /\ delivered' = delivered \cup Records(items)
    BY <2>2, CheckpointPublished
  <2> QED  BY <1>1, <2>1, <2>2
<1>8. Left'
  BY <1>1, <1>4, <1>6, <1>7 DEF Left
<1>9. Publication'
  <2>1. Sorted(pending.items, FALSE)' = Sorted(items, FALSE)
    BY <1>1 DEF Sorted
  <2>2. ~late => ~Regresses(pending.items)'
    <3>1. \A s \in Source : Touches(items, s) => ~(LastPosition(s, items) < now[s])
      BY <1>2, AdvanceFacts DEF Publication
    <3>2. Regresses(pending.items)' <=>
            \E s \in Source : Touches(items, s) /\ LastPosition(s, items) < committed'[s]
      BY <1>1 DEF Regresses, Touches, LastPosition, Of
    <3>3. CASE committed' = committed
      BY <1>2, <3>2, <3>3 DEF Publication, Regresses
    <3>4. CASE committed' = now
      BY <3>1, <3>2, <3>4
    <3> QED  BY <1>1, <3>3, <3>4
  <2>3. \A r \in Records(items), k \in Nat \ {0} :
          <<r[1], k>> \in delivered \cup Records(items) =>
            <<r[1], k>> \in delivered' \cup Records(items)
    BY <1>6
  <2> QED  BY <1>1, <1>2, <1>6, <2>1, <2>2, <2>3 DEF Publication
<1>10. ASSUME Running PROVE Order'
  <2>1. Order
    BY <1>10 DEF LoopInv
  <2>2. Sorted(Pipeline, late)' /\ Records(Pipeline)' = Records(Pipeline)
    BY <1>1, <1>4, <2>1 DEF Sorted, Records, Order
  <2>3. /\ \A s \in Source : committed'[s] <= read[s]
        /\ \A s \in Source : \A k \in Nat :
             committed'[s] < k /\ k <= read[s] => <<s, k>> \in Records(Pipeline)
        /\ \A x \in Range(Rest) : (late => x.class # "refused") => x.pos > committed'[x.src]
    <3>1. CASE committed' = committed
      BY <2>1, <3>1 DEF Order
    <3>2. CASE committed' = now /\ ~Regresses(items)
      <4>1. Records(Rest) \subseteq Records(Pipeline)
        BY <1>2, PipelineTypes
      <4> QED  BY <1>10, <3>2, <4>1, CheckpointMoves
    <3> QED  BY <1>1, <3>1, <3>2
  <2>4. ~late \/ faults' = 0 => \A s \in Source : \A k \in Nat \ {0} :
          k <= read[s] => <<s, k>> \in delivered' \cup Records(Pipeline)
    BY <1>6, <2>1 DEF Order
  <2> QED  BY <1>1, <1>4, <2>1, <2>2, <2>3, <2>4 DEF Order
<1> QED  BY <1>4, <1>5, <1>8, <1>9, <1>10 DEF LoopInv

LEMMA Refused ==
  ASSUME LoopInv, PublicationRefused
  PROVE  LoopInv'
<1> DEFINE items == pending.items
<1>1. /\ pc = "publish" /\ Regresses(items) /\ GiveUp /\ sealed' = TRUE
      /\ delivered' = delivered \cup Records(items)
      /\ UNCHANGED <<after, drainFor, ret, ram, pending, read, committed, faults, late>>
  BY DEF PublicationRefused, history
<1>2. /\ TypeOK /\ Control /\ Publication /\ Left /\ items \in Seq(Item) /\ late = TRUE
      /\ delivered \subseteq Source \X Nat
  BY <1>1, PipelineTypes DEF LoopInv, TypeOK, Publication
<1>3. /\ phase' \in {"running", "failed", "down"} /\ (Running' => Running) /\ Control' /\ Draining'
      /\ Pipeline' = Pipeline /\ Rest' = Rest /\ pc' = "idle"
  BY <1>1, <1>2, GivenUp DEF GiveUp
<1>4. TypeOK'
  <2>1. delivered' \subseteq Source \X Nat
    BY <1>1, <1>2, RecordTypes
  <2> QED  BY <1>1, <1>2, <1>3, <2>1 DEF TypeOK, ram
<1>5. Sorted(pending.items, FALSE)' = Sorted(items, FALSE) /\ Regresses(pending.items)' = Regresses(items)
  BY <1>1 DEF Sorted, Regresses, Touches, LastPosition, Of
<1>6. Publication' /\ Left'
  BY <1>1, <1>2, <1>3, <1>5 DEF Publication, Left, Stuck
<1>7. ASSUME Running PROVE Order'
  <2>1. Order
    BY <1>7 DEF LoopInv
  <2>2. Sorted(Pipeline, late)' /\ Records(Pipeline)' = Records(Pipeline)
    BY <1>1, <1>3, <2>1 DEF Sorted, Records, Order
  <2>3. ~late \/ faults = 0 => \A s \in Source : \A k \in Nat \ {0} :
          k <= read[s] => <<s, k>> \in delivered' \cup Records(Pipeline)
    BY <1>1, <2>1 DEF Order
  <2> QED  BY <1>1, <1>3, <2>1, <2>2, <2>3 DEF Order
<1> QED  BY <1>3, <1>4, <1>6, <1>7 DEF LoopInv
-----------------------------------------------------------------------------
(* Exits and starts.                                                       *)

LEMMA Crashed ==
  ASSUME LoopInv, Crash
  PROVE  LoopInv'
<1>1. /\ faults' = faults + 1 /\ late' = late /\ phase' = "down" /\ pc' = "idle"
      /\ UNCHANGED <<after, drainFor, ret, ram, pending, sealed, read, durable>>
  BY DEF Crash
<1>2. TypeOK /\ Control /\ Publication /\ Left /\ faults \in Nat
  BY DEF LoopInv, TypeOK
<1>3. TypeOK'
  BY <1>1, <1>2 DEF TypeOK, ram, durable
<1>4. Control' /\ Draining'
  BY <1>1, <1>2 DEF Control, Draining, At, Running
<1>5. /\ Regresses(pending.items)' = Regresses(pending.items)
      /\ Records(pending.items)' = Records(pending.items)
      /\ Sorted(pending.items, FALSE)' = Sorted(pending.items, FALSE)
      /\ Committed' = Committed
  BY <1>1 DEF Regresses, Touches, LastPosition, Of, Records, Sorted, durable, Committed
<1>6. Publication'
  BY <1>1, <1>2, <1>5 DEF Publication, durable
<1>7. Left' /\ ~Running'
  <2>1. faults' # 0
    BY <1>1, <1>2
  <2> QED  BY <1>1, <1>2, <1>5, <2>1 DEF Left, Running
<1> QED  BY <1>3, <1>4, <1>6, <1>7 DEF LoopInv

LEMMA StartedUp ==
  ASSUME LoopInv, Start
  PROVE  LoopInv'
<1>1. /\ phase \in {"down", "stopped", "failed"} /\ phase' = "starting"
      /\ buffered' = <<>> /\ queue' = <<>> /\ deferred' = <<>> /\ batch' = <<>>
      /\ pending' = (IF sealed THEN pending ELSE Nothing)
      /\ pc' = (IF sealed THEN "publish" ELSE "started") /\ ret' = "started"
      /\ UNCHANGED <<after, drainFor, sealed, read, durable, faults, late>>
  BY DEF Start, history
<1>2. /\ TypeOK /\ Control /\ Publication /\ Left /\ ~Running /\ sealed \in BOOLEAN
      /\ pending \in [kind : {"none", "batch", "rejection"}, items : Seq(Item)]
  BY <1>1 DEF LoopInv, TypeOK, Running
<1>3. Nothing \in [kind : {"none", "batch", "rejection"}, items : Seq(Item)] /\ Nothing.items = <<>>
  BY EmptyAndOne DEF Nothing
<1>4. TypeOK'
  <2>1. /\ <<>> \in Seq(Item) /\ <<>> \in Seq(Queued) /\ <<>> \in Seq(Event) /\ Len(<<>>) <= 1
    BY EmptySeq
  <2>2. pending' \in [kind : {"none", "batch", "rejection"}, items : Seq(Item)]
        /\ (pending'.kind = "none" => pending' = Nothing)
    BY <1>1, <1>2, <1>3 DEF TypeOK
  <2>3. buffered' \in Seq(Item) /\ queue' \in Seq(Queued) /\ batch' \in Seq(Event)
        /\ deferred' \in Seq(Queued) /\ Len(deferred') <= 1
    BY <1>1, <2>1
  <2>4. phase' = "starting" /\ ret' = "started" /\ pc' \in {"publish", "started"}
    BY <1>1
  <2> QED  BY <1>1, <1>2, <2>2, <2>3, <2>4 DEF TypeOK, durable
<1>5. Rest' = <<>>
  <2>1. <<>> \o (<<>> \o <<>>) = <<>> /\ <<>> \o <<>> = <<>>
    BY EmptyAndOne, ConcatEmptySeq
  <2> QED  BY <1>1, <2>1 DEF Rest, Waiting
<1>6. Control' /\ Draining'
  BY <1>1, <1>2, <1>5 DEF Control, Draining, At, Running
<1>7. Committed' = Committed
  BY <1>1 DEF Committed, durable
<1>8. CASE sealed
  <2>1. pending' = pending
    BY <1>1, <1>8
  <2>2. /\ Regresses(pending.items)' = Regresses(pending.items)
        /\ Records(pending.items)' = Records(pending.items)
        /\ Sorted(pending.items, FALSE)' = Sorted(pending.items, FALSE)
    BY <1>1, <2>1 DEF Regresses, Touches, LastPosition, Of, Records, Sorted, durable
  <2>3. Publication'
    BY <1>1, <1>2, <2>2 DEF Publication, durable
  <2>4. Left' /\ ~Running'
    BY <1>1, <1>2, <1>7, <2>1, <2>2 DEF Left, Running, Stuck
  <2> QED  BY <1>4, <1>6, <2>3, <2>4 DEF LoopInv
<1>9. CASE ~sealed
  <2>1. pending' = Nothing /\ pending'.items = <<>> /\ ~Stuck
    BY <1>1, <1>3, <1>9 DEF Stuck
  <2>2. /\ ~Regresses(pending.items)' /\ Records(pending.items)' = {}
        /\ Sorted(pending.items, FALSE)'
    BY <2>1 DEF Regresses, Touches, LastPosition, Of, Records, Sorted, Range
  <2>3. Publication'
    BY <2>2 DEF Publication
  <2>4. Left' /\ ~Running'
    BY <1>1, <1>2, <1>7, <2>1 DEF Left, Running
  <2> QED  BY <1>4, <1>6, <2>3, <2>4 DEF LoopInv
<1> QED  BY <1>2, <1>8, <1>9

LEMMA Resumed ==
  ASSUME LoopInv, Started
  PROVE  LoopInv'
<1>1. /\ pc = "started" /\ phase' = "running" /\ pc' = "idle" /\ read' = committed
      /\ UNCHANGED <<after, drainFor, ret, ram, pending, sealed, durable, faults, late>>
  BY DEF Started, history
<1>2. /\ TypeOK /\ Control /\ Publication /\ Left /\ late \in BOOLEAN
      /\ committed \in [Source -> Nat]
  BY DEF LoopInv, TypeOK
<1>3. phase = "starting" /\ pending = Nothing /\ ~sealed /\ Rest = <<>> /\ ~Running
  BY <1>1, <1>2 DEF Control, At, Running, TypeOK
<1>4. TypeOK'
  BY <1>1, <1>2 DEF TypeOK, ram, durable
<1>5. Control' /\ Draining'
  BY <1>1, <1>3 DEF Control, Draining, At, Running
<1>6. /\ Regresses(pending.items)' = Regresses(pending.items)
      /\ Records(pending.items)' = Records(pending.items)
      /\ Sorted(pending.items, FALSE)' = Sorted(pending.items, FALSE)
      /\ Committed' = Committed
  BY <1>1 DEF Regresses, Touches, LastPosition, Of, Records, Sorted, durable, Committed
<1>7. Publication'
  BY <1>1, <1>2, <1>6 DEF Publication, durable
<1>8. Left' /\ Running'
  BY <1>1, <1>2, <1>6 DEF Left, Running
<1>9. Order'
  <2>1. Rest' = <<>> /\ Pipeline' = <<>>
    <3>1. Rest' = Rest /\ Pipeline' = Pipeline
      BY <1>1 DEF Rest, Pipeline, Waiting, ram
    <3> QED  BY <1>2, <1>3, <3>1, NoPipeline
  <2>2. Sorted(Pipeline, late)' /\ Records(Pipeline)' = {} /\ Range(Rest)' = {}
    BY <2>1 DEF Sorted, Records, Range
  <2>3. ~late \/ faults = 0 => Committed
    BY <1>2, <1>3 DEF Left, Stuck
  <2>4. ~late' \/ faults' = 0 => \A s \in Source : \A k \in Nat \ {0} :
          k <= read'[s] => <<s, k>> \in delivered' \cup Records(Pipeline)'
    BY <1>1, <2>3 DEF Committed, durable
  <2>5. \A s \in Source : committed'[s] <= read'[s]
    BY <1>1, <1>2 DEF durable
  <2>6. \A s \in Source : \A k \in Nat : ~(committed'[s] < k /\ k <= read'[s])
    BY <1>1, <1>2 DEF durable
  <2> QED  BY <2>2, <2>4, <2>5, <2>6 DEF Order
<1> QED  BY <1>4, <1>5, <1>7, <1>8, <1>9 DEF LoopInv

LEMMA StopEnds ==
  ASSUME LoopInv, Stop
  PROVE  LoopInv'
<1>1. /\ pc = "stop" /\ pc' = "idle"
      /\ phase' = (IF buffered = <<>> /\ Waiting = <<>> /\ pending = Nothing
                   THEN "stopped" ELSE "failed")
      /\ UNCHANGED <<after, drainFor, ret, ram, pending, sealed, read, durable, faults, late>>
  BY DEF Stop, history
<1>2. /\ Running /\ pending = Nothing /\ sealed = FALSE /\ TypeOK /\ Draining
      /\ Pipeline = Rest /\ pending.items = <<>> /\ Order /\ Publication /\ Left
      /\ late \in BOOLEAN
  BY <1>1, AtStep DEF LoopInv, TypeOK
<1>3. /\ batch = <<>> /\ (late \/ (buffered = <<>> /\ Waiting = <<>>))
      /\ \A x \in Range(buffered) : x.pos > committed[x.src]
  BY <1>1, <1>2 DEF Draining, At
<1>4. phase' \in {"stopped", "failed"} /\ (phase' = "failed" => late)
      /\ (phase' = "stopped" => buffered = <<>> /\ Waiting = <<>>)
  BY <1>1, <1>2, <1>3
<1>5. TypeOK'
  BY <1>1, <1>2, <1>4 DEF TypeOK, ram, durable
<1>6. Control' /\ Draining'
  BY <1>1, <1>2, <1>4 DEF Control, Draining, At, Running
<1>7. /\ Regresses(pending.items)' = Regresses(pending.items)
      /\ Records(pending.items)' = Records(pending.items)
      /\ Sorted(pending.items, FALSE)' = Sorted(pending.items, FALSE)
      /\ Committed' = Committed
  BY <1>1 DEF Regresses, Touches, LastPosition, Of, Records, Sorted, durable, Committed
<1>8. Publication'
  BY <1>1, <1>2, <1>7 DEF Publication, durable
<1>9. \A x \in Range(Rest) : x.pos > committed[x.src]
  <2>1. \A x \in Range(Waiting) : x.class # "refused" /\ x \in Range(Rest)
    BY <1>2, PipelineTypes, QueuedAreItems
  <2>2. Range(Rest) = Range(Waiting) \cup Range(buffered)
    <3>1. Range(batch) = {}
      BY <1>3, EmptyAndOne
    <3> QED  BY <1>2, <3>1, PipelineTypes
  <2> QED  BY <1>2, <1>3, <2>1, <2>2 DEF Order
<1>10. ~late \/ faults = 0 => Committed
  <2> SUFFICES ASSUME ~late \/ faults = 0, NEW s \in Source, NEW k \in Nat \ {0}, k <= committed[s]
               PROVE  <<s, k>> \in delivered
    BY DEF Committed
  <2>1. committed[s] \in Nat /\ read[s] \in Nat /\ committed[s] <= read[s]
    BY <1>2 DEF Order, TypeOK
  <2>2. k <= read[s]
    BY <2>1
  <2>3. <<s, k>> \in delivered \cup Records(Rest)
    BY <1>2, <2>2 DEF Order
  <2>4. <<s, k>> \notin Records(Rest)
    <3> SUFFICES ASSUME <<s, k>> \in Records(Rest) PROVE FALSE
      OBVIOUS
    <3>1. Rest \in Seq(Item)
      BY <1>2, PipelineTypes
    <3>2. PICK x \in Range(Rest) : x.src = s /\ x.pos = k
      BY <3>1, RecordTypes
    <3> QED  BY <1>9, <2>1, <3>2
  <2> QED  BY <2>3, <2>4
<1>11. phase' = "stopped" => \A s \in Source : committed[s] = read[s]
  <2> SUFFICES ASSUME phase' = "stopped", NEW s \in Source PROVE committed[s] = read[s]
    OBVIOUS
  <2>1. Records(Rest) = {}
    <3>1. Rest = <<>> \o (<<>> \o <<>>)
      BY <1>3, <1>4 DEF Rest
    <3>2. Rest = <<>>
      BY <3>1, EmptyAndOne, ConcatEmptySeq
    <3> QED  BY <3>2, EmptyAndOne
  <2>2. committed[s] \in Nat /\ read[s] \in Nat /\ committed[s] <= read[s]
    BY <1>2 DEF Order, TypeOK
  <2>3. ~(committed[s] < read[s])
    BY <1>2, <2>1, <2>2 DEF Order
  <2> QED  BY <2>2, <2>3
<1>12. Left' /\ ~Running'
  BY <1>1, <1>2, <1>4, <1>7, <1>10, <1>11 DEF Left, Running, durable
<1> QED  BY <1>5, <1>6, <1>8, <1>12 DEF LoopInv
-----------------------------------------------------------------------------
(* The invariant and what it says.                                         *)

LEMMA LoopInit == Init => LoopInv
<1> SUFFICES ASSUME Init PROVE LoopInv
  OBVIOUS
<1>1. /\ phase = "down" /\ pc = "idle" /\ after = 0 /\ drainFor = "poll" /\ ret = "idle"
      /\ buffered = <<>> /\ queue = <<>> /\ deferred = <<>> /\ batch = <<>>
      /\ pending = Nothing /\ sealed = FALSE /\ delivered = {} /\ faults = 0 /\ late = FALSE
      /\ read = [s \in Source |-> 0] /\ committed = [s \in Source |-> 0]
  BY DEF Init
<1>2. TypeOK
  <2>1. /\ <<>> \in Seq(Item) /\ <<>> \in Seq(Queued) /\ <<>> \in Seq(Event) /\ Len(<<>>) <= 1
    BY EmptySeq
  <2>2. pending \in [kind : {"none", "batch", "rejection"}, items : Seq(Item)]
    BY <1>1, <2>1 DEF Nothing
  <2> QED  BY <1>1, <2>1, <2>2 DEF TypeOK
<1>3. Control /\ Draining /\ ~Running
  BY <1>1 DEF Control, Draining, At, Running
<1>4. Publication
  BY <1>1, NoRecords DEF Publication, Nothing
<1>5. Left
  <2>1. Committed
    BY <1>1 DEF Committed
  <2> QED  BY <1>1, <2>1 DEF Left
<1> QED  BY <1>2, <1>3, <1>4, <1>5 DEF LoopInv

LEMMA LoopStutters == LoopInv /\ UNCHANGED vars => LoopInv'
<1> SUFFICES ASSUME LoopInv, UNCHANGED vars PROVE LoopInv'
  OBVIOUS
<1>1. UNCHANGED <<phase, pc, after, drainFor, ret, buffered, queue, deferred, batch, pending, sealed,
                 read, committed, delivered, faults, late>>
  BY DEF vars, control, ram, durable, history
<1>2. TypeOK' = TypeOK
  BY <1>1 DEF TypeOK
<1>3. Control' = Control /\ Draining' = Draining /\ Running' = Running
  BY <1>1 DEF Control, Draining, At, Running, Waiting, Rest
<1>4. Order' = Order
  BY <1>1 DEF Order, Pipeline, Rest, Waiting, Sorted, Records
<1>5. Publication' = Publication
  BY <1>1 DEF Publication, Sorted, Records, Regresses, Touches, Of, LastPosition
<1>6. Left' = Left
  BY <1>1 DEF Left, Committed, Stuck, Running, Regresses, Touches, Of, LastPosition
<1> QED  BY <1>2, <1>3, <1>4, <1>5, <1>6 DEF LoopInv

LEMMA LoopSteps == LoopInv /\ [Next]_vars => LoopInv'
<1> SUFFICES ASSUME LoopInv, [Next]_vars PROVE LoopInv'
  OBVIOUS
<1>1. CASE PublicationSucceeds
  BY <1>1, Succeeded
<1>2. CASE PublicationFails
  BY <1>2, Failed
<1>3. CASE PublicationRefused
  BY <1>3, Refused
<1>4. CASE PollSource
  BY <1>4, SourcePolled
<1>5. CASE PollEnd \/ ProcessDone \/ MakeRoom \/ StartRejection \/ DrainDone \/ Dwell
  BY <1>5, Turns
<1>6. CASE Enqueue
  BY <1>6, Enqueued
<1>7. CASE PublishRejection
  BY <1>7, RejectionPublished
<1>8. CASE AddEvent
  BY <1>8, EventAdded
<1>9. CASE DeferEvent \/ RefuseEvent
  BY <1>9, EventPutAside
<1>10. CASE QueueRejection
  BY <1>10, RejectionQueued
<1>11. CASE Flush
  BY <1>11, Flushed
<1>12. CASE Stop
  BY <1>12, StopEnds
<1>13. CASE Started
  BY <1>13, Resumed
<1>14. CASE PollOnce \/ Shutdown
  BY <1>14, Begins
<1>15. CASE Crash
  BY <1>15, Crashed
<1>16. CASE Start
  BY <1>16, StartedUp
<1>17. CASE UNCHANGED vars
  BY <1>17, LoopStutters
<1> QED  BY <1>1, <1>2, <1>3, <1>4, <1>5, <1>6, <1>7, <1>8, <1>9, <1>10, <1>11, <1>12, <1>13,
            <1>14, <1>15, <1>16, <1>17 DEF Next, Loop

LEMMA LoopAlways == Spec => []LoopInv
<1> QED  BY LoopInit, LoopSteps, PTL DEF Spec

\* Every variable of the loop keeps its type: what waits in the queue was not
\* refused, what is in the batch was accepted.
THEOREM TypeCorrect == Spec => []TypeOK
<1>1. LoopInv => TypeOK
  BY DEF LoopInv
<1> QED  BY LoopAlways, <1>1, PTL

\* Whatever the sources, capacities and failures: of each source the memory
\* of a running Collector holds the run of records that ends at the reader's
\* position, in order, and everything before it was published.
THEOREM PipelineAlwaysInOrder == Spec => []PipelineInOrder
<1>1. LoopInv => PipelineInOrder
  <2> SUFFICES ASSUME LoopInv, Running, ~late, NEW s \in Source
               PROVE  LET here == Of(s, Pipeline) IN
                        /\ \A i, j \in here : i < j => Pipeline[i].pos < Pipeline[j].pos
                        /\ \A i \in here : Pipeline[i].pos <= read[s]
                        /\ \A k \in 1..read[s] :
                             \/ \E i \in here : Pipeline[i].pos = k
                             \/ <<s, k>> \in delivered /\ \A i \in here : Pipeline[i].pos > k
    BY DEF PipelineInOrder
  <2> DEFINE here == Of(s, Pipeline)
             P == Pipeline
  <2>1. Order /\ TypeOK /\ P \in Seq(Item) /\ late \in BOOLEAN
    BY PipelineTypes DEF LoopInv, TypeOK
  <2>2. \A i \in here : /\ i \in 1..Len(P) /\ P[i].src = s /\ P[i].pos \in Nat
                         /\ <<s, P[i].pos>> \in Records(P)
    <3> TAKE i \in here
    <3>1. i \in 1..Len(P) /\ P[i].src = s
      BY <2>1 DEF Of
    <3> HIDE DEF P, here
    <3>2. P[i] \in Range(P)
      BY <2>1, <3>1, Elements
    <3> QED  BY <2>1, <3>1, <3>2, RecordTypes
  <2>3. \A i, j \in here : i < j => P[i].pos < P[j].pos
    BY <2>1, <2>2 DEF Order, Sorted
  <2>4. \A i \in here : P[i].pos <= read[s]
    <3> TAKE i \in here
    <3> DEFINE r == <<s, P[i].pos>>
    <3>1. r \in Records(P) /\ r[1] = s /\ r[2] = P[i].pos
      BY <2>2
    <3> HIDE DEF r
    <3> QED  BY <2>1, <3>1 DEF Order
  <2>5. ASSUME NEW k \in 1..read[s]
        PROVE  \/ \E i \in here : P[i].pos = k
               \/ <<s, k>> \in delivered /\ \A i \in here : P[i].pos > k
    <3>1. k \in Nat \ {0} /\ k <= read[s]
      BY <2>1 DEF TypeOK
    <3>2. CASE <<s, k>> \in Records(P)
      <4>1. PICK x \in Range(P) : x.src = s /\ x.pos = k
        <5> HIDE DEF P
        <5> QED  BY <2>1, <3>2, RecordTypes
      <4>2. PICK i \in 1..Len(P) : x = P[i]
        <5> HIDE DEF P
        <5> QED  BY <2>1, Elements
      <4>3. i \in here
        BY <2>1, <4>1, <4>2 DEF Of
      <4> QED  BY <4>1, <4>2, <4>3
    <3>3. CASE <<s, k>> \notin Records(P)
      <4>1. <<s, k>> \in delivered
        BY <2>1, <3>1, <3>3 DEF Order
      <4>2. ASSUME NEW i \in here, ~(P[i].pos > k) PROVE FALSE
        <5> DEFINE r == <<s, P[i].pos>>
        <5>1. r \in Records(P) /\ r[1] = s /\ r[2] = P[i].pos /\ r[2] \in Nat
          BY <2>2
        <5>2. r[2] < k
          <6>1. r[2] # k
            BY <3>3, <5>1
          <6> HIDE DEF r
          <6> QED  BY <3>1, <4>2, <5>1, <6>1
        <5> HIDE DEF r
        <5>3. <<r[1], k>> \in Records(P)
          BY <2>1, <3>1, <5>1, <5>2 DEF Order
        <5> QED  BY <3>3, <5>1, <5>3
      <4> QED  BY <4>1, <4>2
    <3> QED  BY <3>2, <3>3
  <2> QED  BY <2>3, <2>4, <2>5
<1> QED  BY LoopAlways, <1>1, PTL

\* No checkpoint is ahead of the publications: a restart never skips a record
\* that was not made durable.
THEOREM CheckpointAlwaysCovered == Spec => []CheckpointCovered
<1>1. LoopInv => CheckpointCovered
  <2>1. LoopInv => TypeOK /\ Left
    BY DEF LoopInv
  <2>2. TypeOK => \A s \in Source : \A k \in 1..committed[s] :
                    k \in Nat \ {0} /\ k <= committed[s]
    BY DEF TypeOK
  <2> QED  BY <2>1, <2>2 DEF Left, Committed, CheckpointCovered
<1> QED  BY LoopAlways, <1>1, PTL

\* A graceful shutdown leaves nothing behind, or says that it failed and has
\* a failed publication to blame.
THEOREM ShutdownAlwaysSound == Spec => []ShutdownSound
<1>1. LoopInv => ShutdownSound
  <2> SUFFICES ASSUME LoopInv PROVE ShutdownDrains /\ ShutdownFailsOnlyOnFault
    BY DEF ShutdownSound
  <2>1. TypeOK /\ Left
    BY DEF LoopInv
  <2>2. ShutdownFailsOnlyOnFault
    BY <2>1 DEF Left, ShutdownFailsOnlyOnFault
  <2>3. ASSUME phase = "stopped", ~(late /\ faults > 0)
        PROVE  /\ pending = Nothing
               /\ \A s \in Source : committed[s] = read[s]
               /\ \A s \in Source : \A k \in 1..read[s] : <<s, k>> \in delivered
    <3>1. ~late \/ faults = 0
      BY <2>1, <2>3 DEF TypeOK
    <3>2. pending = Nothing /\ Committed /\ \A s \in Source : committed[s] = read[s]
      BY <2>1, <2>3, <3>1 DEF Left
    <3>3. \A s \in Source : \A k \in 1..read[s] : k \in Nat \ {0} /\ k <= committed[s]
      BY <2>1, <3>2 DEF TypeOK
    <3> QED  BY <3>2, <3>3 DEF Committed
  <2> QED  BY <2>2, <2>3 DEF ShutdownDrains
<1> QED  BY LoopAlways, <1>1, PTL
=============================================================================

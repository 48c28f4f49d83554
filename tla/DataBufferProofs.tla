--------------------------- MODULE DataBufferProofs ---------------------------
(* Theorems about DataBuffer for every capacity, every finite set of threads *)
(* and every set of items.                                                   *)
EXTENDS DataBuffer, FiniteSetTheorems, SequenceTheorems, TLAPS

\* Going round a ring of n slots at most once more is one subtraction.
LEMMA ModOnce ==
  ASSUME NEW n \in Nat \ {0}, NEW x \in 0 .. 2 * n - 1
  PROVE  x % n = IF x < n THEN x ELSE x - n
  OBVIOUS

------------------------------------------------------------------------------
(* Type correctness.                                                         *)

\* Filling a slot keeps the types.
LEMMA InsertTypeOK ==
  ASSUME TypeOK, NEW t \in Threads, call[t].op \in {"push", "tryPush"},
         Awake(t), size < Cap, Insert(t)
  PROVE  TypeOK'
<1> USE BufferAssumption
<1>1. call[t].item \in Items /\ (head + 1) % Cap \in Slots /\ size + 1 \in 0 .. Cap
  <2>1. (head + 1) % Cap \in Slots
    BY ModOnce DEF TypeOK, Slots
  <2>2. call[t].item \in Items
    BY DEF TypeOK, Calls, Idle
  <2>3. QED BY <2>1, <2>2 DEF TypeOK
<1>2. buffer' \in [Slots -> Items \cup {Void}] /\ head' \in Slots /\ tail' \in Slots
        /\ size' \in 0 .. Cap
  BY <1>1 DEF TypeOK, Insert, Slots
<1>3. call' \in [Threads -> Calls \cup {Idle}]
        /\ ret' \in [Threads -> [ok : BOOLEAN, item : Items \cup {Void}]]
  BY DEF TypeOK, Insert, Return, Done
<1>4. /\ notEmpty' \subseteq {u \in Threads : call'[u].op = "pop"}
      /\ notFull' \subseteq {u \in Threads : call'[u].op = "push"}
  <2>1. \A u \in Threads \ {t} : call'[u] = call[u]
    BY DEF Insert, Return, TypeOK
  <2>2. notEmpty' \subseteq notEmpty /\ notFull' = notFull
    BY DEF Insert, NotifyEmptyWaiter
  <2>3. t \notin notEmpty /\ t \notin notFull
    BY DEF Awake
  <2>4. QED BY <2>1, <2>2, <2>3 DEF TypeOK
<1>5. QED BY <1>2, <1>3, <1>4 DEF TypeOK

\* Emptying a slot keeps the types.
LEMMA RemoveTypeOK ==
  ASSUME TypeOK, NEW t \in Threads, call[t].op \in {"pop", "tryPop"},
         Awake(t), size > 0, Remove(t)
  PROVE  TypeOK'
<1> USE BufferAssumption
<1>1. (tail + 1) % Cap \in Slots /\ size - 1 \in 0 .. Cap
  BY ModOnce DEF TypeOK, Slots
<1>2. buffer' \in [Slots -> Items \cup {Void}] /\ head' \in Slots /\ tail' \in Slots
        /\ size' \in 0 .. Cap
  BY <1>1 DEF TypeOK, Remove, Slots
<1>3. call' \in [Threads -> Calls \cup {Idle}]
        /\ ret' \in [Threads -> [ok : BOOLEAN, item : Items \cup {Void}]]
  BY DEF TypeOK, Remove, Return, Took
<1>4. /\ notEmpty' \subseteq {u \in Threads : call'[u].op = "pop"}
      /\ notFull' \subseteq {u \in Threads : call'[u].op = "push"}
  <2>1. \A u \in Threads \ {t} : call'[u] = call[u]
    BY DEF Remove, Return, TypeOK
  <2>2. notFull' \subseteq notFull /\ notEmpty' = notEmpty
    BY DEF Remove, NotifyFullWaiter
  <2>3. t \notin notEmpty /\ t \notin notFull
    BY DEF Awake
  <2>4. QED BY <2>1, <2>2, <2>3 DEF TypeOK
<1>5. QED BY <1>2, <1>3, <1>4 DEF TypeOK

\* A thread in tryPush or tryPop never sleeps.
LEMMA TryIsAwake ==
  ASSUME TypeOK, NEW t \in Threads, call[t].op \in {"tryPush", "tryPop"}
  PROVE  Awake(t)
  BY DEF TypeOK, Awake

\* A call that is refused changes nothing but the caller's own record.
LEMMA ReturnTypeOK ==
  ASSUME TypeOK, NEW t \in Threads, Awake(t), Return(t, NoAnswer),
         UNCHANGED <<buffer, head, tail, size, notEmpty, notFull>>
  PROVE  TypeOK'
<1>1. call' \in [Threads -> Calls \cup {Idle}]
        /\ ret' \in [Threads -> [ok : BOOLEAN, item : Items \cup {Void}]]
  BY DEF TypeOK, Return, NoAnswer
<1>2. \A u \in Threads \ {t} : call'[u] = call[u]
  BY DEF Return, TypeOK
<1>3. QED BY <1>1, <1>2 DEF TypeOK, Awake, Slots

\* Every variable of DataBuffer always holds a value of its type: the indices
\* stay inside the array, the size inside 0..Cap, and only threads blocked in
\* pop() (push()) sleep on m_notEmpty (m_notFull).
THEOREM TypeCorrect == Spec => []TypeOK
<1> USE BufferAssumption
<1>1. Init => TypeOK
  BY DEF Init, TypeOK, Slots, Idle, NoAnswer
<1>2. TypeOK /\ [Next]_vars => TypeOK'
  <2> SUFFICES ASSUME TypeOK, [Next]_vars PROVE TypeOK'
    OBVIOUS
  <2>1. ASSUME NEW t \in Threads, Invoke(t) PROVE TypeOK'
    <3>1. call' \in [Threads -> Calls \cup {Idle}]
            /\ ret' \in [Threads -> [ok : BOOLEAN, item : Items \cup {Void}]]
      BY <2>1 DEF TypeOK, Invoke, NoAnswer
    <3>2. \A u \in Threads \ {t} : call'[u] = call[u]
      BY <2>1 DEF TypeOK, Invoke
    <3>3. t \notin notEmpty /\ t \notin notFull
      BY <2>1 DEF TypeOK, Invoke, Idle
    <3>4. QED BY <2>1, <3>1, <3>2, <3>3 DEF TypeOK, Invoke, Slots
  <2>2. ASSUME NEW t \in Threads, Push(t) PROVE TypeOK'
    BY <2>2, InsertTypeOK DEF Push
  <2>3. ASSUME NEW t \in Threads, PushWaits(t) PROVE TypeOK'
    BY <2>3 DEF PushWaits, TypeOK, Slots
  <2>4. ASSUME NEW t \in Threads, TryPush(t) PROVE TypeOK'
    BY <2>4, InsertTypeOK, ReturnTypeOK, TryIsAwake DEF TryPush
  <2>5. ASSUME NEW t \in Threads, Pop(t) PROVE TypeOK'
    BY <2>5, RemoveTypeOK DEF Pop
  <2>6. ASSUME NEW t \in Threads, PopWaits(t) PROVE TypeOK'
    BY <2>6 DEF PopWaits, TypeOK, Slots
  <2>7. ASSUME NEW t \in Threads, TryPop(t) PROVE TypeOK'
    BY <2>7, RemoveTypeOK, ReturnTypeOK, TryIsAwake DEF TryPop
  <2>8. ASSUME NEW t \in Threads, SpuriousWakeup(t) PROVE TypeOK'
    BY <2>8 DEF SpuriousWakeup, TypeOK, Slots
  <2>9. CASE UNCHANGED vars
    BY <2>9 DEF vars, TypeOK, Slots
  <2>10. QED
    BY <2>1, <2>2, <2>3, <2>4, <2>5, <2>6, <2>7, <2>8, <2>9 DEF Next, CriticalSection
<1>3. QED BY <1>1, <1>2, PTL DEF Spec

------------------------------------------------------------------------------
(* No wake-up is lost.                                                       *)

\* The awake poppers and pushers can be counted.
LEMMA AwakeFinite ==
  /\ IsFiniteSet(AwakePoppers) /\ Cardinality(AwakePoppers) \in Nat
  /\ IsFiniteSet(AwakePushers) /\ Cardinality(AwakePushers) \in Nat
<1>1. AwakePoppers \subseteq Threads /\ AwakePushers \subseteq Threads
  BY DEF AwakePoppers, AwakePushers
<1>2. QED BY <1>1, BufferAssumption, FS_Subset, FS_CardinalityType

\* A step that leaves the size alone, puts nobody to sleep and takes nobody out
\* of pop() or push() loses no wake-up.
LEMMA WakeupMonotone ==
  ASSUME TypeOK, NoLostWakeup, size' = size,
         AwakePoppers \subseteq AwakePoppers', AwakePushers \subseteq AwakePushers',
         IsFiniteSet(AwakePoppers'), IsFiniteSet(AwakePushers'),
         notEmpty' # {} => notEmpty # {} \/ size = 0,
         notFull' # {} => notFull # {} \/ size = Cap
  PROVE  NoLostWakeup'
<1>1. /\ Cardinality(AwakePoppers) <= Cardinality(AwakePoppers')
      /\ Cardinality(AwakePushers) <= Cardinality(AwakePushers')
  BY FS_Subset
<1>2. /\ Cardinality(AwakePoppers) \in Nat /\ Cardinality(AwakePoppers') \in Nat
      /\ Cardinality(AwakePushers) \in Nat /\ Cardinality(AwakePushers') \in Nat
  BY AwakeFinite, FS_CardinalityType
<1>3. size \in Nat /\ Cap \in Nat /\ Cap - size \in Nat
  BY BufferAssumption DEF TypeOK
<1>4. QED BY <1>1, <1>2, <1>3 DEF NoLostWakeup

\* A push claims its own free slot and wakes a popper for its item.
LEMMA InsertNoLostWakeup ==
  ASSUME TypeOK, NoLostWakeup, NEW t \in Threads,
         call[t].op \in {"push", "tryPush"}, Awake(t), size < Cap, Insert(t)
  PROVE  NoLostWakeup'
<1> USE BufferAssumption
<1>1. /\ \A u \in Threads \ {t} : call'[u] = call[u]
      /\ call'[t].op = "idle"
      /\ size' = size + 1 /\ size \in 0 .. Cap /\ Cap \in Nat
      /\ notFull' = notFull
  BY DEF TypeOK, Insert, Return, Idle
<1>2. AwakePushers' = AwakePushers \ {t}
  BY <1>1 DEF AwakePushers
<1>3. notFull' # {} => Cap - size' <= Cardinality(AwakePushers')
  <2>1. CASE t \in AwakePushers
    <3>1. Cardinality(AwakePushers') = Cardinality(AwakePushers) - 1
      BY <1>2, <2>1, AwakeFinite, FS_RemoveElement
    <3>2. QED BY <1>1, <3>1, AwakeFinite DEF NoLostWakeup
  <2>2. CASE t \notin AwakePushers
    <3>1. AwakePushers' = AwakePushers
      BY <1>2, <2>2
    <3>2. QED BY <1>1, <3>1, AwakeFinite DEF NoLostWakeup
  <2>3. QED BY <2>1, <2>2
<1>4. notEmpty' # {} => size' <= Cardinality(AwakePoppers')
  <2> SUFFICES ASSUME notEmpty' # {} PROVE size' <= Cardinality(AwakePoppers')
    OBVIOUS
  <2>1. PICK w \in notEmpty : notEmpty' = notEmpty \ {w}
    BY DEF Insert, NotifyEmptyWaiter
  <2>2. w \in Threads /\ call[w].op = "pop" /\ w # t
    BY <2>1 DEF TypeOK
  <2>3. AwakePoppers' = AwakePoppers \cup {w} /\ w \notin AwakePoppers
    BY <1>1, <2>1, <2>2 DEF AwakePoppers
  <2>4. Cardinality(AwakePoppers') = Cardinality(AwakePoppers) + 1
    BY <2>3, AwakeFinite, FS_AddElement
  <2>5. size <= Cardinality(AwakePoppers)
    BY <2>1 DEF NoLostWakeup
  <2>6. QED BY <1>1, <2>4, <2>5, AwakeFinite
<1>5. QED BY <1>3, <1>4 DEF NoLostWakeup

\* A pop claims its own item and wakes a pusher for its slot.
LEMMA RemoveNoLostWakeup ==
  ASSUME TypeOK, NoLostWakeup, NEW t \in Threads,
         call[t].op \in {"pop", "tryPop"}, Awake(t), size > 0, Remove(t)
  PROVE  NoLostWakeup'
<1> USE BufferAssumption
<1>1. /\ \A u \in Threads \ {t} : call'[u] = call[u]
      /\ call'[t].op = "idle"
      /\ size' = size - 1 /\ size \in 1 .. Cap /\ Cap \in Nat
      /\ notEmpty' = notEmpty
  BY DEF TypeOK, Remove, Return, Idle
<1>2. AwakePoppers' = AwakePoppers \ {t}
  BY <1>1 DEF AwakePoppers
<1>3. notEmpty' # {} => size' <= Cardinality(AwakePoppers')
  <2>1. CASE t \in AwakePoppers
    <3>1. Cardinality(AwakePoppers') = Cardinality(AwakePoppers) - 1
      BY <1>2, <2>1, AwakeFinite, FS_RemoveElement
    <3>2. QED BY <1>1, <3>1, AwakeFinite DEF NoLostWakeup
  <2>2. CASE t \notin AwakePoppers
    <3>1. AwakePoppers' = AwakePoppers
      BY <1>2, <2>2
    <3>2. QED BY <1>1, <3>1, AwakeFinite DEF NoLostWakeup
  <2>3. QED BY <2>1, <2>2
<1>4. notFull' # {} => Cap - size' <= Cardinality(AwakePushers')
  <2> SUFFICES ASSUME notFull' # {} PROVE Cap - size' <= Cardinality(AwakePushers')
    OBVIOUS
  <2>1. PICK w \in notFull : notFull' = notFull \ {w}
    BY DEF Remove, NotifyFullWaiter
  <2>2. w \in Threads /\ call[w].op = "push" /\ w # t
    BY <2>1 DEF TypeOK
  <2>3. AwakePushers' = AwakePushers \cup {w} /\ w \notin AwakePushers
    BY <1>1, <2>1, <2>2 DEF AwakePushers
  <2>4. Cardinality(AwakePushers') = Cardinality(AwakePushers) + 1
    BY <2>3, AwakeFinite, FS_AddElement
  <2>5. Cap - size <= Cardinality(AwakePushers)
    BY <2>1 DEF NoLostWakeup
  <2>6. QED BY <1>1, <2>4, <2>5, AwakeFinite
<1>5. QED BY <1>3, <1>4 DEF NoLostWakeup

\* One notify_one per push and per pop is enough for any number of sleepers:
\* whenever a popper sleeps, the items in the buffer are outnumbered by poppers
\* that are awake, and whenever a pusher sleeps the free slots are outnumbered
\* by pushers that are awake.
THEOREM WakeupsNotLost == Spec => []NoLostWakeup
<1> USE BufferAssumption
<1>1. Init => NoLostWakeup
  BY DEF Init, NoLostWakeup
<1>2. TypeOK /\ TypeOK' /\ NoLostWakeup /\ [Next]_vars => NoLostWakeup'
  <2> SUFFICES ASSUME TypeOK, TypeOK', NoLostWakeup, [Next]_vars PROVE NoLostWakeup'
    OBVIOUS
  <2> AwakePoppers' \subseteq Threads /\ AwakePushers' \subseteq Threads
    BY DEF AwakePoppers, AwakePushers
  <2> IsFiniteSet(AwakePoppers') /\ IsFiniteSet(AwakePushers')
    BY FS_Subset
  <2>1. ASSUME NEW t \in Threads, Invoke(t) PROVE NoLostWakeup'
    <3>1. \A u \in Threads \ {t} : call'[u] = call[u]
      BY <2>1 DEF TypeOK, Invoke
    <3>2. call[t].op = "idle"
      BY <2>1 DEF Invoke, Idle
    <3>3. AwakePoppers \subseteq AwakePoppers' /\ AwakePushers \subseteq AwakePushers'
      BY <2>1, <3>1, <3>2 DEF AwakePoppers, AwakePushers, Invoke
    <3>4. QED BY <2>1, <3>3, WakeupMonotone DEF Invoke
  <2>2. ASSUME NEW t \in Threads, Push(t) PROVE NoLostWakeup'
    BY <2>2, InsertNoLostWakeup DEF Push
  <2>3. ASSUME NEW t \in Threads, PushWaits(t) PROVE NoLostWakeup'
    <3>1. size = Cap /\ size' = size /\ notEmpty' = notEmpty
            /\ AwakePoppers' = AwakePoppers
      BY <2>3 DEF PushWaits, TypeOK, AwakePoppers
    <3>2. Cardinality(AwakePushers') \in Nat
      BY FS_CardinalityType
    <3>3. Cap - size = 0
      BY <3>1
    <3>4. QED BY <3>1, <3>2, <3>3 DEF NoLostWakeup
  <2>4. ASSUME NEW t \in Threads, TryPush(t) PROVE NoLostWakeup'
    <3>1. CASE size < Cap
      BY <2>4, <3>1, InsertNoLostWakeup, TryIsAwake DEF TryPush, TypeOK
    <3>2. CASE size >= Cap
      <4>1. /\ \A u \in Threads \ {t} : call'[u] = call[u]
            /\ call[t].op = "tryPush"
            /\ UNCHANGED <<size, notEmpty, notFull>>
        BY <2>4, <3>2 DEF TryPush, Return, TypeOK
      <4>2. AwakePoppers \subseteq AwakePoppers' /\ AwakePushers \subseteq AwakePushers'
        BY <4>1 DEF AwakePoppers, AwakePushers
      <4>3. QED BY <4>1, <4>2, WakeupMonotone
    <3>3. QED BY <3>1, <3>2 DEF TypeOK
  <2>5. ASSUME NEW t \in Threads, Pop(t) PROVE NoLostWakeup'
    BY <2>5, RemoveNoLostWakeup DEF Pop
  <2>6. ASSUME NEW t \in Threads, PopWaits(t) PROVE NoLostWakeup'
    <3>1. size = 0 /\ size' = size /\ notFull' = notFull
            /\ AwakePushers' = AwakePushers
      BY <2>6 DEF PopWaits, TypeOK, AwakePushers
    <3>2. Cardinality(AwakePoppers') \in Nat
      BY FS_CardinalityType
    <3>3. QED BY <3>1, <3>2 DEF NoLostWakeup
  <2>7. ASSUME NEW t \in Threads, TryPop(t) PROVE NoLostWakeup'
    <3>1. CASE size > 0
      BY <2>7, <3>1, RemoveNoLostWakeup, TryIsAwake DEF TryPop, TypeOK
    <3>2. CASE size = 0
      <4>1. /\ \A u \in Threads \ {t} : call'[u] = call[u]
            /\ call[t].op = "tryPop"
            /\ UNCHANGED <<size, notEmpty, notFull>>
        BY <2>7, <3>2 DEF TryPop, Return, TypeOK
      <4>2. AwakePoppers \subseteq AwakePoppers' /\ AwakePushers \subseteq AwakePushers'
        BY <4>1 DEF AwakePoppers, AwakePushers
      <4>3. QED BY <4>1, <4>2, WakeupMonotone
    <3>3. QED BY <3>1, <3>2 DEF TypeOK
  <2>8. ASSUME NEW t \in Threads, SpuriousWakeup(t) PROVE NoLostWakeup'
    <3>1. AwakePoppers \subseteq AwakePoppers' /\ AwakePushers \subseteq AwakePushers'
      BY <2>8 DEF AwakePoppers, AwakePushers, SpuriousWakeup
    <3>2. QED BY <2>8, <3>1, WakeupMonotone DEF SpuriousWakeup
  <2>9. CASE UNCHANGED vars
    <3>1. AwakePoppers' = AwakePoppers /\ AwakePushers' = AwakePushers
      BY <2>9 DEF vars, AwakePoppers, AwakePushers
    <3>2. QED BY <2>9, <3>1 DEF vars, NoLostWakeup
  <2>10. QED
    BY <2>1, <2>2, <2>3, <2>4, <2>5, <2>6, <2>7, <2>8, <2>9 DEF Next, CriticalSection
<1>3. QED BY <1>1, <1>2, TypeCorrect, PTL DEF Spec

------------------------------------------------------------------------------
(* The ring.                                                                 *)

\* k slots after slot a, in a ring of Cap slots.
LEMMA SlotInRing ==
  ASSUME NEW a \in Slots, NEW k \in 0 .. Cap
  PROVE  (a + k) % Cap \in Slots
  BY BufferAssumption, ModOnce DEF Slots

\* Different distances below Cap lead to different slots.
LEMMA SlotInjective ==
  ASSUME NEW a \in Slots, NEW j \in 0 .. Cap - 1, NEW k \in 0 .. Cap - 1,
         (a + j) % Cap = (a + k) % Cap
  PROVE  j = k
  BY BufferAssumption, ModOnce DEF Slots

\* One slot further, counted from either end.
LEMMA SlotNext ==
  ASSUME NEW a \in Slots, NEW k \in 0 .. Cap - 1
  PROVE  /\ (((a + k) % Cap) + 1) % Cap = (a + (k + 1)) % Cap
         /\ (((a + 1) % Cap) + k) % Cap = (a + (k + 1)) % Cap
<1> USE BufferAssumption
<1>1. /\ a + k \in 0 .. 2 * Cap - 1 /\ a + 1 \in 0 .. 2 * Cap - 1
      /\ a + (k + 1) \in 0 .. 2 * Cap - 1
  BY DEF Slots
<1>2. (a + k) % Cap = IF a + k < Cap THEN a + k ELSE a + k - Cap
  <2> DEFINE x == a + k
  <2>1. x \in 0 .. 2 * Cap - 1
    BY <1>1
  <2> HIDE DEF x
  <2>2. x % Cap = IF x < Cap THEN x ELSE x - Cap
    BY <2>1, ModOnce
  <2>3. QED BY <2>2 DEF x, Slots
<1>3. (a + 1) % Cap = IF a + 1 < Cap THEN a + 1 ELSE a + 1 - Cap
  <2> DEFINE x == a + 1
  <2>1. x \in 0 .. 2 * Cap - 1
    BY <1>1
  <2> HIDE DEF x
  <2>2. x % Cap = IF x < Cap THEN x ELSE x - Cap
    BY <2>1, ModOnce
  <2>3. QED BY <2>2 DEF x, Slots
<1>4. (a + (k + 1)) % Cap =
        IF a + (k + 1) < Cap THEN a + (k + 1) ELSE a + (k + 1) - Cap
  <2> DEFINE x == a + (k + 1)
  <2>1. x \in 0 .. 2 * Cap - 1
    BY <1>1
  <2> HIDE DEF x
  <2>2. x % Cap = IF x < Cap THEN x ELSE x - Cap
    BY <2>1, ModOnce
  <2>3. QED BY <2>2 DEF x, Slots
<1>5. (((a + k) % Cap) + 1) % Cap = (a + (k + 1)) % Cap
  <2> DEFINE b == (a + k) % Cap
  <2>1. b \in 0 .. Cap - 1 /\ b + 1 \in 0 .. 2 * Cap - 1
    BY <1>2 DEF Slots
  <2>2. (b + 1) % Cap = IF b + 1 < Cap THEN b + 1 ELSE b + 1 - Cap
    BY <2>1, ModOnce
  <2>3. QED BY <1>2, <1>4, <2>1, <2>2 DEF Slots
<1>6. (((a + 1) % Cap) + k) % Cap = (a + (k + 1)) % Cap
  <2> DEFINE b == (a + 1) % Cap
  <2>1. b \in 0 .. Cap - 1 /\ b + k \in 0 .. 2 * Cap - 1
    BY <1>3 DEF Slots
  <2>2. (b + k) % Cap = IF b + k < Cap THEN b + k ELSE b + k - Cap
    BY <2>1, ModOnce
  <2>3. QED BY <1>3, <1>4, <2>1, <2>2 DEF Slots
<1>7. QED BY <1>5, <1>6

\* A push extends the window by the head slot and nothing else.
LEMMA InsertRing ==
  ASSUME TypeOK, RingOK, NEW t \in Threads,
         call[t].op \in {"push", "tryPush"}, size < Cap, Insert(t)
  PROVE  /\ RingOK'
         /\ tail' = tail /\ size' = size + 1
         /\ buffer'[(tail + size) % Cap] = call[t].item
         /\ \A k \in 0 .. Cap - 1 : k # size =>
              buffer'[(tail + k) % Cap] = buffer[(tail + k) % Cap]
<1> USE BufferAssumption
<1>1. tail' = tail /\ size' = size + 1 /\ size \in 0 .. Cap - 1 /\ tail \in Slots
  BY DEF TypeOK, Insert
<1>2. head = (tail + size) % Cap /\ head \in Slots /\ DOMAIN buffer = Slots
  BY DEF RingOK, TypeOK
<1>3. buffer'[(tail + size) % Cap] = call[t].item
  BY <1>2 DEF Insert
<1>4. ASSUME NEW k \in 0 .. Cap - 1, k # size
      PROVE  buffer'[(tail + k) % Cap] = buffer[(tail + k) % Cap]
  <2>1. (tail + k) % Cap # head
    BY <1>1, <1>2, <1>4, SlotInjective
  <2>2. (tail + k) % Cap \in Slots
    BY <1>1, SlotInRing
  <2>3. QED BY <1>2, <2>1, <2>2 DEF Insert
<1>5. call[t].item # Void
  BY DEF TypeOK, Calls, Idle
<1>6. head' = (tail' + size') % Cap
  BY <1>1, <1>2, SlotNext DEF Insert
<1>7. ASSUME NEW k \in 0 .. Cap - 1
      PROVE  buffer'[(tail' + k) % Cap] # Void <=> k < size'
  <2>1. CASE k = size
    BY <1>1, <1>3, <1>5, <2>1
  <2>2. CASE k # size
    BY <1>1, <1>4, <2>2 DEF RingOK
  <2>3. QED BY <2>1, <2>2
<1>8. RingOK'
  BY <1>6, <1>7 DEF RingOK
<1>9. QED BY <1>1, <1>3, <1>4, <1>8

\* A pop takes the tail slot out of the window and nothing else.
LEMMA RemoveRing ==
  ASSUME TypeOK, RingOK, NEW t \in Threads, size > 0, Remove(t)
  PROVE  /\ RingOK'
         /\ size' = size - 1
         /\ buffer[tail] # Void
         /\ \A k \in 0 .. Cap - 2 :
              buffer'[(tail' + k) % Cap] = buffer[(tail + (k + 1)) % Cap]
<1> USE BufferAssumption
<1>1. tail' = (tail + 1) % Cap /\ size' = size - 1 /\ size \in 1 .. Cap /\ tail \in Slots
  BY DEF TypeOK, Remove
<1>2. (tail + 0) % Cap = tail /\ DOMAIN buffer = Slots
  <2>1. tail + 0 = tail /\ tail \in 0 .. 2 * Cap - 1 /\ tail < Cap
    BY <1>1 DEF Slots
  <2>2. tail % Cap = tail
    BY <2>1, ModOnce
  <2>3. QED BY <2>1, <2>2 DEF TypeOK
<1>3. buffer[tail] # Void
  <2>1. 0 \in 0 .. Cap - 1 /\ 0 < size
    BY <1>1
  <2>2. QED BY <1>2, <2>1 DEF RingOK
<1>4. ASSUME NEW k \in 0 .. Cap - 1
      PROVE  (tail' + k) % Cap = (tail + (k + 1)) % Cap
  BY <1>1, SlotNext
<1>5. ASSUME NEW k \in 0 .. Cap - 2
      PROVE  buffer'[(tail' + k) % Cap] = buffer[(tail + (k + 1)) % Cap]
  <2>1. k + 1 \in 0 .. Cap - 1 /\ k \in 0 .. Cap - 1 /\ 0 \in 0 .. Cap - 1 /\ k + 1 # 0
    OBVIOUS
  <2>2. (tail + (k + 1)) % Cap # tail
    BY <1>1, <1>2, <2>1, SlotInjective
  <2>3. (tail + (k + 1)) % Cap \in Slots
    BY <1>1, <2>1, SlotInRing
  <2>4. QED BY <1>2, <1>4, <2>1, <2>2, <2>3 DEF Remove
<1>6. (tail + ((Cap - 1) + 1)) % Cap = tail
  <2>1. tail + ((Cap - 1) + 1) = tail + Cap /\ tail + Cap \in 0 .. 2 * Cap - 1
    BY <1>1 DEF Slots
  <2>2. QED BY <1>1, <2>1, ModOnce DEF Slots
<1>7. ASSUME NEW k \in 0 .. Cap - 1
      PROVE  buffer'[(tail' + k) % Cap] # Void <=> k < size'
  <2>1. CASE k = Cap - 1
    <3>1. (tail' + k) % Cap = tail
      BY <1>4, <1>6, <2>1
    <3>2. buffer'[tail] = Void
      BY <1>1, <1>2 DEF Remove
    <3>3. ~(k < size')
      BY <1>1, <2>1
    <3>4. QED BY <3>1, <3>2, <3>3
  <2>2. CASE k # Cap - 1
    <3>1. k \in 0 .. Cap - 2 /\ k + 1 \in 0 .. Cap - 1
      BY <2>2
    <3>2. buffer[(tail + (k + 1)) % Cap] # Void <=> k + 1 < size
      BY <3>1 DEF RingOK
    <3>3. QED BY <1>1, <1>5, <3>1, <3>2
  <2>3. QED BY <2>1, <2>2
<1>8. head' = (tail' + size') % Cap
  <2>1. size - 1 \in 0 .. Cap - 1 /\ (size - 1) + 1 = size
    BY <1>1
  <2>2. QED BY <1>1, <1>4, <2>1 DEF RingOK, Remove
<1>9. RingOK'
  BY <1>7, <1>8 DEF RingOK
<1>10. QED BY <1>1, <1>3, <1>5, <1>9

\* The ring is always consistent: no push overwrites an item that has not been
\* popped, and no pop returns an empty slot.
THEOREM RingConsistent == Spec => []RingOK
<1> USE BufferAssumption
<1>1. Init => RingOK
  <2> SUFFICES ASSUME Init PROVE RingOK
    OBVIOUS
  <2>1. 0 % Cap = 0 /\ 0 \in Slots
    BY ModOnce DEF Slots
  <2>2. ASSUME NEW k \in 0 .. Cap - 1 PROVE (0 + k) % Cap \in Slots
    <3>1. k \in 0 .. Cap
      OBVIOUS
    <3>2. QED BY <2>1, <3>1, SlotInRing
  <2>3. QED BY <2>1, <2>2 DEF Init, RingOK
<1>2. TypeOK /\ RingOK /\ [Next]_vars => RingOK'
  <2> SUFFICES ASSUME TypeOK, RingOK, [Next]_vars PROVE RingOK'
    OBVIOUS
  <2>1. ASSUME UNCHANGED <<buffer, head, tail, size>> PROVE RingOK'
    BY <2>1 DEF RingOK
  <2>2. ASSUME NEW t \in Threads, Push(t) PROVE RingOK'
    BY <2>2, InsertRing DEF Push
  <2>3. ASSUME NEW t \in Threads, TryPush(t) PROVE RingOK'
    BY <2>1, <2>3, InsertRing DEF TryPush
  <2>4. ASSUME NEW t \in Threads, Pop(t) PROVE RingOK'
    BY <2>4, RemoveRing DEF Pop
  <2>5. ASSUME NEW t \in Threads, TryPop(t) PROVE RingOK'
    BY <2>1, <2>5, RemoveRing DEF TryPop
  <2>6. ASSUME NEW t \in Threads, Invoke(t) \/ PushWaits(t) \/ PopWaits(t) \/ SpuriousWakeup(t)
        PROVE  RingOK'
    BY <2>1, <2>6 DEF Invoke, PushWaits, PopWaits, SpuriousWakeup
  <2>7. CASE UNCHANGED vars
    BY <2>1, <2>7 DEF vars
  <2>8. QED
    BY <2>2, <2>3, <2>4, <2>5, <2>6, <2>7 DEF Next, CriticalSection
<1>3. QED BY <1>1, <1>2, TypeCorrect, PTL DEF Spec

------------------------------------------------------------------------------
(* The ring implements the bounded FIFO queue.                               *)

\* The n slots from slot a on, if none is empty, are a sequence of n items.
LEMMA WindowType ==
  ASSUME NEW b \in [Slots -> Items \cup {Void}], NEW a \in Slots, NEW n \in 0 .. Cap,
         \A k \in 0 .. Cap - 1 : b[(a + k) % Cap] # Void <=> k < n
  PROVE  /\ [k \in 1 .. n |-> b[(a + k - 1) % Cap]] \in Seq(Items)
         /\ Len([k \in 1 .. n |-> b[(a + k - 1) % Cap]]) = n
<1> USE BufferAssumption
<1>1. ASSUME NEW k \in 1 .. n PROVE b[(a + k - 1) % Cap] \in Items
  <2> DEFINE j == k - 1
  <2>1. j \in 0 .. Cap - 1 /\ j \in 0 .. Cap /\ j < n
    OBVIOUS
  <2>2. a + k - 1 = a + j
    BY <2>1 DEF Slots
  <2> HIDE DEF j
  <2>3. b[(a + j) % Cap] # Void /\ (a + j) % Cap \in Slots
    BY <2>1, SlotInRing
  <2>4. QED BY <2>2, <2>3
<1>2. QED BY <1>1

\* The content is a sequence of items as long as the size says.
LEMMA ContentType ==
  ASSUME TypeOK, RingOK
  PROVE  /\ Content \in Seq(Items) /\ Len(Content) = size
         /\ \A k \in 1 .. size : Content[k] = buffer[(tail + k - 1) % Cap]
<1>1. buffer \in [Slots -> Items \cup {Void}] /\ tail \in Slots /\ size \in 0 .. Cap
  BY DEF TypeOK
<1>2. \A k \in 0 .. Cap - 1 : buffer[(tail + k) % Cap] # Void <=> k < size
  BY DEF RingOK
<1> DEFINE c == [k \in 1 .. size |-> buffer[(tail + k - 1) % Cap]]
<1>3. c \in Seq(Items) /\ Len(c) = size
  BY ONLY <1>1, <1>2, WindowType
<1>4. QED BY <1>3 DEF Content

\* A push appends its item to the content.
LEMMA InsertAppends ==
  ASSUME TypeOK, TypeOK', RingOK, NEW t \in Threads,
         call[t].op \in {"push", "tryPush"}, size < Cap, Insert(t)
  PROVE  Len(Content) < Cap /\ Content' = Append(Content, call[t].item)
<1> USE BufferAssumption
<1>1. /\ RingOK' /\ tail' = tail /\ size' = size + 1
      /\ buffer'[(tail + size) % Cap] = call[t].item
      /\ \A k \in 0 .. Cap - 1 : k # size =>
           buffer'[(tail + k) % Cap] = buffer[(tail + k) % Cap]
  BY InsertRing
<1>2. size \in 0 .. Cap - 1 /\ tail \in Slots /\ call[t].item \in Items
  BY DEF TypeOK, Calls, Idle
<1>3. /\ Content \in Seq(Items) /\ Len(Content) = size
      /\ \A k \in 1 .. size : Content[k] = buffer[(tail + k - 1) % Cap]
  BY ContentType
<1>4. /\ Content' = [k \in 1 .. size + 1 |-> buffer'[(tail + k - 1) % Cap]]
      /\ Content' \in Seq(Items) /\ Len(Content') = size + 1
  <2>1. Content' = [k \in 1 .. size + 1 |-> buffer'[(tail + k - 1) % Cap]]
    BY <1>1 DEF Content
  <2>2. Content' \in Seq(Items) /\ Len(Content') = size'
    <3>1. buffer' \in [Slots -> Items \cup {Void}] /\ tail' \in Slots /\ size' \in 0 .. Cap
      BY DEF TypeOK, Slots
    <3>2. \A k \in 0 .. Cap - 1 : buffer'[(tail' + k) % Cap] # Void <=> k < size'
      BY <1>1 DEF RingOK
    <3> DEFINE c == [k \in 1 .. size' |-> buffer'[(tail' + k - 1) % Cap]]
    <3>3. c \in Seq(Items) /\ Len(c) = size'
      BY ONLY <3>1, <3>2, WindowType
    <3>4. QED BY <3>3 DEF Content
  <2>3. QED BY <1>1, <2>1, <2>2
<1>5. ASSUME NEW k \in 1 .. size + 1
      PROVE  Content'[k] = Append(Content, call[t].item)[k]
  <2> DEFINE j == k - 1
  <2>1. j \in 0 .. Cap - 1 /\ tail + k - 1 = tail + j
    BY <1>2 DEF Slots
  <2>2. Content'[k] = buffer'[(tail + j) % Cap]
    BY <1>4, <2>1
  <2>3. CASE k = size + 1
    <3>1. j = size
      BY <1>2, <2>3
    <3>2. QED BY <1>1, <1>2, <1>3, <2>2, <2>3, <3>1
  <2>4. CASE k # size + 1
    <3>1. k \in 1 .. size /\ j # size
      BY <1>2, <2>4
    <3>2. buffer'[(tail + j) % Cap] = buffer[(tail + j) % Cap]
      BY <1>1, <2>1, <3>1
    <3>3. Append(Content, call[t].item)[k] = Content[k]
      BY <1>2, <1>3, <3>1
    <3>4. QED BY <1>3, <2>1, <2>2, <3>1, <3>2, <3>3
  <2>5. QED BY <2>3, <2>4
<1>6. /\ Append(Content, call[t].item) \in Seq(Items)
      /\ Len(Append(Content, call[t].item)) = size + 1
  BY <1>2, <1>3
<1>7. QED BY <1>2, <1>3, <1>4, <1>5, <1>6, SeqEqual

\* A pop returns the first item of the content and leaves the rest.
LEMMA RemoveTakesHead ==
  ASSUME TypeOK, TypeOK', RingOK, NEW t \in Threads, size > 0, Remove(t)
  PROVE  Content # <<>> /\ Head(Content) = buffer[tail] /\ Content' = Tail(Content)
<1> USE BufferAssumption
<1>1. /\ RingOK' /\ size' = size - 1
      /\ \A k \in 0 .. Cap - 2 :
           buffer'[(tail' + k) % Cap] = buffer[(tail + (k + 1)) % Cap]
  BY RemoveRing
<1>2. size \in 1 .. Cap /\ tail \in Slots /\ tail' \in Slots
  BY DEF TypeOK
<1>3. /\ Content \in Seq(Items) /\ Len(Content) = size
      /\ \A k \in 1 .. size : Content[k] = buffer[(tail + k - 1) % Cap]
  BY ContentType
<1>4. /\ Content' = [k \in 1 .. size - 1 |-> buffer'[(tail' + k - 1) % Cap]]
      /\ Content' \in Seq(Items) /\ Len(Content') = size - 1
  <2>1. Content' = [k \in 1 .. size - 1 |-> buffer'[(tail' + k - 1) % Cap]]
    BY <1>1 DEF Content
  <2>2. Content' \in Seq(Items) /\ Len(Content') = size'
    <3>1. buffer' \in [Slots -> Items \cup {Void}] /\ tail' \in Slots /\ size' \in 0 .. Cap
      BY DEF TypeOK, Slots
    <3>2. \A k \in 0 .. Cap - 1 : buffer'[(tail' + k) % Cap] # Void <=> k < size'
      BY <1>1 DEF RingOK
    <3> DEFINE c == [k \in 1 .. size' |-> buffer'[(tail' + k - 1) % Cap]]
    <3>3. c \in Seq(Items) /\ Len(c) = size'
      BY ONLY <3>1, <3>2, WindowType
    <3>4. QED BY <3>3 DEF Content
  <2>3. QED BY <1>1, <2>1, <2>2
<1>5. Content # <<>>
  BY <1>2, <1>3
<1>6. Head(Content) = buffer[tail]
  <2>1. Content[1] = buffer[(tail + 1 - 1) % Cap]
    BY <1>2, <1>3
  <2>2. tail + 1 - 1 = tail /\ tail \in 0 .. 2 * Cap - 1 /\ tail < Cap
    BY <1>2 DEF Slots
  <2>3. tail % Cap = tail
    BY <2>2, ModOnce
  <2>4. QED BY <1>3, <1>5, <2>1, <2>2, <2>3
<1>7. Tail(Content) \in Seq(Items) /\ Len(Tail(Content)) = size - 1
  BY <1>2, <1>3, <1>5
<1>8. ASSUME NEW k \in 1 .. size - 1 PROVE Content'[k] = Tail(Content)[k]
  <2> DEFINE j == k - 1
  <2>1. j \in 0 .. Cap - 2 /\ tail' + k - 1 = tail' + j /\ tail + (j + 1) = tail + (k + 1) - 1
    BY <1>2 DEF Slots
  <2>2. Content'[k] = buffer'[(tail' + j) % Cap]
    BY <1>4, <2>1
  <2>3. buffer'[(tail' + j) % Cap] = buffer[(tail + (j + 1)) % Cap]
    BY <1>1, <2>1
  <2>4. k + 1 \in 1 .. size
    BY <1>2
  <2>5. Content[k + 1] = buffer[(tail + (k + 1) - 1) % Cap]
    BY <1>3, <2>4
  <2>6. Tail(Content)[k] = Content[k + 1]
    BY <1>2, <1>3, <1>5
  <2>7. QED BY <2>1, <2>2, <2>3, <2>5, <2>6
<1>9. QED BY <1>2, <1>4, <1>5, <1>6, <1>7, <1>8, SeqEqual

\* DataBuffer implements BoundedFifo: with the slots from m_tail on read as the
\* queue, every critical section that inserts or removes is one atomic put or
\* get, every refusal is one of a full or an empty queue, and sleeping and
\* waking up change nothing a caller can see.
THEOREM ImplementsBoundedFifo == Spec => ImplementsFifo
<1> USE BufferAssumption
<1>1. Init => Fifo!Init
  <2> SUFFICES ASSUME Init PROVE Fifo!Init
    OBVIOUS
  <2>1. Content = <<>>
    BY DEF Init, Content
  <2>2. QED BY <2>1 DEF Init, Fifo!Init, Idle, NoAnswer, Fifo!Idle, Fifo!NoAnswer
<1>2. TypeOK /\ TypeOK' /\ RingOK /\ [Next]_vars => [Fifo!Next]_(Fifo!vars)
  <2> SUFFICES ASSUME TypeOK, TypeOK', RingOK, [Next]_vars
               PROVE  Fifo!Next \/ UNCHANGED Fifo!vars
    OBVIOUS
  <2>1. ASSUME UNCHANGED <<buffer, tail, size>> PROVE UNCHANGED Content
    BY <2>1 DEF Content
  <2>2. ASSUME NEW t \in Threads, Invoke(t) PROVE Fifo!Invoke(t)
    BY <2>1, <2>2 DEF Invoke, Fifo!Invoke, Calls, Fifo!Calls, Idle, Fifo!Idle,
                      NoAnswer, Fifo!NoAnswer
  <2>3. ASSUME NEW t \in Threads, call[t].op \in {"push", "tryPush"}, size < Cap, Insert(t)
        PROVE  Fifo!Put(t)
    <3>1. Len(Content) < Cap /\ Content' = Append(Content, call[t].item)
      BY <2>3, InsertAppends
    <3>2. Fifo!Return(t, Fifo!Done)
      BY <2>3 DEF Insert, Return, Done, Idle, Fifo!Return, Fifo!Done, Fifo!Idle
    <3>3. QED BY <2>3, <3>1, <3>2 DEF Fifo!Put
  <2>4. ASSUME NEW t \in Threads, call[t].op \in {"pop", "tryPop"}, size > 0, Remove(t)
        PROVE  Fifo!Get(t)
    <3>1. Content # <<>> /\ Head(Content) = buffer[tail] /\ Content' = Tail(Content)
      BY <2>4, RemoveTakesHead
    <3>2. Fifo!Return(t, Fifo!Took(buffer[tail]))
      BY <2>4 DEF Remove, Return, Took, Idle, Fifo!Return, Fifo!Took, Fifo!Idle
    <3>3. QED BY <2>4, <3>1, <3>2 DEF Fifo!Get
  <2>5. Len(Content) = size /\ size \in 0 .. Cap /\ Content \in Seq(Items)
    BY ContentType DEF TypeOK
  <2>6. ASSUME NEW t \in Threads, TryPush(t) PROVE Fifo!Put(t) \/ Fifo!Refuse(t)
    <3>1. CASE size < Cap
      BY <2>3, <2>6, <3>1 DEF TryPush, TypeOK
    <3>2. CASE size >= Cap
      BY <2>1, <2>5, <2>6, <3>2 DEF TryPush, Return, Idle, NoAnswer,
         Fifo!Refuse, Fifo!Return, Fifo!Idle, Fifo!NoAnswer
    <3>3. QED BY <2>5, <3>1, <3>2
  <2>7. ASSUME NEW t \in Threads, TryPop(t) PROVE Fifo!Get(t) \/ Fifo!Miss(t)
    <3>1. CASE size > 0
      BY <2>4, <2>7, <3>1 DEF TryPop, TypeOK
    <3>2. CASE size = 0
      <4>1. Content = <<>>
        BY <2>5, <3>2
      <4>2. QED
        BY <2>1, <2>7, <3>2, <4>1 DEF TryPop, Return, Idle, NoAnswer,
           Fifo!Miss, Fifo!Return, Fifo!Idle, Fifo!NoAnswer
    <3>3. QED BY <2>5, <3>1, <3>2
  <2>8. ASSUME NEW t \in Threads, PushWaits(t) \/ PopWaits(t) \/ SpuriousWakeup(t)
        PROVE  UNCHANGED Fifo!vars
    BY <2>1, <2>8 DEF PushWaits, PopWaits, SpuriousWakeup, Fifo!vars
  <2>9. CASE UNCHANGED vars
    BY <2>1, <2>9 DEF vars, Fifo!vars
  <2>10. ASSUME NEW t \in Threads, Push(t) PROVE Fifo!Put(t)
    BY <2>3, <2>10 DEF Push
  <2>11. ASSUME NEW t \in Threads, Pop(t) PROVE Fifo!Get(t)
    BY <2>4, <2>11 DEF Pop
  <2>12. QED
    BY <2>2, <2>6, <2>7, <2>8, <2>9, <2>10, <2>11 DEF Next, CriticalSection, Fifo!Next
<1>3. QED BY <1>1, <1>2, TypeCorrect, RingConsistent, PTL DEF Spec, ImplementsFifo, Fifo!Spec
==============================================================================

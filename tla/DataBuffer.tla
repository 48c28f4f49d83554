------------------------------ MODULE DataBuffer ------------------------------
(***************************************************************************)
(* core/include/nmea/DataBuffer.hpp: a ring of Cap slots behind one mutex,  *)
(* with a condition variable for "not empty" and one for "not full".        *)
(*                                                                         *)
(* Each call runs inside one critical section of m_mutex, so a critical     *)
(* section is one step; what interleaves is everything a thread does        *)
(* without the mutex: being between the call and the lock, sleeping on a    *)
(* condition variable (wait() releases the mutex and sleeps in one step),   *)
(* and having been woken, by a notification or spuriously, without holding  *)
(* the mutex yet.                                                           *)
(***************************************************************************)
EXTENDS Naturals, Sequences, FiniteSets

CONSTANTS Cap,      \* the template argument Cap
          Threads,  \* the threads that share the buffer
          Items,    \* the values that are pushed
          Void      \* a slot that holds no item: value-initialised or moved from

\* The static_assert on Cap; std::thread gives a program finitely many threads.
ASSUME BufferAssumption == /\ Cap \in Nat \ {0}
                           /\ IsFiniteSet(Threads)
                           /\ Void \notin Items

VARIABLES buffer,    \* m_buffer
          head,      \* m_head, the slot the next push fills
          tail,      \* m_tail, the slot the next pop empties
          size,      \* m_size
          call,      \* call[t]: the call thread t is in, Idle when in none
          ret,       \* ret[t]: what the last call of t returned
          notEmpty,  \* the threads asleep on m_notEmpty
          notFull    \* the threads asleep on m_notFull

vars == <<buffer, head, tail, size, call, ret, notEmpty, notFull>>

Slots == 0 .. Cap - 1

Idle     == [op |-> "idle", item |-> Void]
NoAnswer == [ok |-> FALSE, item |-> Void]
Done     == [ok |-> TRUE, item |-> Void]
Took(i)  == [ok |-> TRUE, item |-> i]

Calls == [op : {"push", "tryPush"}, item : Items]
           \cup [op : {"pop", "tryPop"}, item : {Void}]

TypeOK ==
  /\ buffer \in [Slots -> Items \cup {Void}]
  /\ head \in Slots /\ tail \in Slots
  /\ size \in 0 .. Cap
  /\ call \in [Threads -> Calls \cup {Idle}]
  /\ ret \in [Threads -> [ok : BOOLEAN, item : Items \cup {Void}]]
  /\ notEmpty \subseteq {t \in Threads : call[t].op = "pop"}
  /\ notFull \subseteq {t \in Threads : call[t].op = "push"}

Init == /\ buffer = [s \in Slots |-> Void]
        /\ head = 0 /\ tail = 0 /\ size = 0
        /\ call = [t \in Threads |-> Idle]
        /\ ret = [t \in Threads |-> NoAnswer]
        /\ notEmpty = {} /\ notFull = {}

\* A thread of the program calls one of the four operations.
Invoke(t) == /\ call[t] = Idle
             /\ \E c \in Calls : call' = [call EXCEPT ![t] = c]
             /\ ret' = [ret EXCEPT ![t] = NoAnswer]
             /\ UNCHANGED <<buffer, head, tail, size, notEmpty, notFull>>

Awake(t) == t \notin notEmpty \cup notFull

Return(t, answer) == /\ call' = [call EXCEPT ![t] = Idle]
                     /\ ret' = [ret EXCEPT ![t] = answer]

NotifyEmptyWaiter == \/ notEmpty = {} /\ UNCHANGED notEmpty
                     \/ \E w \in notEmpty : notEmpty' = notEmpty \ {w}

NotifyFullWaiter == \/ notFull = {} /\ UNCHANGED notFull
                    \/ \E w \in notFull : notFull' = notFull \ {w}

\* (Mutants of Insert: notify only a buffer that was empty; write after moving
\* m_head; no notification.)
InsertNotifyIfEmpty(t) == /\ buffer' = [buffer EXCEPT ![head] = call[t].item]
                          /\ head' = (head + 1) % Cap
                          /\ size' = size + 1
                          /\ IF size = 0 THEN NotifyEmptyWaiter ELSE UNCHANGED notEmpty
                          /\ Return(t, Done)
                          /\ UNCHANGED <<tail, notFull>>

InsertAfterMove(t) == /\ buffer' = [buffer EXCEPT ![(head + 1) % Cap] = call[t].item]
                      /\ head' = (head + 1) % Cap
                      /\ size' = size + 1
                      /\ NotifyEmptyWaiter
                      /\ Return(t, Done)
                      /\ UNCHANGED <<tail, notFull>>

InsertNoNotify(t) == /\ buffer' = [buffer EXCEPT ![head] = call[t].item]
                     /\ head' = (head + 1) % Cap
                     /\ size' = size + 1
                     /\ Return(t, Done)
                     /\ UNCHANGED <<tail, notEmpty, notFull>>

\* The common tail of push and tryPush: fill the head slot, wake one popper.
Insert(t) == /\ buffer' = [buffer EXCEPT ![head] = call[t].item]
             /\ head' = (head + 1) % Cap
             /\ size' = size + 1
             /\ NotifyEmptyWaiter
             /\ Return(t, Done)
             /\ UNCHANGED <<tail, notFull>>

\* (Mutant of Remove: m_tail moved before the item is.)
RemoveAfterMove(t) == /\ buffer' = [buffer EXCEPT ![(tail + 1) % Cap] = Void]
                      /\ tail' = (tail + 1) % Cap
                      /\ size' = size - 1
                      /\ NotifyFullWaiter
                      /\ Return(t, Took(buffer[(tail + 1) % Cap]))
                      /\ UNCHANGED <<head, notEmpty>>

\* The common tail of pop and tryPop: move the tail slot out, wake one pusher.
Remove(t) == /\ buffer' = [buffer EXCEPT ![tail] = Void]
             /\ tail' = (tail + 1) % Cap
             /\ size' = size - 1
             /\ NotifyFullWaiter
             /\ Return(t, Took(buffer[tail]))
             /\ UNCHANGED <<head, notEmpty>>

Push(t) == /\ call[t].op = "push" /\ Awake(t)
           /\ size < Cap
           /\ Insert(t)

PushWaits(t) == /\ call[t].op = "push" /\ Awake(t)
                /\ size >= Cap
                /\ notFull' = notFull \cup {t}
                /\ UNCHANGED <<buffer, head, tail, size, call, ret, notEmpty>>

TryPush(t) == /\ call[t].op = "tryPush"
              /\ \/ /\ size >= Cap
                    /\ Return(t, NoAnswer)
                    /\ UNCHANGED <<buffer, head, tail, size, notEmpty, notFull>>
                 \/ /\ size < Cap
                    /\ Insert(t)

\* (Mutant of Pop: the predicate is not evaluated again after the wait.)
PopUnchecked(t) == call[t].op = "pop" /\ Awake(t) /\ Remove(t)

Pop(t) == /\ call[t].op = "pop" /\ Awake(t)
          /\ size > 0
          /\ Remove(t)

PopWaits(t) == /\ call[t].op = "pop" /\ Awake(t)
               /\ size = 0
               /\ notEmpty' = notEmpty \cup {t}
               /\ UNCHANGED <<buffer, head, tail, size, call, ret, notFull>>

TryPop(t) == /\ call[t].op = "tryPop"
             /\ \/ /\ size = 0
                   /\ Return(t, NoAnswer)
                   /\ UNCHANGED <<buffer, head, tail, size, notEmpty, notFull>>
                \/ /\ size > 0
                   /\ Remove(t)

\* wait(lock, pred) may return from the inner wait with no notification.
SpuriousWakeup(t) == /\ ~Awake(t)
                     /\ notEmpty' = notEmpty \ {t}
                     /\ notFull' = notFull \ {t}
                     /\ UNCHANGED <<buffer, head, tail, size, call, ret>>

\* What t does when it gets the mutex.
CriticalSection(t) == \/ Push(t) \/ PushWaits(t) \/ TryPush(t)
                      \/ Pop(t) \/ PopWaits(t) \/ TryPop(t)

Next == \E t \in Threads : Invoke(t) \/ CriticalSection(t) \/ SpuriousWakeup(t)

Spec == Init /\ [][Next]_vars

\* A thread that is awake and wants the mutex gets it in the end.
FairSpec == Spec /\ \A t \in Threads : WF_vars(CriticalSection(t))

------------------------------------------------------------------------------
\* The items are the size slots from tail on, around the ring.
Content == [k \in 1 .. size |-> buffer[(tail + k - 1) % Cap]]

\* The ring is consistent: head is size slots after tail, the slots of the
\* window hold items and every other slot holds none, so that no push ever
\* overwrites an item and no pop ever returns an empty slot.
RingOK ==
  /\ head = (tail + size) % Cap
  /\ \A k \in 0 .. Cap - 1 : buffer[(tail + k) % Cap] # Void <=> k < size

AwakePoppers == {t \in Threads : call[t].op = "pop" /\ t \notin notEmpty}
AwakePushers == {t \in Threads : call[t].op = "push" /\ t \notin notFull}

\* notify_one is enough: while a popper sleeps, every item in the buffer is
\* claimed by a different popper that is already awake, and while a pusher
\* sleeps every free slot is claimed by an awake pusher.
NoLostWakeup ==
  /\ notEmpty # {} => size <= Cardinality(AwakePoppers)
  /\ notFull # {} => Cap - size <= Cardinality(AwakePushers)

\* The ring with its two condition variables implements the bounded FIFO
\* queue of BoundedFifo: answers, order, capacity and refusals are the same.
Fifo == INSTANCE BoundedFifo WITH queue <- Content
ImplementsFifo == Fifo!Spec

\* Blocked callers are served: it cannot be that for ever some thread is in
\* pop() while the buffer holds an item and yet items stop being taken, and the
\* same for push() and free slots.
Served ==
  /\ <>[](size > 0 /\ \E t \in Threads : call[t].op = "pop")
       => []<><<\E t \in Threads : Pop(t) \/ TryPop(t)>>_size
  /\ <>[](size < Cap /\ \E t \in Threads : call[t].op = "push")
       => []<><<\E t \in Threads : Push(t) \/ TryPush(t)>>_size

==============================================================================

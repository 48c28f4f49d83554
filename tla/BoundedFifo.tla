----------------------------- MODULE BoundedFifo -----------------------------
(***************************************************************************)
(* What nmea::DataBuffer<T, Cap> promises its callers, with no ring, no     *)
(* mutex and no condition variable: a queue of at most Cap items.  A thread *)
(* calls push, tryPush, pop or tryPop and later gets an answer; between the *)
(* two, at one instant, the call takes effect on the queue.                 *)
(***************************************************************************)
EXTENDS Naturals, Sequences

CONSTANTS Cap,      \* the template argument Cap
          Threads,  \* the threads that share the buffer
          Items,    \* the values that are pushed
          Void      \* a slot, argument or answer that holds no item

VARIABLES queue,    \* the items, oldest first
          call,     \* call[t]: the call thread t is in
          ret       \* ret[t]: what t's last call returned

vars == <<queue, call, ret>>

Idle      == [op |-> "idle", item |-> Void]
NoAnswer  == [ok |-> FALSE, item |-> Void]
Done      == [ok |-> TRUE, item |-> Void]
Took(i)   == [ok |-> TRUE, item |-> i]

Calls == [op : {"push", "tryPush"}, item : Items]
           \cup [op : {"pop", "tryPop"}, item : {Void}]

Init == /\ queue = <<>>
        /\ call = [t \in Threads |-> Idle]
        /\ ret = [t \in Threads |-> NoAnswer]

Return(t, answer) == /\ call' = [call EXCEPT ![t] = Idle]
                     /\ ret' = [ret EXCEPT ![t] = answer]

Invoke(t) == /\ call[t] = Idle
             /\ \E c \in Calls : call' = [call EXCEPT ![t] = c]
             /\ ret' = [ret EXCEPT ![t] = NoAnswer]
             /\ UNCHANGED queue

Put(t) == /\ call[t].op \in {"push", "tryPush"}
          /\ Len(queue) < Cap
          /\ queue' = Append(queue, call[t].item)
          /\ Return(t, Done)

Refuse(t) == /\ call[t].op = "tryPush"
             /\ Len(queue) = Cap
             /\ Return(t, NoAnswer)
             /\ UNCHANGED queue

Get(t) == /\ call[t].op \in {"pop", "tryPop"}
          /\ queue # <<>>
          /\ queue' = Tail(queue)
          /\ Return(t, Took(Head(queue)))

Miss(t) == /\ call[t].op = "tryPop"
           /\ queue = <<>>
           /\ Return(t, NoAnswer)
           /\ UNCHANGED queue

Next == \E t \in Threads :
          Invoke(t) \/ Put(t) \/ Refuse(t) \/ Get(t) \/ Miss(t)

Spec == Init /\ [][Next]_vars
==============================================================================

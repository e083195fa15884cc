------------------------------- MODULE LockQueue ------------------------------
(***************************************************************************)
(* entities/lockqueue.hpp: a queue with a mutex and a condition variable,  *)
(* and threads that call push, pop and front. No other part of the program *)
(* uses it, and so the threads are external: each one calls one of the     *)
(* operations a number of times.                                           *)
(*                                                                         *)
(* A step is what happens between two points where another thread may be   *)
(* seen: taking the mutex, waiting, notifying, and, inside pop, copying    *)
(* the first element and removing it.                                      *)
(*                                                                         *)
(* empty() is not here: it reads the queue without the mutex, which is a   *)
(* data race with push and pop, and no thread waits for what it says.      *)
(***************************************************************************)
EXTENDS Integers, Sequences, FiniteSets

CONSTANTS
  PushCallers, PopCallers, FrontCallers,   \* the threads, by what they call
  Calls,           \* how often each thread calls
  MaxSpurious,     \* how many waits end without a notification
  NoOne            \* who holds a free mutex

Threads == PushCallers \cup PopCallers \cup FrontCallers

ASSUME ThreadsAssumption ==
  /\ PushCallers \cap (PopCallers \cup FrontCallers) = {}
  /\ PopCallers \cap FrontCallers = {}
  /\ NoOne \notin Threads
  /\ Calls \in Nat
  /\ MaxSpurious \in Nat

VARIABLES
  queue_,      \* the elements, oldest first
  mutex_,      \* the thread that holds the mutex, or NoOne
  pc,          \* pc[t]: where thread t is, "idle" between two calls
  val,         \* val[t]: the local variable of pop
  calls,       \* calls[t]: calls thread t has yet to make
  spurious,    \* waits that ended without a notification
  popped       \* history: what pop returned, in the order of removal

vars == <<queue_, mutex_, pc, val, calls, spurious, popped>>

\* The n-th last element thread t pushes.
Items == PushCallers \X (0..Calls)

NoItem == <<NoOne, 0>>

\* The threads in cond_.wait.
Waiting == {t \in Threads : pc[t] = "waiting"}

-------------------------------------------------------------------------------

Init ==
  /\ queue_ = <<>>
  /\ mutex_ = NoOne
  /\ pc = [t \in Threads |-> "idle"]
  /\ val = [t \in Threads |-> NoItem]
  /\ calls = [t \in Threads |-> Calls]
  /\ spurious = 0
  /\ popped = <<>>

Call(t) ==
  /\ pc[t] = "idle"
  /\ calls[t] > 0
  /\ calls' = [calls EXCEPT ![t] = @ - 1]
  /\ pc' = [pc EXCEPT ![t] = "locking"]
  /\ UNCHANGED <<queue_, mutex_, val, spurious, popped>>

\* Seeded fault: the mutex is not taken.
GoOnWithoutLock(t) ==
  /\ pc[t] = "locking"
  /\ mutex_' = t
  /\ pc' = [pc EXCEPT ![t] = "locked"]
  /\ UNCHANGED <<queue_, val, calls, spurious, popped>>

\* At the start of a call, and at the end of a wait.
Lock(t) ==
  /\ pc[t] = "locking"
  /\ mutex_ = NoOne
  /\ mutex_' = t
  /\ pc' = [pc EXCEPT ![t] = "locked"]
  /\ UNCHANGED <<queue_, val, calls, spurious, popped>>

\* The loop of pop and of front; the mutex is released with the wait.
Wait(t) ==
  /\ pc[t] = "locked"
  /\ t \notin PushCallers
  /\ queue_ = <<>>
  /\ mutex_' = NoOne
  /\ pc' = [pc EXCEPT ![t] = "waiting"]
  /\ UNCHANGED <<queue_, val, calls, spurious, popped>>

SpuriousWakeUp(t) ==
  /\ pc[t] = "waiting"
  /\ spurious < MaxSpurious
  /\ spurious' = spurious + 1
  /\ pc' = [pc EXCEPT ![t] = "locking"]
  /\ UNCHANGED <<queue_, mutex_, val, calls, popped>>

\* Seeded fault: only a push to an empty queue notifies.
pushNotifyingIfEmpty(t) ==
  /\ pc[t] = "locked"
  /\ t \in PushCallers
  /\ queue_' = Append(queue_, <<t, calls[t]>>)
  /\ mutex_' = NoOne
  /\ pc' = [pc EXCEPT ![t] = IF queue_ = <<>> THEN "notifying" ELSE "idle"]
  /\ UNCHANGED <<val, calls, spurious, popped>>

push(t) ==
  /\ pc[t] = "locked"
  /\ t \in PushCallers
  /\ queue_' = Append(queue_, <<t, calls[t]>>)
  /\ mutex_' = NoOne
  /\ pc' = [pc EXCEPT ![t] = "notifying"]
  /\ UNCHANGED <<val, calls, spurious, popped>>

\* After the mutex was released. Any of the waiting threads may be the one,
\* whatever it waits for; without one nothing happens.
notify_one(t) ==
  /\ pc[t] = "notifying"
  /\ \/ /\ Waiting = {}
        /\ pc' = [pc EXCEPT ![t] = "idle"]
     \/ \E w \in Waiting : pc' = [pc EXCEPT ![t] = "idle", ![w] = "locking"]
  /\ UNCHANGED <<queue_, mutex_, val, calls, spurious, popped>>

\* Seeded fault: front and pop, with the mutex released in between.
CopyAndRelease(t) ==
  /\ pc[t] = "locked"
  /\ t \in PopCallers
  /\ queue_ # <<>>
  /\ val' = [val EXCEPT ![t] = queue_[1]]
  /\ mutex_' = NoOne
  /\ pc' = [pc EXCEPT ![t] = "copied"]
  /\ UNCHANGED <<queue_, calls, spurious, popped>>

\* auto val = queue_.front()
CopyFirst(t) ==
  /\ pc[t] = "locked"
  /\ t \in PopCallers
  /\ queue_ # <<>>
  /\ val' = [val EXCEPT ![t] = queue_[1]]
  /\ pc' = [pc EXCEPT ![t] = "copied"]
  /\ UNCHANGED <<queue_, mutex_, calls, spurious, popped>>

\* queue_.pop(), the return of val, and the end of the lock.
pop(t) ==
  /\ pc[t] = "copied"
  /\ queue_' = SubSeq(queue_, 2, Len(queue_))
  /\ popped' = Append(popped, val[t])
  /\ val' = [val EXCEPT ![t] = NoItem]
  /\ mutex_' = NoOne
  /\ pc' = [pc EXCEPT ![t] = "idle"]
  /\ UNCHANGED <<calls, spurious>>

front(t) ==
  /\ pc[t] = "locked"
  /\ t \in FrontCallers
  /\ queue_ # <<>>
  /\ mutex_' = NoOne
  /\ pc' = [pc EXCEPT ![t] = "idle"]
  /\ UNCHANGED <<queue_, val, calls, spurious, popped>>

\* What a thread does once it has called.
Operation(t) ==
  \/ Lock(t) \/ Wait(t) \/ push(t) \/ notify_one(t)
  \/ CopyFirst(t) \/ pop(t) \/ front(t)

Next == \E t \in Threads : Call(t) \/ Operation(t) \/ SpuriousWakeUp(t)

Spec == Init /\ [][Next]_vars

\* A thread that can go on does. The mutex needs no more than that: the calls
\* and the spurious wake-ups are finitely many.
FairSpec == Spec /\ \A t \in Threads : WF_vars(Operation(t))

-------------------------------------------------------------------------------
(* Correctness                                                                 *)

\* The variables have their types, and a thread is between taking and releasing
\* the mutex just when it holds it. Only callers of pop and of front wait, and
\* only callers of push notify.
TypeOK ==
  /\ queue_ \in Seq(Items)
  /\ mutex_ \in Threads \cup {NoOne}
  /\ pc \in [Threads -> {"idle", "locking", "locked", "waiting", "copied", "notifying"}]
  /\ val \in [Threads -> Items \cup {NoItem}]
  /\ calls \in [Threads -> 0..Calls]
  /\ spurious \in 0..MaxSpurious
  /\ popped \in Seq(Items)
  /\ \A t \in Threads : pc[t] \in {"locked", "copied"} <=> mutex_ = t
  /\ \A t \in Threads : pc[t] = "waiting" => t \notin PushCallers
  /\ \A t \in Threads : pc[t] = "notifying" => t \in PushCallers
  /\ \A t \in Threads : pc[t] # "idle" => calls[t] < Calls

\* What pop does between copying an element and removing it is seen by nobody:
\* each element leaves once, in the order of the pushes.
Fifo == INSTANCE FifoQueue WITH contents <- queue_, taken <- popped

ElementsInOrder == Fifo!Spec

\* Callers of pop that are not asleep, or are about to be woken.
Notifying == {t \in Threads : pc[t] = "notifying"}
AwakeInPop == {t \in PopCallers : pc[t] \in {"locking", "locked", "copied"}}

\* The calls of front up to now, each with its thread, but for those that are
\* asleep. A call of front may be the one that is woken, and it takes nothing.
Looks ==
  {look \in FrontCallers \X (0..Calls) :
     /\ calls[look[1]] <= look[2] /\ look[2] < Calls
     /\ pc[look[1]] = "waiting" => look[2] # calls[look[1]]}

\* No wake-up is lost, but for one with each call of front: while a thread
\* sleeps, every element of the queue has a caller of pop that is awake, a push
\* that is about to wake one, or a call of front that may have taken its
\* wake-up.
NoLostWakeUp ==
  Waiting # {} =>
    Len(queue_) <= Cardinality(Notifying) + Cardinality(AwakeInPop) + Cardinality(Looks)

\* A caller of pop does not sleep for ever beside an element, unless front was
\* called as often as there are elements.
SleepersGetElements ==
  \A t \in PopCallers :
    (pc[t] = "waiting" /\ Len(queue_) > Cardinality(Looks))
      ~> (pc[t] # "waiting" \/ Len(queue_) <= Cardinality(Looks))

===============================================================================

---------------------------- MODULE LockQueueProofs ---------------------------
(***************************************************************************)
(* Proofs about LockQueue, for any threads: its types and the mutex, that  *)
(* it implements FifoQueue, and that no wake-up is lost but those that     *)
(* calls of front may take.                                                *)
(***************************************************************************)
EXTENDS LockQueue, FiniteSetTheorems, TLAPS

\* The mutex, the types, and what keeps the element a pop has copied in place.
CopiedIsFirst ==
  \A t \in Threads : pc[t] = "copied" =>
    /\ t \in PopCallers
    /\ queue_ # <<>>
    /\ val[t] = queue_[1]

Inv == TypeOK /\ CopiedIsFirst

\* What queue_.pop() leaves of a queue with elements.
LEMMA RemoveFirst ==
  ASSUME NEW S, NEW q \in Seq(S), q # <<>>
  PROVE  /\ SubSeq(q, 2, Len(q)) = Tail(q)
         /\ Tail(q) \in Seq(S)
         /\ Len(Tail(q)) = Len(q) - 1
         /\ Len(q) \in Nat
  OBVIOUS

LEMMA InitInv == Init => Inv
  BY ThreadsAssumption DEF Init, Inv, TypeOK, CopiedIsFirst, Items, NoItem

\* A thread that gets the mutex finds it free.
LEMMA LockInv ==
  ASSUME Inv, NEW t \in Threads, Lock(t)
  PROVE  Inv'
  BY ThreadsAssumption DEF Inv, TypeOK, CopiedIsFirst, Lock

LEMMA WaitInv ==
  ASSUME Inv, NEW t \in Threads, Wait(t)
  PROVE  Inv'
  BY ThreadsAssumption DEF Inv, TypeOK, CopiedIsFirst, Wait

LEMMA PushInv ==
  ASSUME Inv, NEW t \in Threads, push(t)
  PROVE  Inv'
<1>1. <<t, calls[t]>> \in Items
  BY ThreadsAssumption DEF Inv, TypeOK, push, Items
<1>2. \A u \in Threads : pc[u] # "copied"
  BY ThreadsAssumption DEF Inv, TypeOK, push
<1>. QED BY <1>1, <1>2, ThreadsAssumption DEF Inv, TypeOK, CopiedIsFirst, push

LEMMA NotifyInv ==
  ASSUME Inv, NEW t \in Threads, notify_one(t)
  PROVE  Inv'
  BY ThreadsAssumption DEF Inv, TypeOK, CopiedIsFirst, notify_one, Waiting

LEMMA CopyFirstInv ==
  ASSUME Inv, NEW t \in Threads, CopyFirst(t)
  PROVE  Inv'
<1>1. queue_[1] \in Items
  BY DEF Inv, TypeOK, CopyFirst
<1>. QED BY <1>1, ThreadsAssumption DEF Inv, TypeOK, CopiedIsFirst, CopyFirst

LEMMA PopInv ==
  ASSUME Inv, NEW t \in Threads, pop(t)
  PROVE  Inv'
<1>1. val[t] \in Items /\ SubSeq(queue_, 2, Len(queue_)) \in Seq(Items)
  BY DEF Inv, TypeOK, CopiedIsFirst, pop
<1>2. \A u \in Threads \ {t} : pc[u] # "copied"
  BY ThreadsAssumption DEF Inv, TypeOK, pop
<1>. QED BY <1>1, <1>2, ThreadsAssumption DEF Inv, TypeOK, CopiedIsFirst, pop, NoItem

LEMMA FrontInv ==
  ASSUME Inv, NEW t \in Threads, front(t)
  PROVE  Inv'
  BY ThreadsAssumption DEF Inv, TypeOK, CopiedIsFirst, front

LEMMA CallInv ==
  ASSUME Inv, NEW t \in Threads, Call(t)
  PROVE  Inv'
  BY ThreadsAssumption DEF Inv, TypeOK, CopiedIsFirst, Call

LEMMA SpuriousInv ==
  ASSUME Inv, NEW t \in Threads, SpuriousWakeUp(t)
  PROVE  Inv'
  BY ThreadsAssumption DEF Inv, TypeOK, CopiedIsFirst, SpuriousWakeUp

LEMMA NextInv == Inv /\ [Next]_vars => Inv'
<1>. SUFFICES ASSUME Inv, [Next]_vars PROVE Inv'
  OBVIOUS
<1>1. CASE UNCHANGED vars
  BY <1>1 DEF vars, Inv, TypeOK, CopiedIsFirst
<1>2. CASE Next
  BY <1>2, LockInv, WaitInv, PushInv, NotifyInv, CopyFirstInv, PopInv, FrontInv,
     CallInv, SpuriousInv
  DEF Next, Operation
<1>. QED BY <1>1, <1>2

LEMMA InvAlways == Spec => []Inv
  BY InitInv, NextInv, PTL DEF Spec

\* The types of lockqueue.hpp, and its mutex: one thread at a time is between
\* taking and releasing it.
THEOREM LockQueueTypeCorrect == Spec => []TypeOK
  BY InvAlways, PTL DEF Inv

-------------------------------------------------------------------------------
(* The refinement                                                              *)

\* Every step puts an element, takes the first one, or is not seen.
LEMMA StepIsFifo ==
  ASSUME Inv, [Next]_vars
  PROVE  [Fifo!Next]_<<queue_, popped>>
<1>1. CASE UNCHANGED vars
  BY <1>1 DEF vars
<1>2. ASSUME NEW t \in Threads, push(t)
      PROVE  Fifo!Next
  <2>1. <<t, calls[t]>> \in Items
    BY <1>2, ThreadsAssumption DEF Inv, TypeOK, push, Items
  <2>. QED BY <1>2, <2>1 DEF push, Fifo!Next, Fifo!Put
<1>3. ASSUME NEW t \in Threads, pop(t)
      PROVE  Fifo!Next
  <2>1. queue_ \in Seq(Items) /\ queue_ # <<>> /\ val[t] = Head(queue_)
    BY <1>3 DEF Inv, TypeOK, CopiedIsFirst, pop
  <2>2. SubSeq(queue_, 2, Len(queue_)) = Tail(queue_)
    BY <2>1, RemoveFirst
  <2>. QED BY <1>3, <2>1, <2>2 DEF pop, Fifo!Next, Fifo!Take
<1>4. ASSUME NEW t \in Threads,
             \/ Call(t) \/ SpuriousWakeUp(t) \/ Lock(t) \/ Wait(t) \/ notify_one(t)
             \/ CopyFirst(t) \/ front(t)
      PROVE  UNCHANGED <<queue_, popped>>
  BY <1>4 DEF Call, SpuriousWakeUp, Lock, Wait, notify_one, CopyFirst, front
<1>. QED BY <1>1, <1>2, <1>3, <1>4 DEF Next, Operation

\* Elements leave the queue of lockqueue.hpp once each, in the order in which
\* they were pushed, however many threads push, pop and look.
THEOREM ImplementsFifo == Spec => ElementsInOrder
<1>1. Init => Fifo!Init
  BY DEF Init, Fifo!Init
<1>. QED BY <1>1, StepIsFifo, InvAlways, PTL DEF Spec, ElementsInOrder, Fifo!Spec

-------------------------------------------------------------------------------
(* Wake-ups                                                                    *)

LEMMA CallsOfFrontAreFinite ==
  ASSUME IsFiniteSet(Threads)
  PROVE  IsFiniteSet(FrontCallers \X (0..Calls))
<1>1. FrontCallers \in SUBSET Threads
  BY DEF Threads
<1>2. IsFiniteSet(FrontCallers)
  BY <1>1, FS_Subset
<1>3. IsFiniteSet(0..Calls)
  BY ThreadsAssumption, FS_Interval
<1>. QED BY <1>2, <1>3, FS_Product

\* The sets NoLostWakeUp counts are finite, before and after a step.
LEMMA CountedAreFinite ==
  ASSUME IsFiniteSet(Threads)
  PROVE  /\ IsFiniteSet(Notifying) /\ Cardinality(Notifying) \in Nat
         /\ IsFiniteSet(AwakeInPop) /\ Cardinality(AwakeInPop) \in Nat
         /\ IsFiniteSet(Looks) /\ Cardinality(Looks) \in Nat
<1>1. Notifying \in SUBSET Threads /\ AwakeInPop \in SUBSET Threads
  BY DEF Notifying, AwakeInPop, Threads
<1>2. IsFiniteSet(FrontCallers \X (0..Calls))
  BY CallsOfFrontAreFinite
<1>3. Looks \in SUBSET (FrontCallers \X (0..Calls))
  BY DEF Looks
<1>. QED BY <1>1, <1>2, <1>3, FS_Subset, FS_CardinalityType

LEMMA CountedStayFinite ==
  ASSUME IsFiniteSet(Threads)
  PROVE  /\ IsFiniteSet(Notifying') /\ Cardinality(Notifying') \in Nat
         /\ IsFiniteSet(AwakeInPop') /\ Cardinality(AwakeInPop') \in Nat
         /\ IsFiniteSet(Looks') /\ Cardinality(Looks') \in Nat
<1>1. Notifying' \in SUBSET Threads /\ AwakeInPop' \in SUBSET Threads
  BY DEF Notifying, AwakeInPop, Threads
<1>2. IsFiniteSet(FrontCallers \X (0..Calls))
  BY CallsOfFrontAreFinite
<1>3. Looks' \in SUBSET (FrontCallers \X (0..Calls))
  BY DEF Looks
<1>. QED BY <1>1, <1>2, <1>3, FS_Subset, FS_CardinalityType

\* What a step leaves of the three sets bounds the queue as before.
LEMMA MoreAreAwake ==
  ASSUME IsFiniteSet(Threads), Inv, NoLostWakeUp, queue_' = queue_,
         Waiting' # {} => Waiting # {},
         Notifying \subseteq Notifying', AwakeInPop \subseteq AwakeInPop', Looks \subseteq Looks'
  PROVE  NoLostWakeUp'
<1>1. /\ Cardinality(Notifying) <= Cardinality(Notifying')
      /\ Cardinality(AwakeInPop) <= Cardinality(AwakeInPop')
      /\ Cardinality(Looks) <= Cardinality(Looks')
  BY CountedStayFinite, FS_Subset
<1>2. Len(queue_) \in Nat
  BY DEF Inv, TypeOK
<1>. QED BY <1>1, <1>2, CountedAreFinite, CountedStayFinite DEF NoLostWakeUp

\* A push adds an element and a thread that notifies.
LEMMA PushKeepsWakeUps ==
  ASSUME IsFiniteSet(Threads), Inv, NoLostWakeUp, NEW t \in Threads, push(t)
  PROVE  NoLostWakeUp'
<1>1. Notifying' = Notifying \cup {t} /\ t \notin Notifying
  BY DEF Inv, TypeOK, push, Notifying
<1>2. AwakeInPop' = AwakeInPop
  BY ThreadsAssumption DEF Inv, TypeOK, push, AwakeInPop, Threads
<1>3. Waiting' = Waiting
  BY DEF Inv, TypeOK, push, Waiting
<1>4. Looks' = Looks
  BY ThreadsAssumption DEF Inv, TypeOK, push, Looks, Threads
<1>5. Len(queue_') = Len(queue_) + 1 /\ Len(queue_) \in Nat
  BY DEF Inv, TypeOK, push
<1>6. Cardinality(Notifying') = Cardinality(Notifying) + 1
  BY <1>1, CountedAreFinite, FS_AddElement
<1>. QED BY <1>2, <1>3, <1>4, <1>5, <1>6, CountedAreFinite DEF NoLostWakeUp

\* A caller of pop that is woken replaces the thread that notified it.
LEMMA WakingPopKeepsWakeUps ==
  ASSUME IsFiniteSet(Threads), Inv, NoLostWakeUp, NEW t \in Threads, notify_one(t),
         NEW w \in Waiting, w \in PopCallers, pc' = [pc EXCEPT ![t] = "idle", ![w] = "locking"]
  PROVE  NoLostWakeUp'
<1>1. w # t /\ w \notin AwakeInPop /\ t \in Notifying
  BY DEF Inv, TypeOK, Waiting, Threads, notify_one, AwakeInPop, Notifying
<1>2. Notifying' = Notifying \ {t}
  BY <1>1 DEF Inv, TypeOK, Notifying, Waiting
<1>3. AwakeInPop' = AwakeInPop \cup {w}
  BY <1>1, ThreadsAssumption DEF Inv, TypeOK, AwakeInPop, Notifying, Waiting, Threads
<1>4. Looks' = Looks
  BY <1>1, ThreadsAssumption DEF Inv, TypeOK, Looks, Notifying, Waiting, Threads, notify_one
<1>5. Cardinality(Notifying') = Cardinality(Notifying) - 1
  BY <1>1, <1>2, CountedAreFinite, FS_RemoveElement
<1>6. Cardinality(AwakeInPop') = Cardinality(AwakeInPop) + 1
  BY <1>1, <1>3, CountedAreFinite, FS_AddElement
<1>7. queue_' = queue_ /\ Waiting # {} /\ Len(queue_) \in Nat
  BY DEF notify_one, Inv, TypeOK
<1>. QED BY <1>4, <1>5, <1>6, <1>7, CountedAreFinite DEF NoLostWakeUp

\* So does the call of front that is woken instead.
LEMMA WakingFrontKeepsWakeUps ==
  ASSUME IsFiniteSet(Threads), Inv, NoLostWakeUp, NEW t \in Threads, notify_one(t),
         NEW w \in Waiting, w \in FrontCallers, pc' = [pc EXCEPT ![t] = "idle", ![w] = "locking"]
  PROVE  NoLostWakeUp'
<1> DEFINE look == <<w, calls[w]>>
<1>1. w # t /\ t \in Notifying
  BY DEF Inv, TypeOK, Waiting, Threads, notify_one, Notifying
<1>2. Notifying' = Notifying \ {t}
  BY <1>1 DEF Inv, TypeOK, Notifying, Waiting
<1>3. AwakeInPop' = AwakeInPop
  BY <1>1, ThreadsAssumption DEF Inv, TypeOK, AwakeInPop, Notifying, Waiting, Threads
<1>4. look \notin Looks
  BY DEF Looks, Waiting
<1>5. Looks' = Looks \cup {look}
  <2>1. calls' = calls /\ calls \in [Threads -> 0..Calls] /\ calls[w] < Calls
    BY DEF notify_one, Inv, TypeOK, Waiting
  <2>2. look \in Looks'
    BY <1>1, <2>1, ThreadsAssumption DEF Inv, TypeOK, Looks, Waiting, Threads
  <2>3. \A f \in FrontCallers \ {w} : pc'[f] = pc[f]
    BY <1>1, ThreadsAssumption DEF Inv, TypeOK, Notifying, Threads
  <2>4. pc[w] = "waiting" /\ pc'[w] = "locking"
    BY <1>1 DEF Inv, TypeOK, Waiting
  <2>5. ASSUME NEW other \in FrontCallers \X (0..Calls), other # look
        PROVE  other \in Looks' <=> other \in Looks
    <3>1. CASE other[1] = w
      <4>1. other[2] # calls[w]
        BY <2>5, <3>1
      <4>. QED BY <2>1, <2>4, <3>1, <4>1 DEF Looks
    <3>2. CASE other[1] # w
      BY <2>1, <2>3, <3>2 DEF Looks
    <3>. QED BY <3>1, <3>2
  <2>6. Looks \subseteq FrontCallers \X (0..Calls) /\ Looks' \subseteq FrontCallers \X (0..Calls)
    BY DEF Looks
  <2>. QED BY <2>2, <2>5, <2>6
<1>6. Cardinality(Notifying') = Cardinality(Notifying) - 1
  BY <1>1, <1>2, CountedAreFinite, FS_RemoveElement
<1>7. Cardinality(Looks') = Cardinality(Looks) + 1
  BY <1>4, <1>5, CountedAreFinite, FS_AddElement
<1>8. queue_' = queue_ /\ Waiting # {} /\ Len(queue_) \in Nat
  BY DEF notify_one, Inv, TypeOK
<1>. QED BY <1>3, <1>6, <1>7, <1>8, CountedAreFinite DEF NoLostWakeUp

LEMMA NotifyKeepsWakeUps ==
  ASSUME IsFiniteSet(Threads), Inv, NoLostWakeUp, NEW t \in Threads, notify_one(t)
  PROVE  NoLostWakeUp'
<1>1. CASE Waiting = {} /\ pc' = [pc EXCEPT ![t] = "idle"]
  <2>1. Waiting' = {}
    BY <1>1 DEF Inv, TypeOK, Waiting
  <2>. QED BY <2>1 DEF NoLostWakeUp
<1>2. ASSUME NEW w \in Waiting, pc' = [pc EXCEPT ![t] = "idle", ![w] = "locking"]
      PROVE  NoLostWakeUp'
  <2>1. w \in PopCallers \/ w \in FrontCallers
    BY DEF Inv, TypeOK, Waiting, Threads
  <2>. QED BY <1>2, <2>1, WakingPopKeepsWakeUps, WakingFrontKeepsWakeUps
<1>. QED BY <1>1, <1>2 DEF notify_one

\* A pop takes an element away, and a caller of pop that was awake.
LEMMA PopKeepsWakeUps ==
  ASSUME IsFiniteSet(Threads), Inv, NoLostWakeUp, NEW t \in Threads, pop(t)
  PROVE  NoLostWakeUp'
<1>1. Notifying' = Notifying
  BY DEF Inv, TypeOK, pop, Notifying
<1>2. t \in AwakeInPop /\ AwakeInPop' = AwakeInPop \ {t}
  BY DEF Inv, TypeOK, CopiedIsFirst, pop, AwakeInPop, Threads
<1>3. Waiting' = Waiting
  BY DEF Inv, TypeOK, pop, Waiting
<1>4. Looks' = Looks
  BY ThreadsAssumption DEF Inv, TypeOK, CopiedIsFirst, pop, Looks, Threads
<1>5. Len(queue_') = Len(queue_) - 1 /\ Len(queue_) \in Nat
  <2>1. queue_ \in Seq(Items) /\ queue_ # <<>> /\ queue_' = SubSeq(queue_, 2, Len(queue_))
    BY DEF Inv, TypeOK, CopiedIsFirst, pop
  <2>. QED BY <2>1, RemoveFirst
<1>6. Cardinality(AwakeInPop') = Cardinality(AwakeInPop) - 1
  BY <1>2, CountedAreFinite, FS_RemoveElement
<1>. QED BY <1>1, <1>3, <1>4, <1>5, <1>6, CountedAreFinite DEF NoLostWakeUp

\* A thread goes to sleep only when there is no element.
LEMMA WaitKeepsWakeUps ==
  ASSUME IsFiniteSet(Threads), Inv, NEW t \in Threads, Wait(t)
  PROVE  NoLostWakeUp'
<1>1. Len(queue_') = 0
  BY DEF Wait
<1>. QED BY <1>1, CountedStayFinite DEF NoLostWakeUp

\* The other steps leave the queue alone, and only make callers of pop awake, or
\* add a call of front.
LEMMA OthersKeepWakeUps ==
  ASSUME IsFiniteSet(Threads), Inv, NoLostWakeUp, NEW t \in Threads,
         Call(t) \/ SpuriousWakeUp(t) \/ Lock(t) \/ CopyFirst(t) \/ front(t)
  PROVE  NoLostWakeUp'
<1>1. queue_' = queue_
  BY DEF Call, SpuriousWakeUp, Lock, CopyFirst, front
<1>2. Waiting' # {} => Waiting # {}
  BY DEF Call, SpuriousWakeUp, Lock, CopyFirst, front, Inv, TypeOK, Waiting
<1>3. Notifying \subseteq Notifying'
  BY DEF Call, SpuriousWakeUp, Lock, CopyFirst, front, Inv, TypeOK, Notifying
<1>4. AwakeInPop \subseteq AwakeInPop'
  BY ThreadsAssumption
  DEF Call, SpuriousWakeUp, Lock, CopyFirst, front, Inv, TypeOK, AwakeInPop, Threads
<1>5. Looks \subseteq Looks'
  <2>1. SUFFICES ASSUME NEW look \in Looks PROVE look \in Looks'
    OBVIOUS
  <2>2. /\ look \in FrontCallers \X (0..Calls)
        /\ calls[look[1]] <= look[2] /\ look[2] < Calls
        /\ pc[look[1]] = "waiting" => look[2] # calls[look[1]]
    BY DEF Looks
  <2>3. look[1] \in Threads /\ look[2] \in Int /\ calls[look[1]] \in Int
    BY <2>2 DEF Threads, Inv, TypeOK
  <2>4. calls' = calls \/ calls' = [calls EXCEPT ![t] = @ - 1]
    BY DEF Call, SpuriousWakeUp, Lock, CopyFirst, front
  <2>5. calls \in [Threads -> 0..Calls]
    BY DEF Inv, TypeOK
  <2>6. calls'[look[1]] = calls[look[1]] \/ calls'[look[1]] = calls[look[1]] - 1
    BY <2>3, <2>4, <2>5
  <2>7. calls'[look[1]] <= look[2]
    BY <2>2, <2>3, <2>6
  <2>8. pc'[look[1]] # "waiting" \/ look[2] # calls'[look[1]]
    BY <2>2, <2>3 DEF Call, SpuriousWakeUp, Lock, CopyFirst, front, Inv, TypeOK
  <2>. QED BY <2>2, <2>7, <2>8 DEF Looks
<1>. QED BY <1>1, <1>2, <1>3, <1>4, <1>5, MoreAreAwake

\* With finitely many threads, every element of the queue has a caller of pop
\* that is awake, a push about to wake one, or a call of front, while some
\* thread sleeps: notify_one after the unlock loses nothing.
THEOREM NoWakeUpIsLost ==
  ASSUME IsFiniteSet(Threads)
  PROVE  Spec => []NoLostWakeUp
<1>1. Init => NoLostWakeUp
  BY DEF Init, NoLostWakeUp, Waiting
<1>2. Inv /\ NoLostWakeUp /\ [Next]_vars => NoLostWakeUp'
  <2>1. CASE UNCHANGED vars
    BY <2>1 DEF vars, NoLostWakeUp, Waiting, Notifying, AwakeInPop, Looks
  <2>2. CASE Next
    BY <2>2, PushKeepsWakeUps, NotifyKeepsWakeUps, PopKeepsWakeUps, WaitKeepsWakeUps,
       OthersKeepWakeUps
    DEF Next, Operation
  <2>. QED BY <2>1, <2>2
<1>. QED BY <1>1, <1>2, InvAlways, PTL DEF Spec

===============================================================================

-------------------------- MODULE SafeQueueProofs --------------------------
(***************************************************************************)
(* Proofs about SafeQueue, for any number of threads, items and calls.     *)
(***************************************************************************)
EXTENDS SafeQueue, FiniteSetTheorems, TLAPS

(* A thread is between lock and unlock exactly if it holds the mutex. *)
MutexInv == \A t \in Thread : pc[t] \in Critical <=> m = t

(* The operation a thread is in fits the statement it is at. *)
KindInv ==
    \A t \in Thread :
        /\ pc[t] = "idle" => kind[t] = "none"
        /\ pc[t] = "lock" => kind[t] \in Kind
        /\ pc[t] \in {"push", "notify"} => kind[t] = "enqueue"
        /\ pc[t] \in {"test", "front", "pop"} => kind[t] \in {"dequeue", "poll"}
        /\ pc[t] \in {"wait", "relock"} => kind[t] = "dequeue"

(* The local val is untouched until front, and then the head of the queue. *)
ValInv ==
    \A t \in Thread :
        /\ pc[t] = "idle" => val[t] = null_item
        /\ pc[t] \in {"lock", "test", "front", "wait", "relock"} /\ kind[t] # "enqueue"
              => val[t] = null_item
        /\ pc[t] \in {"front", "pop"} => q # <<>>
        /\ pc[t] = "pop" => val[t] = Head(q)

IInv == TypeOK /\ MutexInv /\ KindInv /\ ValInv

-----------------------------------------------------------------------------
(* The inductive invariant holds at the start. *)
LEMMA InitIInv == Init => IInv
  BY QueueAssumption DEF Init, IInv, TypeOK, MutexInv, KindInv, ValInv, Critical, Step, Kind

(* Every statement of safe_queue keeps the state well typed. *)
LEMMA NextTypeOK == IInv /\ [Next]_vars => TypeOK'
<1> SUFFICES ASSUME IInv, [Next]_vars PROVE TypeOK'
  OBVIOUS
<1> USE QueueAssumption DEF IInv, TypeOK, Critical, Step, Kind
<1>1. ASSUME NEW t \in Thread, call(t) PROVE TypeOK'
  BY <1>1 DEF call, goes
<1>2. ASSUME NEW t \in Thread, lock(t) PROVE TypeOK'
  BY <1>2 DEF lock, goes
<1>3. ASSUME NEW t \in Thread, push(t) PROVE TypeOK'
  BY <1>3 DEF push, goes
<1>4. ASSUME NEW t \in Thread, notify_one(t) PROVE TypeOK'
  BY <1>4 DEF notify_one, waiting
<1>5. ASSUME NEW t \in Thread, test(t) PROVE TypeOK'
  BY <1>5 DEF test, goes, empty_result
<1>6. ASSUME NEW t \in Thread, front(t) PROVE TypeOK'
  BY <1>6 DEF front, goes, ValInv
<1>7. ASSUME NEW t \in Thread, pop(t) PROVE TypeOK'
  BY <1>7 DEF pop, goes, ValInv
<1>8. ASSUME NEW t \in Thread, unlock(t) PROVE TypeOK'
  BY <1>8 DEF unlock, goes
<1>9. ASSUME NEW t \in Thread, relock(t) PROVE TypeOK'
  BY <1>9 DEF relock, goes
<1>10. ASSUME NEW t \in Thread, wake_spuriously(t) PROVE TypeOK'
  BY <1>10 DEF wake_spuriously, goes
<1>11. CASE UNCHANGED vars
  BY <1>11 DEF vars
<1> QED
  BY <1>1, <1>2, <1>3, <1>4, <1>5, <1>6, <1>7, <1>8, <1>9, <1>10, <1>11 DEF Next, run

(* The mutex excludes every other thread, and each thread's locals follow  *)
(* its statements.                                                         *)
LEMMA NextLocals == IInv /\ [Next]_vars => MutexInv' /\ KindInv' /\ ValInv'
<1> SUFFICES ASSUME IInv, [Next]_vars PROVE MutexInv' /\ KindInv' /\ ValInv'
  OBVIOUS
<1> USE QueueAssumption DEF IInv, TypeOK, MutexInv, KindInv, ValInv, Critical, Step, Kind
<1>1. ASSUME NEW t \in Thread, call(t) PROVE MutexInv' /\ KindInv' /\ ValInv'
  BY <1>1 DEF call, goes
<1>2. ASSUME NEW t \in Thread, lock(t) PROVE MutexInv' /\ KindInv' /\ ValInv'
  BY <1>2 DEF lock, goes
<1>3. ASSUME NEW t \in Thread, push(t) PROVE MutexInv' /\ KindInv' /\ ValInv'
  BY <1>3 DEF push, goes
<1>4. ASSUME NEW t \in Thread, notify_one(t) PROVE MutexInv' /\ KindInv' /\ ValInv'
  BY <1>4 DEF notify_one, waiting
<1>5. ASSUME NEW t \in Thread, test(t) PROVE MutexInv' /\ KindInv' /\ ValInv'
  BY <1>5 DEF test, goes, empty_result
<1>6. ASSUME NEW t \in Thread, front(t) PROVE MutexInv' /\ KindInv' /\ ValInv'
  BY <1>6 DEF front, goes
<1>7. ASSUME NEW t \in Thread, pop(t) PROVE MutexInv' /\ KindInv' /\ ValInv'
  BY <1>7 DEF pop, goes
<1>8. ASSUME NEW t \in Thread, unlock(t) PROVE MutexInv' /\ KindInv' /\ ValInv'
  BY <1>8 DEF unlock, goes
<1>9. ASSUME NEW t \in Thread, relock(t) PROVE MutexInv' /\ KindInv' /\ ValInv'
  BY <1>9 DEF relock, goes
<1>10. ASSUME NEW t \in Thread, wake_spuriously(t) PROVE MutexInv' /\ KindInv' /\ ValInv'
  BY <1>10 DEF wake_spuriously, goes
<1>11. CASE UNCHANGED vars
  BY <1>11 DEF vars
<1> QED
  BY <1>1, <1>2, <1>3, <1>4, <1>5, <1>6, <1>7, <1>8, <1>9, <1>10, <1>11 DEF Next, run

(* Every reachable state satisfies the inductive invariant. *)
LEMMA Inductive == Spec => []IInv
<1>1. IInv /\ [Next]_vars => IInv'
  BY NextTypeOK, NextLocals DEF IInv
<1> QED
  BY InitIInv, <1>1, PTL DEF Spec

(* safe_queue's data and each thread's locals are well typed, for any      *)
(* number of threads: no statement finds the queue empty that should not.  *)
THEOREM TypeCorrect == Spec => []TypeOK
  BY Inductive, PTL DEF IInv

-----------------------------------------------------------------------------
(* The refinement.                                                         *)

(* Every statement is a step of the abstract queue, or changes nothing of  *)
(* it: enqueue takes effect at push, dequeue and poll at pop, or at the    *)
(* test of a poll that finds the queue empty.                              *)
LEMMA StepSimulation == IInv /\ IInv' /\ [Next]_vars => [Fifo!Next]_(Fifo!vars)
<1> SUFFICES ASSUME IInv, IInv', [Next]_vars PROVE Fifo!Next \/ UNCHANGED Fifo!vars
  BY DEF Fifo!vars
<1> USE QueueAssumption DEF IInv, TypeOK, MutexInv, KindInv, ValInv, Critical, Step, Kind,
        phase_bar, val_bar
<1>1. ASSUME NEW t \in Thread, call(t) PROVE Fifo!Next
  <2>1. phase_bar[t] = "idle" /\ phase_bar' = [phase_bar EXCEPT ![t] = "called"]
    BY <1>1 DEF call, goes
  <2>2. ASSUME NEW v \in Item, kind' = [kind EXCEPT ![t] = "enqueue"], val' = [val EXCEPT ![t] = v]
        PROVE  Fifo!Call(t, "enqueue", v)
    <3>1. val_bar' = [val_bar EXCEPT ![t] = v]
      BY <1>1, <2>2 DEF call, goes
    <3> QED
      BY <1>1, <2>1, <2>2, <3>1 DEF call, Fifo!Call
  <2>3. ASSUME NEW k \in {"dequeue", "poll"}, kind' = [kind EXCEPT ![t] = k], UNCHANGED val
        PROVE  Fifo!Call(t, k, null_item)
    <3>1. val_bar' = [val_bar EXCEPT ![t] = null_item]
      BY <1>1, <2>3 DEF call, goes
    <3> QED
      BY <1>1, <2>1, <2>3, <3>1 DEF call, Fifo!Call
  <2> QED
    BY <1>1, <2>2, <2>3 DEF call, Fifo!Next
<1>2. ASSUME NEW t \in Thread, lock(t) PROVE UNCHANGED Fifo!vars
  BY <1>2 DEF lock, goes, Fifo!vars
<1>3. ASSUME NEW t \in Thread, push(t) PROVE Fifo!Enqueue(t)
  BY <1>3 DEF push, goes, Fifo!Enqueue, Fifo!takesEffect
<1>4. ASSUME NEW t \in Thread, notify_one(t) PROVE UNCHANGED Fifo!vars
  BY <1>4 DEF notify_one, waiting, Fifo!vars
<1>5. ASSUME NEW t \in Thread, test(t) PROVE Fifo!FindEmpty(t) \/ UNCHANGED Fifo!vars
  <2>1. CASE q = <<>> /\ kind[t] = "poll"
    <3> pc[t] = "test" /\ pc' = [pc EXCEPT ![t] = "unlock"]
      BY <1>5, <2>1 DEF test, goes
    <3>1. phase_bar[t] = "called" /\ phase_bar' = [phase_bar EXCEPT ![t] = "done"]
      OBVIOUS
    <3>2. val_bar' = [val_bar EXCEPT ![t] = null_item]
      BY <1>5, <2>1 DEF test, goes, empty_result
    <3> QED
      BY <1>5, <2>1, <3>1, <3>2 DEF test, Fifo!FindEmpty, Fifo!takesEffect
  <2>2. CASE ~(q = <<>> /\ kind[t] = "poll")
    BY <1>5, <2>2 DEF test, goes, Fifo!vars
  <2> QED
    BY <2>1, <2>2
<1>6. ASSUME NEW t \in Thread, front(t) PROVE UNCHANGED Fifo!vars
  BY <1>6 DEF front, goes, Fifo!vars
<1>7. ASSUME NEW t \in Thread, pop(t) PROVE Fifo!Take(t)
  <2>1. phase_bar[t] = "called" /\ phase_bar' = [phase_bar EXCEPT ![t] = "done"]
    BY <1>7 DEF pop, goes
  <2>2. val_bar' = [val_bar EXCEPT ![t] = Head(q)]
    BY <1>7 DEF pop, goes
  <2> QED
    BY <1>7, <2>1, <2>2 DEF pop, goes, Fifo!Take, Fifo!takesEffect
<1>8. ASSUME NEW t \in Thread, unlock(t) PROVE Fifo!Return(t)
  BY <1>8 DEF unlock, goes, Fifo!Return
<1>9. ASSUME NEW t \in Thread, relock(t) PROVE UNCHANGED Fifo!vars
  BY <1>9 DEF relock, goes, Fifo!vars
<1>10. ASSUME NEW t \in Thread, wake_spuriously(t) PROVE UNCHANGED Fifo!vars
  BY <1>10 DEF wake_spuriously, goes, Fifo!vars
<1>11. CASE UNCHANGED vars
  BY <1>11 DEF vars, Fifo!vars
<1> QED
  BY <1>1, <1>2, <1>3, <1>4, <1>5, <1>6, <1>7, <1>8, <1>9, <1>10, <1>11
     DEF Next, run, Fifo!Next

(* enqueue, dequeue and poll of safe_queue, called by any number of        *)
(* threads, are atomic operations on a FIFO queue.                         *)
THEOREM Refinement == Spec => ImplementsFifo
<1>1. Init => Fifo!Init
  BY DEF Init, Fifo!Init, phase_bar, val_bar
<1> QED
  BY <1>1, Inductive, StepSimulation, PTL DEF Spec, ImplementsFifo, Fifo!Spec

-----------------------------------------------------------------------------
(* Wake-ups.                                                               *)

(* A set of threads is finite, and counting it is monotone. *)
LEMMA ThreadSets ==
    ASSUME NEW S \in SUBSET Thread
    PROVE  /\ IsFiniteSet(S) /\ Cardinality(S) \in Nat
           /\ \A t \in Thread : t \notin S => Cardinality(S \cup {t}) = Cardinality(S) + 1
           /\ \A t \in S : Cardinality(S \ {t}) = Cardinality(S) - 1
<1>1. IsFiniteSet(S)
  BY QueueAssumption, FS_Subset
<1>2. Cardinality(S) \in Nat
  BY <1>1, FS_CardinalityType
<1>3. ASSUME NEW t \in Thread, t \notin S PROVE Cardinality(S \cup {t}) = Cardinality(S) + 1
  BY <1>1, <1>3, FS_AddElement
<1>4. ASSUME NEW t \in S PROVE Cardinality(S \ {t}) = Cardinality(S) - 1
  BY <1>1, FS_RemoveElement
<1> QED
  BY <1>1, <1>2, <1>3, <1>4

(* Every statement keeps an item from being left with everybody asleep: a  *)
(* push adds a notifier with its item, a notify turns a notifier into a    *)
(* taker while somebody waits, and a taker leaves only with an item, or    *)
(* when there is none.                                                     *)
LEMMA NextWakeup == IInv /\ NoLostWakeup /\ [Next]_vars => NoLostWakeup'
<1> SUFFICES ASSUME IInv, NoLostWakeup, [Next]_vars, waiting' # {}
             PROVE  Len(q') <= Cardinality(Takers') + Cardinality(Notifiers')
  BY DEF NoLostWakeup
<1> USE DEF IInv, TypeOK, Critical, Step, Kind
<1>0. /\ Takers \in SUBSET Thread /\ Notifiers \in SUBSET Thread
      /\ Cardinality(Takers) \in Nat /\ Cardinality(Notifiers) \in Nat
      /\ Len(q) \in Nat
  BY ThreadSets DEF Takers, Notifiers
<1>same. ASSUME q' = q, waiting # {}, Takers' = Takers, Notifiers' = Notifiers
         PROVE  Len(q') <= Cardinality(Takers') + Cardinality(Notifiers')
  BY <1>same, <1>0 DEF NoLostWakeup
<1>more. ASSUME q' = q, waiting # {}, NEW t \in Thread, t \notin Takers,
                Takers' = Takers \cup {t}, Notifiers' = Notifiers
         PROVE  Len(q') <= Cardinality(Takers') + Cardinality(Notifiers')
  BY <1>more, <1>0, ThreadSets DEF NoLostWakeup
<1> DEFINE Goal == Len(q') <= Cardinality(Takers') + Cardinality(Notifiers')
<1> HIDE DEF Goal
<1>1. ASSUME NEW t \in Thread, call(t) PROVE Goal
  <2>1. q' = q /\ waiting # {} /\ Takers' = Takers /\ Notifiers' = Notifiers
    BY <1>1 DEF call, goes, waiting, Takers, Notifiers
  <2> QED
    BY <2>1, <1>same DEF Goal
<1>2. ASSUME NEW t \in Thread, lock(t) PROVE Goal
  <2>1. q' = q /\ waiting # {} /\ Notifiers' = Notifiers /\ t \notin Takers
    BY <1>2 DEF lock, goes, waiting, Takers, Notifiers
  <2>2. Takers' = Takers \/ Takers' = Takers \cup {t}
    BY <1>2 DEF lock, goes, Takers
  <2> QED
    BY <2>1, <2>2, <1>same, <1>more DEF Goal
<1>3. ASSUME NEW t \in Thread, push(t) PROVE Goal
  <2>1. /\ waiting # {} /\ Takers' = Takers
        /\ t \notin Notifiers /\ Notifiers' = Notifiers \cup {t}
    BY <1>3 DEF push, goes, waiting, Takers, Notifiers
  <2>2. Len(q') = Len(q) + 1
    BY <1>3 DEF push
  <2>3. Cardinality(Notifiers \cup {t}) = Cardinality(Notifiers) + 1
    BY <1>0, <2>1, ThreadSets
  <2> QED
    BY <1>0, <2>1, <2>2, <2>3 DEF NoLostWakeup, Goal
<1>4. ASSUME NEW t \in Thread, notify_one(t) PROVE Goal
  <2>1. waiting # {}
    BY <1>4 DEF notify_one, waiting
  <2>2. PICK w \in waiting : pc' = [pc EXCEPT ![t] = "unlock", ![w] = "relock"]
    BY <1>4, <2>1 DEF notify_one
  <2>3. /\ w \in Thread /\ w \notin Takers /\ Takers' = Takers \cup {w}
        /\ t \in Notifiers /\ Notifiers' = Notifiers \ {t} /\ q' = q
    BY <1>4, <2>2 DEF notify_one, waiting, Takers, Notifiers
  <2>4. /\ Cardinality(Takers \cup {w}) = Cardinality(Takers) + 1
        /\ Cardinality(Notifiers \ {t}) = Cardinality(Notifiers) - 1
    BY <1>0, <2>3, ThreadSets
  <2> QED
    BY <1>0, <2>1, <2>3, <2>4 DEF NoLostWakeup, Goal
<1>5. ASSUME NEW t \in Thread, test(t) PROVE Goal
  <2>1. CASE q = <<>>
    <3>1. q' = <<>> /\ Takers' \in SUBSET Thread /\ Notifiers' \in SUBSET Thread
      BY <1>5, <2>1 DEF test, Takers, Notifiers
    <3>2. Cardinality(Takers') \in Nat /\ Cardinality(Notifiers') \in Nat
      BY <3>1, ThreadSets
    <3> QED
      BY <3>1, <3>2 DEF Goal
  <2>2. CASE q # <<>>
    <3>1. q' = q /\ waiting # {} /\ Takers' = Takers /\ Notifiers' = Notifiers
      BY <1>5, <2>2 DEF test, goes, waiting, Takers, Notifiers
    <3> QED
      BY <3>1, <1>same DEF Goal
  <2> QED
    BY <2>1, <2>2
<1>6. ASSUME NEW t \in Thread, front(t) PROVE Goal
  <2>1. q' = q /\ waiting # {} /\ Takers' = Takers /\ Notifiers' = Notifiers
    BY <1>6 DEF front, goes, waiting, Takers, Notifiers
  <2> QED
    BY <2>1, <1>same DEF Goal
<1>7. ASSUME NEW t \in Thread, pop(t) PROVE Goal
  <2>1. /\ waiting # {} /\ Notifiers' = Notifiers
        /\ t \in Takers /\ Takers' = Takers \ {t}
    BY <1>7 DEF pop, goes, waiting, Takers, Notifiers
  <2>2. q # <<>> /\ Len(q') = Len(q) - 1
    BY <1>7 DEF pop, goes, ValInv
  <2>3. Cardinality(Takers \ {t}) = Cardinality(Takers) - 1
    BY <1>0, <2>1, ThreadSets
  <2> QED
    BY <1>0, <2>1, <2>2, <2>3 DEF NoLostWakeup, Goal
<1>8. ASSUME NEW t \in Thread, unlock(t) PROVE Goal
  <2>1. q' = q /\ waiting # {} /\ Takers' = Takers /\ Notifiers' = Notifiers
    BY <1>8 DEF unlock, goes, waiting, Takers, Notifiers
  <2> QED
    BY <2>1, <1>same DEF Goal
<1>9. ASSUME NEW t \in Thread, relock(t) PROVE Goal
  <2>1. q' = q /\ waiting # {} /\ Takers' = Takers /\ Notifiers' = Notifiers
    BY <1>9 DEF relock, goes, waiting, Takers, Notifiers
  <2> QED
    BY <2>1, <1>same DEF Goal
<1>10. ASSUME NEW t \in Thread, wake_spuriously(t) PROVE Goal
  <2>1. /\ q' = q /\ waiting # {} /\ Notifiers' = Notifiers
        /\ t \notin Takers /\ Takers' = Takers \cup {t}
    BY <1>10 DEF wake_spuriously, goes, waiting, Takers, Notifiers
  <2> QED
    BY <2>1, <1>more DEF Goal
<1>11. CASE UNCHANGED vars
  <2>1. q' = q /\ waiting # {} /\ Takers' = Takers /\ Notifiers' = Notifiers
    BY <1>11 DEF vars, waiting, Takers, Notifiers
  <2> QED
    BY <2>1, <1>same DEF Goal
<1> QED
  BY <1>1, <1>2, <1>3, <1>4, <1>5, <1>6, <1>7, <1>8, <1>9, <1>10, <1>11 DEF Next, run, Goal

(* No wake-up of safe_queue's condition variable is lost, for any number   *)
(* of threads that enqueue, dequeue and poll.                              *)
THEOREM WakeupSafe == Spec => []NoLostWakeup
<1>1. Init => NoLostWakeup
  BY DEF Init, NoLostWakeup, waiting
<1> QED
  BY <1>1, Inductive, NextWakeup, PTL DEF Spec

=============================================================================

----------------------------- MODULE SafeQueue -----------------------------
(***************************************************************************)
(* safe_queue, the queue between the threads: enqueue, dequeue and poll    *)
(* step by step, with the mutex m and the condition variable c.  Shown to  *)
(* implement FifoQueue.                                                    *)
(***************************************************************************)
EXTENDS Integers, Sequences, FiniteSets

CONSTANTS
    Thread,     \* the threads that share the queue
    Item,       \* the items; null_item may be enqueued like any other
    null_item,  \* what poll returns for an empty queue
    free,       \* m when nobody holds it
    MaxCalls    \* bound: calls made by all threads together

ASSUME QueueAssumption ==
    /\ null_item \in Item /\ free \notin Thread /\ MaxCalls \in Nat
    /\ IsFiniteSet(Thread)

VARIABLES
    q,      \* the std::queue
    m,      \* the thread that holds the mutex, or free
    pc,     \* per thread: the statement it is about to execute
    kind,   \* per thread: the operation it is in, or "none"
    val,    \* per thread: the parameter t, or the local val
    calls   \* how many calls were made

vars == <<q, m, pc, kind, val, calls>>

Critical == {"push", "notify", "test", "front", "pop", "unlock"}
Step == Critical \cup {"idle", "lock", "wait", "relock"}
Kind == {"enqueue", "dequeue", "poll"}

TypeOK ==
    /\ q \in Seq(Item)
    /\ m \in Thread \cup {free}
    /\ pc \in [Thread -> Step]
    /\ kind \in [Thread -> Kind \cup {"none"}]
    /\ val \in [Thread -> Item]
    /\ calls \in 0..MaxCalls

Init ==
    /\ q = <<>> /\ m = free
    /\ pc = [t \in Thread |-> "idle"]
    /\ kind = [t \in Thread |-> "none"]
    /\ val = [t \in Thread |-> null_item]
    /\ calls = 0

-----------------------------------------------------------------------------
goes(t, from, to) == pc[t] = from /\ pc' = [pc EXCEPT ![t] = to]

call(t) ==
    /\ calls < MaxCalls /\ calls' = calls + 1
    /\ goes(t, "idle", "lock")
    /\ \/ \E v \in Item : /\ kind' = [kind EXCEPT ![t] = "enqueue"]
                          /\ val' = [val EXCEPT ![t] = v]
       \/ \E k \in {"dequeue", "poll"} : kind' = [kind EXCEPT ![t] = k] /\ UNCHANGED val
    /\ UNCHANGED <<q, m>>

(* The constructors of lock_guard and unique_lock. *)
lock(t) ==
    /\ m = free /\ m' = t
    /\ goes(t, "lock", IF kind[t] = "enqueue" THEN "push" ELSE "test")
    /\ UNCHANGED <<q, kind, val, calls>>

push(t) ==
    /\ goes(t, "push", "notify")
    /\ q' = Append(q, val[t])
    /\ UNCHANGED <<m, kind, val, calls>>

waiting == {w \in Thread : pc[w] = "wait"}

(* Mutants: only the first item of the queue wakes somebody; nobody does. *)
notify_one_if_first(t) ==
    /\ pc[t] = "notify"
    /\ \/ /\ Len(q) = 1
          /\ \E w \in waiting : pc' = [pc EXCEPT ![t] = "unlock", ![w] = "relock"]
       \/ (Len(q) > 1 \/ waiting = {}) /\ pc' = [pc EXCEPT ![t] = "unlock"]
    /\ UNCHANGED <<q, m, kind, val, calls>>
notify_one_dropped(t) ==
    /\ pc[t] = "notify" /\ pc' = [pc EXCEPT ![t] = "unlock"]
    /\ UNCHANGED <<q, m, kind, val, calls>>

(* c.notify_one wakes one of the waiting threads, if there is any. *)
notify_one(t) ==
    /\ pc[t] = "notify"
    /\ \/ \E w \in waiting : pc' = [pc EXCEPT ![t] = "unlock", ![w] = "relock"]
       \/ waiting = {} /\ pc' = [pc EXCEPT ![t] = "unlock"]
    /\ UNCHANGED <<q, m, kind, val, calls>>

(* Mutant: poll returns a local it never assigned. *)
empty_result_unset == <<>>

empty_result == null_item

(* q.empty() in dequeue and in poll.  On an empty queue poll returns the   *)
(* null item, and dequeue calls c.wait, which releases the mutex at once.  *)
test(t) ==
    /\ \/ q # <<>> /\ goes(t, "test", "front") /\ UNCHANGED <<m, val>>
       \/ /\ q = <<>> /\ kind[t] = "poll"
          /\ goes(t, "test", "unlock")
          /\ val' = [val EXCEPT ![t] = empty_result] /\ UNCHANGED m
       \/ /\ q = <<>> /\ kind[t] = "dequeue"
          /\ goes(t, "test", "wait")
          /\ m' = free /\ UNCHANGED val
    /\ UNCHANGED <<q, kind, calls>>

front(t) ==
    /\ goes(t, "front", "pop")
    /\ val' = [val EXCEPT ![t] = Head(q)]
    /\ UNCHANGED <<q, m, kind, calls>>

(* Mutant: the item is read but stays in the queue. *)
pop_forgotten(t) ==
    /\ goes(t, "pop", "unlock")
    /\ UNCHANGED <<q, m, kind, val, calls>>

pop(t) ==
    /\ goes(t, "pop", "unlock")
    /\ q' = Tail(q)
    /\ UNCHANGED <<m, kind, val, calls>>

(* The lock's destructor, then the return. *)
unlock(t) ==
    /\ m' = free
    /\ goes(t, "unlock", "idle")
    /\ kind' = [kind EXCEPT ![t] = "none"]
    /\ val' = [val EXCEPT ![t] = null_item]
    /\ UNCHANGED <<q, calls>>

(* c.wait of a woken thread returns with the mutex held. *)
relock(t) ==
    /\ m = free /\ m' = t
    /\ goes(t, "relock", "test")
    /\ UNCHANGED <<q, kind, val, calls>>

(* A condition variable may wake a thread for no reason. *)
wake_spuriously(t) ==
    /\ goes(t, "wait", "relock")
    /\ UNCHANGED <<q, m, kind, val, calls>>

run(t) ==
    \/ lock(t) \/ push(t) \/ notify_one(t) \/ test(t) \/ front(t) \/ pop(t)
    \/ unlock(t) \/ relock(t)

Next == \E t \in Thread : call(t) \/ run(t) \/ wake_spuriously(t)

Spec == Init /\ [][Next]_vars

(* A thread that is not waiting goes on.  The mutex need not be fair.      *)
FairSpec == Spec /\ \A t \in Thread : WF_vars(run(t))

-----------------------------------------------------------------------------
(* The refinement mapping: enqueue takes effect at push, dequeue and poll  *)
(* at pop or when poll finds the queue empty.  Between front and pop the   *)
(* local val is ahead of the effect.                                       *)
phase_bar ==
    [t \in Thread |-> IF pc[t] = "idle" THEN "idle"
                      ELSE IF pc[t] \in {"notify", "unlock"} THEN "done" ELSE "called"]
val_bar == [t \in Thread |-> IF pc[t] = "pop" THEN null_item ELSE val[t]]

Fifo == INSTANCE FifoQueue WITH items <- q, phase <- phase_bar, val <- val_bar

(* enqueue, dequeue and poll are atomic operations on a FIFO queue: no     *)
(* interleaving of their statements, waits and wake-ups loses, duplicates, *)
(* reorders or invents an item.                                            *)
ImplementsFifo == Fifo!Spec

(* No wake-up is lost: while a dequeue waits, every item in the queue has  *)
(* an awake dequeue or poll that will take it, or an enqueue that is about *)
(* to wake one.                                                            *)
Takers == {t \in Thread : pc[t] \in {"relock", "test", "front", "pop"}}
Notifiers == {t \in Thread : pc[t] = "notify"}
NoLostWakeup == waiting # {} => Len(q) <= Cardinality(Takers) + Cardinality(Notifiers)

(* Every call of enqueue and of poll returns, and a dequeue returns unless *)
(* the queue keeps being found empty.  (The calls are finitely many, and   *)
(* so must be the wake-ups without a reason: std::mutex is not fair.)      *)
CallsReturn ==
    <>[][\A t \in Thread : ~wake_spuriously(t)]_vars =>
        \A t \in Thread : []<>(pc[t] = "idle" \/ (kind[t] = "dequeue" /\ q = <<>>))

=============================================================================

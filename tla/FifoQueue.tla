----------------------------- MODULE FifoQueue -----------------------------
(***************************************************************************)
(* What safe_queue promises its callers: a first-in first-out queue whose  *)
(* operations, called by any number of threads, each take effect at one    *)
(* instant between the call and the return.                                *)
(***************************************************************************)
EXTENDS Sequences

CONSTANTS Thread, Item, null_item

VARIABLES
    items,   \* the contents of the queue
    phase,   \* per thread: "idle", "called", or "done" (took effect)
    kind,    \* per thread: the operation it is in
    val      \* per thread: the item it brings, or after "done" the one it gets

vars == <<items, phase, kind, val>>

Kind == {"enqueue", "dequeue", "poll"}

Init ==
    /\ items = <<>>
    /\ phase = [t \in Thread |-> "idle"]
    /\ kind = [t \in Thread |-> "none"]
    /\ val = [t \in Thread |-> null_item]

Call(t, k, v) ==
    /\ phase[t] = "idle"
    /\ phase' = [phase EXCEPT ![t] = "called"]
    /\ kind' = [kind EXCEPT ![t] = k]
    /\ val' = [val EXCEPT ![t] = v]
    /\ UNCHANGED items

takesEffect(t) ==
    /\ phase[t] = "called"
    /\ phase' = [phase EXCEPT ![t] = "done"]
    /\ UNCHANGED kind

Enqueue(t) ==
    /\ kind[t] = "enqueue" /\ takesEffect(t)
    /\ items' = Append(items, val[t])
    /\ UNCHANGED val

(* dequeue and poll of a queue that is not empty *)
Take(t) ==
    /\ kind[t] \in {"dequeue", "poll"} /\ takesEffect(t)
    /\ items # <<>>
    /\ items' = Tail(items)
    /\ val' = [val EXCEPT ![t] = Head(items)]

(* Only poll may find the queue empty; dequeue waits. *)
FindEmpty(t) ==
    /\ kind[t] = "poll" /\ takesEffect(t)
    /\ items = <<>>
    /\ val' = [val EXCEPT ![t] = null_item]
    /\ UNCHANGED items

Return(t) ==
    /\ phase[t] = "done"
    /\ phase' = [phase EXCEPT ![t] = "idle"]
    /\ kind' = [kind EXCEPT ![t] = "none"]
    /\ val' = [val EXCEPT ![t] = null_item]
    /\ UNCHANGED items

Next ==
    \E t \in Thread :
        \/ \E v \in Item : Call(t, "enqueue", v)
        \/ \E k \in {"dequeue", "poll"} : Call(t, k, null_item)
        \/ Enqueue(t) \/ Take(t) \/ FindEmpty(t) \/ Return(t)

Spec == Init /\ [][Next]_vars

=============================================================================

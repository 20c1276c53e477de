----------------------------- MODULE FifoMutex -----------------------------
(***************************************************************************)
(* The promise of tokio::sync::Mutex that the provider relies on: one      *)
(* owner, waiters served in the order in which they asked, a released lock *)
(* handed straight to the first waiter, and a waiter that goes away (its   *)
(* request was cancelled) leaving no trace.  tokio is not part of the      *)
(* repository: the operators follow how src/provider/csharp.rs uses it.    *)
(***************************************************************************)
EXTENDS Naturals, Sequences

CONSTANT Nobody          \* "owner" of a lock that is free

Mutex(T) == [owner : T \cup {Nobody}, queue : Seq(T)]

Waiters(m) == {m.queue[k] : k \in DOMAIN m.queue}

\* Nobody queues for a free lock, and nobody is in it twice.
Ordered(m) ==
    /\ m.owner = Nobody => m.queue = <<>>
    /\ m.owner \notin Waiters(m)
    /\ \A j, k \in DOMAIN m.queue : m.queue[j] = m.queue[k] => j = k

Unlocked == [owner |-> Nobody, queue |-> <<>>]

\* lock().await: take the lock at once when it is free, else join the queue.
Acquire(m, t) ==
    IF m.owner = Nobody THEN [m EXCEPT !.owner = t]
                        ELSE [m EXCEPT !.queue = Append(@, t)]

\* Dropping the guard: the first waiter becomes the owner.
Release(m) ==
    IF m.queue = <<>> THEN Unlocked
                      ELSE [owner |-> Head(m.queue), queue |-> Tail(m.queue)]

\* The future of a waiter or of the owner is dropped.
Abandon(m, t) ==
    IF m.owner = t THEN Release(m)
    ELSE IF \E k \in DOMAIN m.queue : m.queue[k] = t
         THEN LET k == CHOOSE k \in DOMAIN m.queue : m.queue[k] = t
              IN  [m EXCEPT !.queue =
                      SubSeq(@, 1, k - 1) \o SubSeq(@, k + 1, Len(@))]
         ELSE m
=============================================================================

------------------------------- MODULE FifoPool -------------------------------
(***************************************************************************)
(* What a WorkerPool promises to its clients, without mutex, condition      *)
(* variables and counters: a first-in first-out queue of items, each given  *)
(* to exactly one worker, and a wait_for_idle that returns only when nothing *)
(* is queued and nobody is working.  The paging engine (PagingState) uses   *)
(* its pools in this form.                                                  *)
(***************************************************************************)
EXTENDS Sequences

CONSTANTS Workers, Callers, Items, Exit

VARIABLES queue,     \* items not yet taken
          busy,      \* workers that are dealing with an item
          gone,      \* workers that have left
          waiting    \* callers inside wait_for_idle

poolVars == <<queue, busy, gone, waiting>>

PoolInit == queue = <<>> /\ busy = {} /\ gone = {} /\ waiting = {}

Put(item) ==
  /\ queue' = Append(queue, item)
  /\ UNCHANGED <<busy, gone, waiting>>

Take(w) ==
  /\ w \notin busy \cup gone
  /\ queue # <<>>
  /\ queue' = Tail(queue)
  /\ IF Head(queue) = Exit
     THEN gone' = gone \cup {w} /\ busy' = busy
     ELSE busy' = busy \cup {w} /\ gone' = gone
  /\ UNCHANGED waiting

Finish(w) ==
  /\ w \in busy
  /\ busy' = busy \ {w}
  /\ UNCHANGED <<queue, gone, waiting>>

WaitForIdle(c) ==
  /\ waiting' = waiting \cup {c}
  /\ UNCHANGED <<queue, busy, gone>>

ReturnIdle(c) ==
  /\ c \in waiting
  /\ queue = <<>> /\ busy = {}
  /\ waiting' = waiting \ {c}
  /\ UNCHANGED <<queue, busy, gone>>

PoolNext ==
  \/ \E item \in Items : Put(item)
  \/ \E w \in Workers : Take(w) \/ Finish(w)
  \/ \E c \in Callers : WaitForIdle(c) \/ ReturnIdle(c)

PoolSpec == PoolInit /\ [][PoolNext]_poolVars
=============================================================================

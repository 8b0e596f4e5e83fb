------------------------------- MODULE Kernel -------------------------------
(***************************************************************************)
(* What umap relies on the kernel for: accesses of application threads to  *)
(* a region registered with userfaultfd, the faults they take, and the     *)
(* wake-ups that end them. Modelled from the ioctls and messages that      *)
(* Uffd.cpp uses; it is not code of umap.                                  *)
(***************************************************************************)
EXTENDS PagingState

Accessible(e) == mem[e.page] # "none" /\ (e.write => e.page \notin wp)

\* Write p: its copies in the Store and in a copyin_buf fall behind.
AppWrites(p) ==
  /\ mem' = [mem EXCEPT ![p] = "fresh"]
  /\ store_fresh' = store_fresh \ {p}
  /\ filler_buf' = [f \in Fillers |-> IF filler_pc[f] = "copy" /\ page[filler_pd[f]] = p
                                      THEN "stale" ELSE filler_buf[f]]

\* A running thread writes to a page that is in memory and not protected.
\* (A read of a page in memory changes nothing.)
AppWrite(t, p) ==
  /\ Alive
  /\ fault[t] = NoFault
  /\ Accessible([page |-> p, write |-> TRUE])
  /\ AppWrites(p)
  /\ UNCHANGED <<wp, fault, blocked, unread, listVars, waitVars, pdVars, handlerVars,
                 fill_queue, filler_pc, filler_pd, mgr_work, mgrVars, evictVars, aborted>>

\* An access, new or tried again after a wake-up, faults: the thread sleeps and
\* its message can be read from the uffd.
AppFault(t, e) ==
  /\ Alive
  /\ fault[t] = NoFault \/ (fault[t] = e /\ t \notin blocked)
  /\ ~Accessible(e)
  /\ fault' = [fault EXCEPT ![t] = e]
  /\ blocked' = blocked \cup {t}
  /\ unread' = unread \cup {t}
  /\ UNCHANGED <<mem, wp, store_fresh, listVars, waitVars, pdVars, handlerVars, fillVars,
                 mgr_work, mgrVars, evictVars, aborted>>

\* A thread that was woken tries again and succeeds.
AppRetry(t) ==
  /\ Alive
  /\ fault[t] # NoFault /\ t \notin blocked
  /\ Accessible(fault[t])
  /\ fault' = [fault EXCEPT ![t] = NoFault]
  /\ IF fault[t].write THEN AppWrites(fault[t].page)
                       ELSE UNCHANGED <<mem, store_fresh, filler_buf>>
  /\ UNCHANGED <<wp, blocked, unread, listVars, waitVars, pdVars, handlerVars,
                 fill_queue, filler_pc, filler_pd, mgr_work, mgrVars, evictVars, aborted>>

\* The ioctl wakes every thread that sleeps on page p; messages of theirs that
\* were not read yet are gone.
WakeThreads(p) ==
  /\ blocked' = {t \in blocked : fault[t].page # p}
  /\ unread' = {t \in unread : fault[t].page # p}

\* UFFDIO_COPY maps the page in; it fails, and leaves the page as it is, when it is in
\* memory already.
UffdioCopy(data, p) ==
  /\ DieUnless(mem[p] = "none", "UFFDIO_COPY")
  /\ mem' = [mem EXCEPT ![p] = IF mem[p] = "none" THEN data ELSE @]
  /\ WakeThreads(p)

AppStep(t) ==
  \/ \E p \in {e.page : e \in {a \in Accesses : a.write}} : AppWrite(t, p)
  \/ \E e \in Accesses : AppFault(t, e)
  \/ AppRetry(t)
=============================================================================

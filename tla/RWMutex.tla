------------------------------ MODULE RWMutex ------------------------------
(***************************************************************************)
(* Go's sync.RWMutex as a value.  Lock has two steps: the writer announces *)
(* itself, which holds back new readers, and then waits for the readers it *)
(* found.  One writer is announced at a time.                              *)
(***************************************************************************)

Unlocked == [readers |-> {}, pending |-> {}, writer |-> {}]

Mutex(procs) ==
  [readers : SUBSET procs, pending : SUBSET procs, writer : SUBSET procs]

CanRLock(m) == m.pending = {} /\ m.writer = {}
RLock(m, p) == [m EXCEPT !.readers = @ \cup {p}]
RUnlock(m, p) == [m EXCEPT !.readers = @ \ {p}]

CanAnnounce(m) == m.pending = {} /\ m.writer = {}
Announce(m, p) == [m EXCEPT !.pending = {p}]

CanLock(m, p) == m.pending = {p} /\ m.readers = {}
Lock(m, p) == [m EXCEPT !.pending = {}, !.writer = {p}]
Unlock(m, p) == [m EXCEPT !.writer = {}]

\* At most one writer, announced or holding the lock; no readers with one
\* that holds it.
WellLocked(m) ==
  /\ m.writer # {} => m.readers = {} /\ m.pending = {}
  /\ \A p, q \in m.writer \cup m.pending : p = q
=============================================================================

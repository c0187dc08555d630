-------------------------- MODULE TokenCacheProofs --------------------------
(***************************************************************************)
(* Proofs about auth.Manager's token cache, for any number of goroutines,  *)
(* any lifetimes, any margin and any timeout.                              *)
(***************************************************************************)
EXTENDS TokenCache, TLAPS

LEMMA InitIInv == Init => IInv
  BY TimesAssumption
  DEF Init, IInv, TypeOK, LockInv, CacheInv, FetchInv, HitInv, HandedOutFresh,
      Tokens, NoToken, Mutex, Unlocked, WellLocked, PCs, Reading, Writing

-----------------------------------------------------------------------------
(* Types.                                                                  *)

LEMMA TypeStep == TypeOK /\ [Next]_vars => TypeOK'
<1> SUFFICES ASSUME TypeOK, [Next]_vars PROVE TypeOK'
  OBVIOUS
<1> USE TimesAssumption DEF TypeOK, cache
<1>1. CASE Tick
  BY <1>1 DEF Tick
<1> HIDE DEF TypeOK
<1>a. ASSUME NEW c \in Callers, NEW pc \in PCs, NEW t \in Tokens,
             NEW at \in Nat, At(c, pc, t, at)
      PROVE  caller' \in [Callers -> [pc : PCs, token : Tokens, at : Nat]]
  BY <1>a DEF TypeOK, At
<1>b. NoToken \in Tokens
  BY DEF NoToken, Tokens
<1>c. ASSUME NEW c \in Callers
      PROVE  /\ caller[c].token \in Tokens
             /\ caller[c].at \in Nat
             /\ caller[c].pc \in PCs
  BY DEF TypeOK
<1>2. ASSUME NEW c \in Callers, Call(c) PROVE TypeOK'
  BY <1>2, <1>a, <1>b DEF Call, PCs, TypeOK
<1>3. ASSUME NEW c \in Callers, ReadLocks(c) PROVE TypeOK'
  <2>1. mu' \in Mutex(Callers)
    BY <1>3 DEF ReadLocks, TypeOK, Mutex, RLock
  <2> QED
    BY <2>1, <1>3, <1>a, <1>b DEF ReadLocks, PCs, Reading, TypeOK, cache
<1>4. ASSUME NEW c \in Callers, Announces(c) \/ Locks(c) PROVE TypeOK'
  <2>1. ASSUME NEW m \in Mutex(Callers)
        PROVE  /\ Announce(m, c) \in Mutex(Callers)
               /\ Lock(m, c) \in Mutex(Callers)
    BY DEF Mutex, Announce, Lock
  <2>2. mu' \in Mutex(Callers)
    BY <2>1, <1>4 DEF Announces, Locks, TypeOK
  <2> QED
    BY <2>2, <1>4, <1>a, <1>b DEF Announces, Locks, PCs, Writing, TypeOK, cache
<1>5. ASSUME NEW c \in Callers, Issues(c) PROVE TypeOK'
  <2>1. PICK life \in Lifetimes, text \in BOOLEAN :
          At(c, "answered", [issued |-> now, life |-> life, text |-> text],
             caller[c].at)
    BY <1>5 DEF Issues
  <2>2. [issued |-> now, life |-> life, text |-> text] \in Tokens
    BY TimesAssumption DEF Tokens, TypeOK
  <2> QED
    BY <2>1, <2>2, <1>5, <1>a, <1>c DEF Issues, PCs, Writing, TypeOK, cache
<1>6. ASSUME NEW c \in Callers, Runs(c) PROVE TypeOK'
  <2>1. CASE Hits(c)
    BY <2>1, <1>a, <1>b DEF Hits, PCs, Reading, TypeOK, cache
  <2>2. mu' \in Mutex(Callers)
    BY <1>6 DEF Runs, Hits, Copies, Misses, Rechecks, Stores, FetchFails,
                Leaves, RUnlock, Unlock, Mutex, TypeOK
  <2>3. CASE Copies(c) \/ Misses(c)
    BY <2>2, <2>3, <1>a, <1>b, <1>c DEF Copies, Misses, PCs, TypeOK, cache
  <2>4. CASE Rechecks(c)
    BY <2>2, <2>4, <1>a, <1>b
    DEF Rechecks, Leaves, PCs, Writing, TypeOK, cache
  <2>5. CASE Stores(c)
    BY <2>2, <2>5, <1>a, <1>c, TimesAssumption
    DEF Stores, Leaves, PCs, TypeOK, Tokens, cache
  <2>6. CASE FetchFails(c)
    BY <2>2, <2>6, <1>a, <1>b DEF FetchFails, Leaves, PCs, TypeOK, cache
  <2> QED
    BY <1>6, <2>1, <2>3, <2>4, <2>5, <2>6 DEF Runs
<1>7. CASE UNCHANGED vars
  BY <1>7 DEF TypeOK, vars, cache
<1> QED
  BY <1>1, <1>2, <1>3, <1>4, <1>5, <1>6, <1>7 DEF Next

-----------------------------------------------------------------------------
(* The lock.                                                               *)

\* What a step of c does to the positions and to the lock.
Moves(c) ==
  /\ \A d \in Callers \ {c} : caller'[d] = caller[d]
  /\ \/ mu' = mu /\ caller'[c].pc = caller[c].pc
     \/ /\ mu' = mu
        /\ \/ {caller[c].pc, caller'[c].pc} \subseteq Reading
           \/ {caller[c].pc, caller'[c].pc} \subseteq Writing
           \/ {caller[c].pc, caller'[c].pc}
                \cap (Reading \cup Writing \cup {"pending"}) = {}
     \/ /\ CanRLock(mu) /\ mu' = RLock(mu, c)
        /\ caller[c].pc = "called" /\ caller'[c].pc = "reading"
     \/ /\ mu' = RUnlock(mu, c)
        /\ caller[c].pc \in Reading /\ caller'[c].pc \in {"cached", "missed"}
     \/ /\ CanAnnounce(mu) /\ mu' = Announce(mu, c)
        /\ caller[c].pc = "missed" /\ caller'[c].pc = "pending"
     \/ /\ CanLock(mu, c) /\ mu' = Lock(mu, c)
        /\ caller[c].pc = "pending" /\ caller'[c].pc = "locked"
     \/ /\ mu' = Unlock(mu, c)
        /\ caller[c].pc \in Writing
        /\ caller'[c].pc \in {"cached", "fetched", "failed"}

LEMMA StepMoves ==
  ASSUME TypeOK, NEW c \in Callers,
         \/ Call(c) \/ Runs(c) \/ Issues(c)
         \/ ReadLocks(c) \/ Announces(c) \/ Locks(c)
  PROVE  Moves(c)
<1>a. ASSUME NEW pc, NEW t, NEW at, At(c, pc, t, at)
      PROVE  /\ caller'[c].pc = pc
             /\ \A d \in Callers \ {c} : caller'[d] = caller[d]
  BY <1>a DEF At, TypeOK
<1> USE DEF Moves
<1>1. CASE Call(c)
  BY <1>1, <1>a DEF Call, Reading, Writing
<1>2. CASE ReadLocks(c) \/ Announces(c) \/ Locks(c)
  BY <1>2, <1>a DEF ReadLocks, Announces, Locks
<1>3. CASE Issues(c)
  BY <1>3, <1>a DEF Issues, Writing
<1>4. CASE Hits(c)
  BY <1>4, <1>a DEF Hits, Reading
<1>5. CASE Copies(c) \/ Misses(c)
  BY <1>5, <1>a DEF Copies, Misses, Reading
<1>6. CASE Rechecks(c)
  <2>1. CASE Cached
    BY <1>6, <1>a, <2>1 DEF Rechecks, Leaves, Writing
  <2>2. CASE ~Cached
    BY <1>6, <1>a, <2>2 DEF Rechecks, Writing
  <2> QED
    BY <2>1, <2>2
<1>7. CASE Stores(c) \/ FetchFails(c)
  BY <1>7, <1>a DEF Stores, FetchFails, Leaves, Writing
<1> QED
  BY <1>1, <1>2, <1>3, <1>4, <1>5, <1>6, <1>7 DEF Runs

LEMMA MoveLocks ==
  ASSUME TypeOK, LockInv, NEW c \in Callers, Moves(c)
  PROVE  LockInv'
<1> USE DEF LockInv, WellLocked, Reading, Writing
<1>1. /\ mu.readers \subseteq Callers /\ mu.pending \subseteq Callers
      /\ mu.writer \subseteq Callers
      /\ mu = [readers |-> mu.readers, pending |-> mu.pending,
               writer |-> mu.writer]
  BY DEF TypeOK, Mutex
<1>2. CASE /\ mu' = mu
           /\ \/ caller'[c].pc = caller[c].pc
              \/ {caller[c].pc, caller'[c].pc} \subseteq Reading
              \/ {caller[c].pc, caller'[c].pc} \subseteq Writing
              \/ {caller[c].pc, caller'[c].pc}
                   \cap (Reading \cup Writing \cup {"pending"}) = {}
  BY <1>2 DEF Moves
<1>3. CASE /\ CanRLock(mu) /\ mu' = RLock(mu, c)
           /\ caller[c].pc = "called" /\ caller'[c].pc = "reading"
  <2>1. /\ mu'.readers = mu.readers \cup {c}
        /\ mu'.pending = {} /\ mu'.writer = {}
    BY <1>1, <1>3 DEF CanRLock, RLock
  <2> QED
    BY <2>1, <1>3 DEF CanRLock, Moves
<1>4. CASE /\ mu' = RUnlock(mu, c)
           /\ caller[c].pc \in {"reading", "hit"}
           /\ caller'[c].pc \in {"cached", "missed"}
  <2>1. /\ mu'.readers = mu.readers \ {c}
        /\ mu'.pending = mu.pending /\ mu'.writer = mu.writer
    BY <1>1, <1>4 DEF RUnlock
  <2> QED
    BY <2>1, <1>4 DEF Moves
<1>5. CASE /\ CanAnnounce(mu) /\ mu' = Announce(mu, c)
           /\ caller[c].pc = "missed" /\ caller'[c].pc = "pending"
  <2>1. /\ mu'.readers = mu.readers
        /\ mu'.pending = {c} /\ mu'.writer = {}
    BY <1>1, <1>5 DEF CanAnnounce, Announce
  <2> QED
    BY <2>1, <1>5 DEF CanAnnounce, Moves
<1>6. CASE /\ CanLock(mu, c) /\ mu' = Lock(mu, c)
           /\ caller[c].pc = "pending" /\ caller'[c].pc = "locked"
  <2>1. mu'.readers = {} /\ mu'.pending = {} /\ mu'.writer = {c}
    BY <1>1, <1>6 DEF CanLock, Lock
  <2> QED
    BY <2>1, <1>6 DEF CanLock, Moves
<1>7. CASE /\ mu' = Unlock(mu, c)
           /\ caller[c].pc \in Writing
           /\ caller'[c].pc \in {"cached", "fetched", "failed"}
  <2>1. /\ mu'.readers = mu.readers
        /\ mu'.pending = mu.pending /\ mu'.writer = mu.writer \ {c}
    BY <1>1, <1>7 DEF Unlock
  <2> QED
    BY <2>1, <1>7 DEF Moves
<1> QED
  BY <1>2, <1>3, <1>4, <1>5, <1>6, <1>7 DEF Moves

LEMMA LockStep == TypeOK /\ LockInv /\ [Next]_vars => LockInv'
<1> SUFFICES ASSUME TypeOK, LockInv, [Next]_vars PROVE LockInv'
  OBVIOUS
<1>1. CASE Tick \/ UNCHANGED vars
  BY <1>1 DEF Tick, vars, LockInv
<1>2. ASSUME NEW c \in Callers,
             \/ Call(c) \/ Runs(c) \/ Issues(c)
             \/ ReadLocks(c) \/ Announces(c) \/ Locks(c)
      PROVE  LockInv'
  BY <1>2, StepMoves, MoveLocks
<1> QED
  BY <1>1, <1>2 DEF Next

-----------------------------------------------------------------------------
(* The cache.                                                              *)

LEMMA CacheStep ==
  TypeOK /\ LockInv /\ FetchInv /\ CacheInv /\ [Next]_vars => CacheInv'
<1> SUFFICES ASSUME TypeOK, FetchInv, CacheInv, [Next]_vars PROVE CacheInv'
  OBVIOUS
<1>1. CASE UNCHANGED cache
  BY <1>1 DEF cache, CacheInv
<1>2. ASSUME NEW c \in Callers, Stores(c) PROVE CacheInv'
  <2>1. /\ token' = caller[c].token
        /\ expiresAt' = now + token'.life - Margin
        /\ now <= token'.issued + FetchTime
    BY <1>2, TimesAssumption DEF Stores, FetchInv, TypeOK, Tokens
  <2>2. token' \in Tokens
    BY <2>1 DEF TypeOK
  <2> QED
    BY <2>1, <2>2, TimesAssumption DEF CacheInv, TypeOK, Tokens
<1> QED
  BY <1>1, <1>2 DEF Next, vars, cache, Tick, Call, Runs, Issues, ReadLocks,
     Announces, Locks, Hits, Copies, Misses, Rechecks, FetchFails

LEMMA FetchStep == TypeOK /\ FetchInv /\ [Next]_vars => FetchInv'
<1> SUFFICES ASSUME TypeOK, FetchInv, [Next]_vars PROVE FetchInv'
  OBVIOUS
<1> USE TimesAssumption
<1>1. CASE Tick
  BY <1>1 DEF Tick, FetchInv, TypeOK
<1>2. CASE UNCHANGED vars
  BY <1>2 DEF vars, FetchInv
<1>3. ASSUME NEW c \in Callers, now' = now,
             \A d \in Callers \ {c} : caller'[d] = caller[d],
             \/ caller'[c].pc \notin {"fetching", "answered"}
             \/ caller'[c].pc = "fetching" /\ caller'[c].at = now
             \/ /\ caller[c].pc = "fetching"
                /\ caller'[c].at = caller[c].at
                /\ caller'[c].token.issued = now
      PROVE  FetchInv'
  BY <1>3 DEF FetchInv, TypeOK
<1>4. ASSUME NEW c \in Callers, Rechecks(c) PROVE FetchInv'
  BY <1>3, <1>4 DEF At, TypeOK, Rechecks, Leaves
<1>5. ASSUME NEW c \in Callers, Issues(c) PROVE FetchInv'
  BY <1>3, <1>5 DEF At, TypeOK, Issues
<1>6. ASSUME NEW c \in Callers,
             \/ Call(c) \/ ReadLocks(c) \/ Announces(c) \/ Locks(c)
             \/ Hits(c) \/ Copies(c) \/ Misses(c)
      PROVE  FetchInv'
  BY <1>3, <1>6
  DEF At, TypeOK, Call, ReadLocks, Announces, Locks, Hits, Copies, Misses
<1>7. ASSUME NEW c \in Callers, Stores(c) \/ FetchFails(c) PROVE FetchInv'
  BY <1>3, <1>7 DEF At, TypeOK, Stores, FetchFails, Leaves
<1> QED
  BY <1>1, <1>2, <1>4, <1>5, <1>6, <1>7 DEF Next, Runs

-----------------------------------------------------------------------------
(* Tokens in the callers' hands.                                           *)

\* A token that passes the check outlives that moment.
LEMMA CachedOutlives ==
  ASSUME TypeOK, CacheInv, Cached
  PROVE  Outlives(token, now)
  BY TimesAssumption DEF TypeOK, CacheInv, Cached, Outlives, Tokens

LEMMA HitStep ==
  TypeOK /\ LockInv /\ CacheInv /\ HitInv /\ [Next]_vars => HitInv'
<1> SUFFICES ASSUME TypeOK, LockInv, CacheInv, HitInv, [Next]_vars,
                    NEW d \in Callers, (caller[d].pc = "hit")'
             PROVE  Outlives(token', caller'[d].at)
  BY DEF HitInv, Outlives
<1>1. CASE Tick \/ UNCHANGED vars
  BY <1>1 DEF Tick, vars, cache, HitInv, Outlives
<1>2. ASSUME NEW c \in Callers, Hits(c)
      PROVE  Outlives(token', caller'[d].at)
  BY <1>2, CachedOutlives DEF At, TypeOK, Hits, cache, HitInv
<1>3. ASSUME NEW c \in Callers,
             \/ Call(c) \/ Copies(c) \/ Misses(c) \/ Rechecks(c)
             \/ FetchFails(c) \/ Issues(c)
             \/ ReadLocks(c) \/ Announces(c) \/ Locks(c)
      PROVE  Outlives(token', caller'[d].at)
  <2>1. token' = token
    BY <1>3 DEF Call, Copies, Misses, Rechecks, FetchFails, Issues, ReadLocks,
                Announces, Locks, cache
  <2>2. d # c
    BY <1>3 DEF At, TypeOK, Call, Copies, Misses, Rechecks, FetchFails, Issues,
       ReadLocks, Announces, Locks, Leaves
  <2>3. caller'[d] = caller[d]
    BY <1>3, <2>2 DEF At, TypeOK, Call, Copies, Misses, Rechecks, FetchFails,
       Issues, ReadLocks, Announces, Locks, Leaves
  <2> QED
    BY <2>1, <2>3 DEF HitInv
<1>4. ASSUME NEW c \in Callers, Stores(c) PROVE FALSE
  <2>1. d # c /\ caller[d].pc = "hit"
    BY <1>4 DEF At, TypeOK, Stores, Leaves
  <2> QED
    BY <2>1, <1>4 DEF Stores, LockInv, WellLocked, Reading, Writing
<1> QED
  BY <1>1, <1>2, <1>3, <1>4 DEF Next, Runs

LEMMA FreshStep ==
  /\ TypeOK /\ CacheInv /\ HitInv /\ HandedOutFresh /\ [Next]_vars
  => HandedOutFresh'
<1> SUFFICES ASSUME TypeOK, CacheInv, HitInv, HandedOutFresh, [Next]_vars,
                    NEW d \in Callers, (caller[d].pc = "cached")'
             PROVE  Outlives(caller'[d].token, caller'[d].at)
  BY DEF HandedOutFresh, Outlives
<1>1. CASE Tick \/ UNCHANGED vars
  BY <1>1 DEF Tick, vars, HandedOutFresh
<1>2. ASSUME NEW c \in Callers, Copies(c)
      PROVE  Outlives(caller'[d].token, caller'[d].at)
  BY <1>2 DEF At, TypeOK, Copies, HitInv, HandedOutFresh
<1>3. ASSUME NEW c \in Callers, Rechecks(c)
      PROVE  Outlives(caller'[d].token, caller'[d].at)
  BY <1>3, CachedOutlives DEF At, TypeOK, Rechecks, Leaves, HandedOutFresh
<1>4. ASSUME NEW c \in Callers,
             \/ Call(c) \/ Hits(c) \/ Misses(c) \/ Stores(c) \/ FetchFails(c)
             \/ Issues(c) \/ ReadLocks(c) \/ Announces(c) \/ Locks(c)
      PROVE  Outlives(caller'[d].token, caller'[d].at)
  <2>1. d # c
    BY <1>4 DEF At, TypeOK, Call, Hits, Misses, Stores, FetchFails, Issues,
       ReadLocks, Announces, Locks, Leaves
  <2>2. caller'[d] = caller[d]
    BY <1>4, <2>1 DEF At, TypeOK, Call, Hits, Misses, Stores, FetchFails,
       Issues, ReadLocks, Announces, Locks, Leaves
  <2> QED
    BY <2>2 DEF HandedOutFresh
<1> QED
  BY <1>1, <1>2, <1>3, <1>4 DEF Next, Runs

-----------------------------------------------------------------------------
LEMMA IInvStep == IInv /\ [Next]_vars => IInv'
  BY TypeStep, LockStep, CacheStep, FetchStep, HitStep, FreshStep DEF IInv

\* The inductive invariant holds in every reachable state: the lock is held
\* by the goroutines that rely on it, and the cache forgets a token before
\* its margin is used up.
THEOREM TokenInvariance == Spec => []IInv
  BY InitIInv, IInvStep, PTL DEF Spec

\* A token GetAccessToken takes from the cache was good for the margin, less
\* the duration of a fetch, at the moment it was checked.
THEOREM HandsOutFresh == Spec => []HandedOutFresh
<1>1. IInv => HandedOutFresh
  BY DEF IInv
<1> QED
  BY <1>1, TokenInvariance, PTL

\* Whenever a goroutine waits for the lock, one of them can go on.
THEOREM NoDeadlock == Spec => []NeverStuck
<1>1. ASSUME IInv PROVE NeverStuck
  <2> SUFFICES ASSUME NEW c \in Callers,
                      caller[c].pc \in {"called", "missed", "pending"}
               PROVE  \E d \in Callers : Proceeds(d)
    BY DEF NeverStuck
  <2>1. /\ mu.readers \subseteq Callers /\ mu.pending \subseteq Callers
        /\ mu.writer \subseteq Callers
        /\ LockInv
    BY <1>1 DEF IInv, TypeOK, Mutex
  <2>2. CASE mu.readers \cup mu.writer # {}
    BY <2>1, <2>2 DEF LockInv, Proceeds
  <2>3. CASE mu.readers \cup mu.writer = {} /\ mu.pending = {}
    BY <2>1, <2>3 DEF LockInv, Proceeds, CanRLock, CanAnnounce
  <2>4. ASSUME mu.readers = {}, NEW d \in mu.pending
        PROVE  Proceeds(d)
    BY <2>1, <2>4 DEF LockInv, WellLocked, Proceeds, CanLock
  <2> QED
    BY <2>1, <2>2, <2>3, <2>4
<1> QED
  BY <1>1, TokenInvariance, PTL

\* A request to Daraja begins only when no other is under way and the cache
\* holds no good token: callers that miss together cause one.
THEOREM OneFetch == Spec => SingleFlight
<1>1. ASSUME IInv, [Next]_vars
      PROVE  [Fetching' \subseteq Fetching \/ (Fetching = {} /\ ~Cached)]_vars
  <2> SUFFICES ASSUME NEW d \in Callers, d \in Fetching', d \notin Fetching
               PROVE  Fetching = {} /\ ~Cached
    BY DEF Fetching
  <2>1. TypeOK /\ LockInv
    BY <1>1 DEF IInv
  <2>2. CASE Tick \/ UNCHANGED vars
    BY <2>2 DEF Tick, vars, Fetching
  <2>3. ASSUME NEW c \in Callers,
               \/ Call(c) \/ Issues(c) \/ ReadLocks(c) \/ Announces(c)
               \/ Locks(c) \/ Hits(c) \/ Copies(c) \/ Misses(c) \/ Stores(c)
               \/ FetchFails(c)
        PROVE  FALSE
    BY <2>1, <2>3 DEF At, TypeOK, Call, Issues, ReadLocks, Announces, Locks,
       Hits, Copies, Misses, Stores, FetchFails, Leaves, Fetching
  <2>4. ASSUME NEW c \in Callers, Rechecks(c)
        PROVE  Fetching = {} /\ ~Cached
    <3>1. ~Cached
      BY <2>1, <2>4 DEF At, TypeOK, Rechecks, Leaves, Fetching
    <3>2. c \in mu.writer /\ Fetching \subseteq mu.writer /\ c \notin Fetching
      BY <2>1, <2>4 DEF Rechecks, LockInv, Writing, Fetching
    <3> QED
      BY <3>1, <3>2, <2>1 DEF LockInv, WellLocked, Fetching
  <2> QED
    BY <1>1, <2>2, <2>3, <2>4 DEF Next, Runs
<1> QED
  BY <1>1, TokenInvariance, PTL DEF Spec, SingleFlight
=============================================================================

----------------------------- MODULE TokenCache -----------------------------
(***************************************************************************)
(* auth.Manager.GetAccessToken: one cached Daraja token behind a RWMutex,  *)
(* checked under the read lock, checked again under the write lock, and    *)
(* fetched while the write lock is held.  Callers call again and again;    *)
(* time passes between any two steps.                                      *)
(***************************************************************************)
EXTENDS Integers, RWMutex

CONSTANTS
  Callers,     \* goroutines that need a token
  Lifetimes,   \* values of expires_in
  Margin,      \* the 119 s taken off a lifetime
  FetchTime,   \* the HTTP client's timeout
  MaxTime      \* bound: the last moment of a behaviour

ASSUME TimesAssumption ==
  /\ Lifetimes \subseteq Int
  /\ Margin \in Nat /\ FetchTime \in Nat /\ MaxTime \in Nat

VARIABLES
  now,         \* the clock
  token,       \* m.token
  expiresAt,   \* m.expiresAt
  mu,          \* m.mu
  caller       \* per goroutine: position, its token, and when it checked
               \* the cache or began to fetch

vars == <<now, token, expiresAt, mu, caller>>
cache == <<token, expiresAt>>

\* A token Daraja issued for a while, or the empty string.
Tokens == [issued : Nat, life : Int, text : BOOLEAN]
NoToken == [issued |-> 0, life |-> 0, text |-> FALSE]

Reading == {"reading", "hit"}
Writing == {"locked", "fetching", "answered"}
PCs == {"idle", "called", "missed", "pending", "cached", "fetched", "failed"}
       \cup Reading \cup Writing

At(c, pc, t, at) ==
  caller' = [caller EXCEPT ![c] = [pc |-> pc, token |-> t, at |-> at]]

\* NewManager: the cache is empty.
Init ==
  /\ now = 0
  /\ token = NoToken
  /\ expiresAt = 0
  /\ mu = Unlocked
  /\ caller = [c \in Callers |-> [pc |-> "idle", token |-> NoToken, at |-> 0]]

\* Time passes, but not past the timeout of a fetch.
Tick ==
  /\ now < MaxTime
  /\ \A c \in Callers : caller[c].pc \in {"fetching", "answered"} =>
                          now < caller[c].at + FetchTime
  /\ now' = now + 1
  /\ UNCHANGED <<cache, mu, caller>>

Call(c) ==
  /\ caller[c].pc \in {"idle", "cached", "fetched", "failed"}
  /\ At(c, "called", NoToken, now)
  /\ UNCHANGED <<now, cache, mu>>

-----------------------------------------------------------------------------
(* The fast path.                                                          *)

\* Fault: the expiry is not looked at.
PresentOnly == token.text

Cached == token.text /\ now < expiresAt

ReadLocks(c) ==
  /\ caller[c].pc = "called"
  /\ CanRLock(mu)
  /\ mu' = RLock(mu, c)
  /\ At(c, "reading", NoToken, now)
  /\ UNCHANGED <<now, cache>>

\* Fault: RUnlock right after the check.
HitsUnlocked(c) ==
  /\ caller[c].pc = "reading"
  /\ Cached
  /\ mu' = RUnlock(mu, c)
  /\ At(c, "hit", NoToken, now)
  /\ UNCHANGED <<now, cache>>

Hits(c) ==
  /\ caller[c].pc = "reading"
  /\ Cached
  /\ At(c, "hit", NoToken, now)
  /\ UNCHANGED <<now, cache, mu>>

Copies(c) ==
  /\ caller[c].pc = "hit"
  /\ mu' = RUnlock(mu, c)
  /\ At(c, "cached", token, caller[c].at)
  /\ UNCHANGED <<now, cache>>

\* Fault: Lock without the RUnlock before it.
MissesLocked(c) ==
  /\ caller[c].pc = "reading"
  /\ ~Cached
  /\ At(c, "missed", NoToken, now)
  /\ UNCHANGED <<now, cache, mu>>

Misses(c) ==
  /\ caller[c].pc = "reading"
  /\ ~Cached
  /\ mu' = RUnlock(mu, c)
  /\ At(c, "missed", NoToken, now)
  /\ UNCHANGED <<now, cache>>

-----------------------------------------------------------------------------
(* The slow path.  Others may lock in between.                             *)

Announces(c) ==
  /\ caller[c].pc = "missed"
  /\ CanAnnounce(mu)
  /\ mu' = Announce(mu, c)
  /\ At(c, "pending", NoToken, now)
  /\ UNCHANGED <<now, cache>>

Locks(c) ==
  /\ caller[c].pc = "pending"
  /\ CanLock(mu, c)
  /\ mu' = Lock(mu, c)
  /\ At(c, "locked", NoToken, now)
  /\ UNCHANGED <<now, cache>>

\* Every return from here on runs the deferred Unlock.
Leaves(c, pc, t, at) == mu' = Unlock(mu, c) /\ At(c, pc, t, at)

\* Fault: no second check.
FetchesAnyway(c) ==
  /\ caller[c].pc = "locked"
  /\ At(c, "fetching", NoToken, now)
  /\ UNCHANGED <<now, cache, mu>>

\* The second check.
Rechecks(c) ==
  /\ caller[c].pc = "locked"
  /\ UNCHANGED <<now, cache>>
  /\ IF Cached THEN Leaves(c, "cached", token, now)
               ELSE At(c, "fetching", NoToken, now) /\ UNCHANGED mu

\* Daraja issues a token; its answer may lack the token's text.
Issues(c) ==
  /\ caller[c].pc = "fetching"
  /\ \E life \in Lifetimes, text \in BOOLEAN :
       At(c, "answered", [issued |-> now, life |-> life, text |-> text],
          caller[c].at)
  /\ UNCHANGED <<now, cache, mu>>

\* The answer is read and cached until Margin before its lifetime ends.
Stores(c) ==
  LET t == caller[c].token
  IN /\ caller[c].pc = "answered"
     /\ token' = t
     /\ expiresAt' = now + t.life - Margin
     /\ Leaves(c, "fetched", t, caller[c].at)
     /\ UNCHANGED now

\* Fault: a failed fetch is tried again, under the lock.
FetchRetries(c) ==
  /\ caller[c].pc \in {"fetching", "answered"}
  /\ At(c, "fetching", NoToken, now)
  /\ UNCHANGED <<now, cache, mu>>

\* The request fails, times out or is cancelled, or the answer is unreadable.
FetchFails(c) ==
  /\ caller[c].pc \in {"fetching", "answered"}
  /\ Leaves(c, "failed", NoToken, now)
  /\ UNCHANGED <<now, cache>>

Runs(c) ==
  \/ Hits(c) \/ Copies(c) \/ Misses(c) \/ Rechecks(c)
  \/ Stores(c) \/ FetchFails(c)

Next ==
  \/ Tick
  \/ \E c \in Callers :
       \/ Call(c) \/ Runs(c) \/ Issues(c)
       \/ ReadLocks(c) \/ Announces(c) \/ Locks(c)

Spec == Init /\ [][Next]_vars

\* A goroutine that can run does, a fetch ends by its timeout at the latest,
\* and sync.RWMutex starves nobody.  No caller has to call.
FairSpec ==
  /\ Spec
  /\ \A c \in Callers : /\ WF_vars(Runs(c))
                        /\ SF_vars(ReadLocks(c))
                        /\ SF_vars(Announces(c))
                        /\ SF_vars(Locks(c))

-----------------------------------------------------------------------------
(* Properties.                                                             *)

\* Every variable has its type.
TypeOK ==
  /\ now \in Nat
  /\ token \in Tokens
  /\ expiresAt \in Int
  /\ mu \in Mutex(Callers)
  /\ caller \in [Callers -> [pc : PCs, token : Tokens, at : Nat]]

\* The lock is held by the goroutines that are where they need it.
LockInv ==
  /\ WellLocked(mu)
  /\ \A c \in Callers :
       /\ c \in mu.readers <=> caller[c].pc \in Reading
       /\ c \in mu.pending <=> caller[c].pc = "pending"
       /\ c \in mu.writer  <=> caller[c].pc \in Writing

\* The cache forgets a token well before Daraja does.
CacheInv ==
  token.text => expiresAt + Margin <= token.issued + token.life + FetchTime

\* A fetch takes no longer than its timeout, and its answer is from within it.
FetchInv ==
  \A c \in Callers :
    /\ caller[c].pc \in {"fetching", "answered"} =>
         caller[c].at <= now /\ now <= caller[c].at + FetchTime
    /\ caller[c].pc = "answered" => caller[c].at <= caller[c].token.issued

\* A token in a caller's hand, or about to be, outlives the moment it was
\* checked.
Outlives(t, at) == t.text /\ at + Margin < t.issued + t.life + FetchTime

\* What is taken from the cache is still good for Margin less the duration of
\* a fetch, counted from the check, although the goroutine may be delayed
\* between the check and the copy and others may refresh the cache meanwhile.
HandedOutFresh ==
  \A c \in Callers :
    caller[c].pc = "cached" => Outlives(caller[c].token, caller[c].at)

\* Until the copy is made, the checked token is the cached one.
HitInv ==
  \A c \in Callers :
    caller[c].pc = "hit" => Outlives(token, caller[c].at)

\* A goroutine that the lock does not hold up.
Proceeds(c) ==
  \/ caller[c].pc \in Reading \cup Writing
  \/ caller[c].pc = "called" /\ CanRLock(mu)
  \/ caller[c].pc = "missed" /\ CanAnnounce(mu)
  \/ caller[c].pc = "pending" /\ CanLock(mu, c)

\* Readers wait for the announced writer, that writer for the readers before
\* it, and all for the one that fetches: whenever anyone waits, someone else
\* can go on, for no goroutine leaves without its unlock or asks for the
\* write lock with the read lock in hand.
NeverStuck ==
  (\E c \in Callers : caller[c].pc \in {"called", "missed", "pending"})
  => \E d \in Callers : Proceeds(d)

\* The inductive invariant.
IInv ==
  TypeOK /\ LockInv /\ CacheInv /\ FetchInv /\ HitInv /\ HandedOutFresh

Fetching == {c \in Callers : caller[c].pc \in {"fetching", "answered"}}

\* Callers that miss together cause one request to Daraja: a fetch begins
\* only when no other is under way and the cache holds no good token.
SingleFlight ==
  [][Fetching' \subseteq Fetching \/ (Fetching = {} /\ ~Cached)]_vars

\* Every call returns, whatever the others do and however their fetches end.
CallsReturn ==
  \A c \in Callers :
    caller[c].pc = "called" ~> caller[c].pc \in {"cached", "fetched", "failed"}
=============================================================================

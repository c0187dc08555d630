--------------------------- MODULE RecoveryWindow ---------------------------
(***************************************************************************)
(* When a session is queried and when it times out: one session, its TTL   *)
(* goroutine, and the ticker of session/ttl.go with the two comparisons of *)
(* the SQLite adapter, which stores and compares times as text cut to      *)
(* whole seconds.  The payer does not answer, and no callback comes: a     *)
(* query finds the prompt open, or closed by its own timeout.  The process *)
(* may crash and stay down; the row is all that is left then.              *)
(*                                                                         *)
(* Time is counted in parts of a second.  A goroutine whose moment has     *)
(* come runs before time goes on, so delays are those of calls only.       *)
(*                                                                         *)
(* Storage calls succeed here, ListPending among them; PaymentFlow has     *)
(* those that fail.  Calls to Daraja may fail.                             *)
(***************************************************************************)
EXTENDS Integers

CONSTANTS
  Second,           \* clock units in a second
  Period,           \* of the ticker: 30 s
  QueryThreshold,   \* 60 s
  TTL,              \* 90 s
  PushTime,         \* at most this from Create to the TTL goroutine
  PassTime,         \* at most this for the queries of one recovery pass
  MaxTime           \* bound: the last moment of a behaviour

ASSUME TimesAssumption ==
  /\ Second \in Nat \ {0} /\ Period \in Nat \ {0}
  /\ QueryThreshold \in Nat /\ TTL \in Nat
  /\ PushTime \in Nat /\ PassTime \in Nat /\ MaxTime \in Nat

VARIABLES
  now,
  since,      \* when the process was last started
  state,      \* of the session, "ABSENT" before Create
  created,    \* CreatedAt
  correlated, \* CheckoutRequestID is not empty
  calling,    \* its InitiatePayment has not seen Daraja's answer yet
  timer,      \* when the TTL goroutine fires, or Never
  nextTick,   \* when the ticker sends next; Never if the process is down
  ticked,     \* ticker.C holds a tick
  pass,       \* "idle", or "visiting" the rows that were listed
  began,      \* when the recovery pass began
  listed,     \* the session is among the rows still to visit
  query       \* history: what calls of QuerySTKStatus for the session did

row    == <<state, created, correlated, query>>
caller == <<calling, timer>>
ticker == <<nextTick, ticked, pass, began, listed>>
vars   == <<now, since, row, caller, ticker>>

Never == -1
Live  == {"CREATED", "STK_PUSHED", "AWAITING_PIN"}
Pending == {"STK_PUSHED", "AWAITING_PIN"}

\* No call yet; calls that returned before Daraja was asked; Daraja was asked.
QueryResults == {"none", "unsent", "sent"}

ExpiresAt == created + TTL

\* Every variable has its type.
TypeOK ==
  /\ now \in Nat /\ since \in Nat
  /\ state \in Live \cup {"ABSENT", "TIMEOUT", "FAILED"}
  /\ created \in Nat
  /\ correlated \in BOOLEAN
  /\ calling \in BOOLEAN
  /\ timer \in Nat \cup {Never}
  /\ nextTick \in Nat \cup {Never}
  /\ ticked \in BOOLEAN
  /\ pass \in {"idle", "visiting"}
  /\ began \in Nat
  /\ listed \in BOOLEAN
  /\ query \in QueryResults

\* The ticker has just been started, at any moment within a second.
Init ==
  /\ now \in 0 .. Second - 1 /\ since = now
  /\ state = "ABSENT"
  /\ created = 0
  /\ correlated = FALSE
  /\ calling = FALSE
  /\ timer = Never
  /\ nextTick = now + Period
  /\ ticked = FALSE
  /\ pass = "idle"
  /\ began = 0
  /\ listed = FALSE
  /\ query = "none"

\* Format(time.RFC3339), compared as text.
Text(t) == t \div Second

\* Fault: <=
BeforeOrSame(t, u) == Text(t) <= Text(u)

Before(t, u) == Text(t) < Text(u)

\* Time passes unless something is due now.
Advance ==
  /\ now < MaxTime
  /\ now # timer
  /\ now # nextTick
  /\ ~(pass = "idle" /\ ticked)
  /\ pass = "visiting" => now < began + PassTime
  /\ now' = now + 1
  /\ UNCHANGED <<since, row, caller, ticker>>

-----------------------------------------------------------------------------
\* InitiatePayment creates the session, at any moment of the first period.
Create ==
  /\ state = "ABSENT" /\ now < Second + Period /\ nextTick # Never
  /\ state' = "CREATED"
  /\ created' = now
  /\ calling' = TRUE
  /\ UNCHANGED <<now, since, correlated, query, timer, ticker>>

\* The push was accepted, with or without a checkout id; the goroutine counts
\* the TTL from here.
Push ==
  /\ calling /\ now <= created + PushTime
  /\ state = "CREATED"
  /\ state' = "STK_PUSHED"
  /\ correlated' \in BOOLEAN
  /\ calling' = FALSE
  /\ timer' = now + TTL
  /\ UNCHANGED <<now, since, created, query, ticker>>

\* The push was refused, or accepted after the session had been swept:
\* InitiatePayment returns an error and starts no goroutine.
PushFails ==
  /\ calling /\ now <= created + PushTime
  /\ calling' = FALSE
  /\ state' = IF state = "CREATED" THEN "FAILED" ELSE state
  /\ UNCHANGED <<now, since, created, correlated, query, timer, ticker>>

\* expireAfter: the transition from STK_PUSHED to TIMEOUT, or a refusal.
TimerFires ==
  /\ now = timer
  /\ timer' = Never
  /\ state' = IF state = "STK_PUSHED" THEN "TIMEOUT" ELSE state
  /\ UNCHANGED <<now, since, created, correlated, query, calling, ticker>>

-----------------------------------------------------------------------------
Ticks ==
  /\ now = nextTick
  /\ nextTick' = now + Period
  /\ ticked' = TRUE
  /\ UNCHANGED <<now, since, row, caller, pass, began, listed>>

\* Fault: the threshold is the TTL.
ListsExpired ==
  /\ pass = "idle" /\ ticked
  /\ ticked' = FALSE
  /\ pass' = "visiting"
  /\ began' = now
  /\ listed' = (state \in Pending /\ Before(created, now - TTL))
  /\ UNCHANGED <<now, since, row, caller, nextTick>>

\* runRecovery begins with ListPending.
Lists ==
  /\ pass = "idle" /\ ticked
  /\ ticked' = FALSE
  /\ pass' = "visiting"
  /\ began' = now
  /\ listed' = (state \in Pending /\ Before(created, now - QueryThreshold))
  /\ UNCHANGED <<now, since, row, caller, nextTick>>

\* A session without a checkout id cannot be queried and is left to the sweep.
Skips ==
  /\ pass = "visiting" /\ listed /\ ~correlated
  /\ listed' = FALSE
  /\ UNCHANGED <<now, since, row, caller, nextTick, ticked, pass, began>>

Visits(result) ==
  /\ pass = "visiting" /\ listed /\ correlated
  /\ listed' = FALSE
  /\ query' = result
  /\ UNCHANGED <<now, since, created, correlated, caller, nextTick, ticked,
                 pass, began>>

\* QuerySTKStatus gets no token, so it returns before it asks Daraja.
QueryUnsent ==
  /\ Visits(IF query = "sent" THEN "sent" ELSE "unsent")
  /\ UNCHANGED state

\* Daraja was asked: no answer, or the prompt is still open, or it has timed
\* out.  Queries of other sessions pass the time.
QuerySent ==
  /\ Visits("sent")
  /\ \/ UNCHANGED state
     \/ state = "STK_PUSHED" /\ state' = "AWAITING_PIN"
     \/ state \in Pending /\ state' = "FAILED"

\* Fault: only sessions with a prompt are swept.
SweepsPending ==
  /\ pass = "visiting" /\ ~listed
  /\ pass' = "idle"
  /\ state' = IF /\ state \in Live \ {"CREATED"}
                 /\ Before(ExpiresAt, now)
              THEN "TIMEOUT" ELSE state
  /\ UNCHANGED <<now, since, created, correlated, query, caller, nextTick,
                 ticked, began, listed>>

\* ExpireStale ends the pass.
Sweeps ==
  /\ pass = "visiting" /\ ~listed
  /\ pass' = "idle"
  /\ state' = IF state \in Live /\ Before(ExpiresAt, now)
              THEN "TIMEOUT" ELSE state
  /\ UNCHANGED <<now, since, created, correlated, query, caller, nextTick,
                 ticked, began, listed>>

-----------------------------------------------------------------------------
\* The goroutines are gone: the ticker, the request and the timer.
Crash ==
  /\ nextTick # Never
  /\ nextTick' = Never
  /\ ticked' = FALSE
  /\ pass' = "idle"
  /\ listed' = FALSE
  /\ calling' = FALSE
  /\ timer' = Never
  /\ UNCHANGED <<now, since, row, began>>

\* New starts a ticker, and no goroutine for the sessions it finds.
Restart ==
  /\ nextTick = Never
  /\ since' = now
  /\ nextTick' = now + Period
  /\ UNCHANGED <<now, row, caller, ticked, pass, began, listed>>

Next == \/ Advance \/ Create \/ Push \/ PushFails \/ TimerFires
        \/ Ticks \/ Lists \/ Skips \/ QueryUnsent \/ QuerySent \/ Sweeps
        \/ Crash \/ Restart

Spec == Init /\ [][Next]_vars

-----------------------------------------------------------------------------
(* Properties.                                                             *)

\* Neither the TTL goroutine nor the comparison of times cut to seconds ends
\* a session before its ExpiresAt.
NeverEarly == state = "TIMEOUT" => now >= ExpiresAt

\* While the process is up, a session is live less than a period, a pass and a
\* second longer than its TTL, or at most a period and a pass from the last
\* restart: a tick that comes during a pass is kept, and what cutting to
\* seconds misses the next sweep finds.
SettledInTime ==
  state \in Live /\ nextTick # Never =>
    \/ now < ExpiresAt + Second + Period + PassTime
    \/ now <= since + Period + PassTime

\* A session that the recovery pass can query, and has not called
\* QuerySTKStatus for.  The call may have failed: runRecovery goes on then.
Unqueried == state \in Pending /\ correlated /\ query = "none"

\* session/ttl.go:37-48: a tick queries before it sweeps.  A sweep ends no
\* session that has a checkout id and was never queried, restarts and rounding
\* notwithstanding, if no pass takes longer than TTL - QueryThreshold.
SweptAfterQuery ==
  [][Unqueried /\ pass' # pass => state' # "TIMEOUT"]_vars

\* The pass after this one begins at most so much later: a tick that comes
\* during a long pass is kept.
NextPass == IF PassTime > Period THEN PassTime ELSE Period

\* A session older than the threshold is queried before it is as old as this.
QueryAge == QueryThreshold + Second + NextPass + PassTime

\* README.md:76: the ticker queries any session older than QueryThreshold.
\* One that has a checkout id it queries, while the process is up, before the
\* session's QueryAge, or in the first pass after a restart, if pushes are
\* answered before the threshold.
QueriedInTime ==
  Unqueried /\ nextTick # Never =>
    \/ now < created + QueryAge
    \/ now <= since + Period + PassTime

\* README.md:76: the loop is the safety net of a lost callback.  Nothing ends a
\* session that has a checkout id before QuerySTKStatus was called for it, its
\* TTL goroutine included, if the TTL is no less than the session's QueryAge.
TimedOutAfterQuery ==
  [][Unqueried => state' # "TIMEOUT"]_vars

-----------------------------------------------------------------------------
(* The inductive invariant.                                                *)

\* Clock, ticker and pass keep pace.
PaceInv ==
  /\ since <= now
  /\ nextTick # Never => now <= nextTick /\ nextTick <= now + Period
  /\ nextTick = Never => pass = "idle" /\ ~ticked
  /\ pass = "visiting" => began <= now /\ now <= began + PassTime

\* The goroutine's TTL began after the session's.
TimerInv ==
  /\ timer # Never => now <= timer /\ timer >= ExpiresAt
  /\ state # "ABSENT" => created <= now
  /\ state = "ABSENT" => timer = Never

\* A listed session has been pushed.
ListedInv == listed => state \notin {"ABSENT", "CREATED"}

\* A sweep from here on ends the session.
Due == ExpiresAt + Second

\* At hand: within a period of Due, or of the start of the process.
AtHand(t) == t < Due + Period \/ t <= since + Period

\* The last sweep of a live session was before it was due or before the
\* process was started, so the next one is at hand.
SweepInv ==
  state \in Live /\ nextTick # Never =>
    /\ pass = "idle" /\ ~ticked => AtHand(nextTick)
    /\ pass = "idle" /\ ticked  => AtHand(now)
    /\ pass = "visiting"        => AtHand(began)

IInv == TypeOK /\ PaceInv /\ TimerInv /\ ListedInv /\ SweepInv /\ NeverEarly
=============================================================================

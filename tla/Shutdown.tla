------------------------------ MODULE Shutdown ------------------------------
(***************************************************************************)
(* Malipo.Shutdown against what runs at that moment: the ticker goroutine, *)
(* TTL goroutines, and requests inside InitiatePayment.  Shutdown closes   *)
(* the stopCleanup channel and then the database, and waits for nobody.    *)
(*                                                                         *)
(* A select that finds both its channels ready picks one at random; one    *)
(* that is parked takes the first that becomes ready.                      *)
(***************************************************************************)
EXTENDS Naturals

CONSTANTS
  Initiations,   \* calls of InitiatePayment
  Closers        \* calls of Shutdown

VARIABLES
  stopped,   \* stopCleanup is closed
  db,        \* "open" or "closed"
  closer,    \* per Shutdown: position
  ticker,    \* position of the ticker goroutine
  ticked,    \* ticks in ticker.C, which holds one
  request,   \* per InitiatePayment: position
  timer      \* per InitiatePayment: position of its TTL goroutine

goroutines == <<ticker, ticked, request, timer>>
vars == <<stopped, db, closer, goroutines>>

\* Every variable has its type; a tick nobody waits for is not queued twice.
TypeOK ==
  /\ stopped \in BOOLEAN
  /\ db \in {"open", "closed"}
  /\ closer \in [Closers -> {"idle", "closing", "returned", "panicked"}]
  /\ ticker \in {"selecting", "waiting", "listing", "recovering", "expiring",
                 "ended"}
  /\ ticked \in 0 .. 1
  /\ request \in [Initiations -> {"idle", "created", "pushed", "failed"}]
  /\ timer \in [Initiations ->
                  {"none", "spawned", "sleeping", "firing", "ended"}]

Init ==
  /\ stopped = FALSE
  /\ db = "open"
  /\ closer = [k \in Closers |-> "idle"]
  /\ ticker = "selecting"
  /\ ticked = 0
  /\ request = [r \in Initiations |-> "idle"]
  /\ timer = [r \in Initiations |-> "none"]

Panicked == \E k \in Closers : closer[k] = "panicked"

-----------------------------------------------------------------------------
(* Shutdown.                                                               *)

\* Fault: Stop sends one value, which the ticker receives.
StopSends(k) ==
  /\ closer[k] = "idle" /\ ~stopped
  /\ stopped' = TRUE
  /\ closer' = [closer EXCEPT ![k] = "closing"]
  /\ ticker' = IF ticker = "waiting" THEN "ended" ELSE ticker
  /\ UNCHANGED <<db, ticked, request, timer>>

\* close(stopCleanup) wakes every goroutine that is parked on it.  Closing it
\* again panics.
Stop(k) ==
  /\ closer[k] = "idle"
  /\ stopped' = TRUE
  /\ closer' = [closer EXCEPT ![k] = IF stopped THEN "panicked" ELSE "closing"]
  /\ ticker' = IF ticker = "waiting" THEN "ended" ELSE ticker
  /\ timer' = [r \in Initiations |->
                 IF timer[r] = "sleeping" THEN "ended" ELSE timer[r]]
  /\ UNCHANGED <<db, ticked, request>>

\* Fault: the database is closed first.
CloseAtOnce(k) ==
  /\ closer[k] = "idle"
  /\ db' = "closed"
  /\ closer' = [closer EXCEPT ![k] = "returned"]
  /\ UNCHANGED <<stopped, goroutines>>

Close(k) ==
  /\ closer[k] = "closing"
  /\ db' = "closed"
  /\ closer' = [closer EXCEPT ![k] = "returned"]
  /\ UNCHANGED <<stopped, goroutines>>

-----------------------------------------------------------------------------
(* The ticker goroutine.                                                   *)

\* Fault: ticks pile up.
TicksPileUp ==
  /\ ticker # "ended"
  /\ IF ticker = "waiting" THEN ticker' = "listing" /\ UNCHANGED ticked
                           ELSE ticked' = ticked + 1 /\ UNCHANGED ticker
  /\ UNCHANGED <<stopped, db, closer, request, timer>>

\* 30 seconds pass: the parked goroutine is woken, or the tick is kept.
Ticks ==
  /\ ticker # "ended"
  /\ IF ticker = "waiting" THEN ticker' = "listing" /\ UNCHANGED ticked
                           ELSE ticked' = 1 /\ UNCHANGED ticker
  /\ UNCHANGED <<stopped, db, closer, request, timer>>

TickerGoes(pc) ==
  /\ ticker' = pc
  /\ UNCHANGED <<stopped, db, closer, request, timer>>

TickerParks ==
  /\ ticker = "selecting" /\ ~stopped /\ ticked = 0
  /\ TickerGoes("waiting")
  /\ UNCHANGED ticked

TickerStarts ==
  /\ ticker = "selecting" /\ ticked = 1
  /\ ticked' = 0
  /\ TickerGoes("listing")

TickerStops ==
  /\ ticker = "selecting" /\ stopped
  /\ TickerGoes("ended")
  /\ UNCHANGED ticked

\* ListPending; on a closed database it fails and the recovery pass ends.
Lists ==
  /\ ticker = "listing"
  /\ \/ db = "open" /\ TickerGoes("recovering")
     \/ TickerGoes("expiring")
  /\ UNCHANGED ticked

\* The queries and transitions, each of which may fail, come to an end.
Recovers ==
  /\ ticker = "recovering"
  /\ TickerGoes("expiring")
  /\ UNCHANGED ticked

Expires ==
  /\ ticker = "expiring"
  /\ TickerGoes("selecting")
  /\ UNCHANGED ticked

-----------------------------------------------------------------------------
(* InitiatePayment and its TTL goroutine.                                  *)

Creates(r) ==
  /\ request[r] = "idle"
  /\ \/ db = "open" /\ request' = [request EXCEPT ![r] = "created"]
     \/ request' = [request EXCEPT ![r] = "failed"]
  /\ UNCHANGED <<stopped, db, closer, ticker, ticked, timer>>

\* The push fails, or the transition that follows it.
PushFails(r) ==
  /\ request[r] = "created"
  /\ request' = [request EXCEPT ![r] = "failed"]
  /\ UNCHANGED <<stopped, db, closer, ticker, ticked, timer>>

Spawns(r) ==
  /\ request[r] = "created"
  /\ db = "open"
  /\ request' = [request EXCEPT ![r] = "pushed"]
  /\ timer' = [timer EXCEPT ![r] = "spawned"]
  /\ UNCHANGED <<stopped, db, closer, ticker, ticked>>

TimerGoes(r, pc) ==
  /\ timer' = [timer EXCEPT ![r] = pc]
  /\ UNCHANGED <<stopped, db, closer, ticker, ticked, request>>

\* Fault: the goroutine sleeps instead of selecting.
SleepsAnyway(r) == timer[r] = "spawned" /\ TimerGoes(r, "sleeping")

\* The select of expireAfter: its TTL has only begun.
Selects(r) ==
  /\ timer[r] = "spawned"
  /\ TimerGoes(r, IF stopped THEN "ended" ELSE "sleeping")

Elapses(r) == timer[r] = "sleeping" /\ TimerGoes(r, "firing")

\* The transition to TIMEOUT, whatever comes of it.
Fires(r) == timer[r] = "firing" /\ TimerGoes(r, "ended")

-----------------------------------------------------------------------------
Ticker == TickerParks \/ TickerStarts \/ TickerStops
          \/ Lists \/ Recovers \/ Expires

Shutdowns == \E k \in Closers : Stop(k) \/ Close(k)

\* A panic ends the process.
Next ==
  /\ ~Panicked
  /\ \/ Shutdowns \/ Ticks \/ Ticker
     \/ \E r \in Initiations :
          \/ Creates(r) \/ PushFails(r) \/ Spawns(r)
          \/ Selects(r) \/ Elapses(r) \/ Fires(r)

Spec == Init /\ [][Next]_vars

\* Goroutines that can run do; a select that is entered again and again with
\* both channels ready does not pick the tick for ever.  No request, TTL or
\* Shutdown has to come.
FairSpec ==
  /\ Spec
  /\ WF_vars(Ticker) /\ SF_vars(TickerStops)
  /\ \A r \in Initiations : WF_vars(Selects(r)) /\ WF_vars(Fires(r))

-----------------------------------------------------------------------------
(* Properties.                                                             *)

Dead ==
  /\ ticker = "ended"
  /\ \A r \in Initiations : timer[r] \in {"none", "ended"}

\* After Stop every background goroutine ends without waiting for its TTL,
\* those included that requests start after it, unless a second Shutdown ends
\* the whole process by its panic.
GoroutinesEnd == stopped ~> [](Dead \/ Panicked)

\* ttl.go: when the manager is shut down before the TTL elapses, expireAfter
\* ends without touching storage.
ExitsUntouched ==
  [][\A r \in Initiations :
       stopped /\ timer[r] # "firing" => timer'[r] # "firing"]_vars

\* Calls of Shutdown that got past the channel.
Winners == {k \in Closers : closer[k] \in {"closing", "returned"}}

\* Shutdown from a deferred call and from a signal handler: exactly one of
\* them closes the channel, and that one closes the database afterwards.  A
\* call that panics has neither closed anything nor taken it from the other.
OneShutdown ==
  /\ \A j, k \in Winners : j = k
  /\ stopped <=> Winners # {}
  /\ Panicked => Winners # {}
  /\ db = "closed" <=> \E k \in Closers : closer[k] = "returned"

\* A background goroutine is about to use the database.
Storing ==
  \/ ticker \in {"listing", "recovering", "expiring"}
  \/ \E r \in Initiations : timer[r] = "firing"

\* malipo.go on Shutdown: the ticker and all TTL goroutines are dead before
\* the database is released, so none attempts a storage operation on a closed
\* one.  Closing a channel does not wait for them.
DeadBeforeClose == db = "closed" => ~Storing
=============================================================================

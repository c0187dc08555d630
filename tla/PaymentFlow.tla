---------------------------- MODULE PaymentFlow ----------------------------
(***************************************************************************)
(* The life of payment sessions in one malipo process and the processes    *)
(* that work on them concurrently: requests that initiate a payment, the   *)
(* Safaricom callback handler, requests that redeem a session at the gate, *)
(* one TTL goroutine per session, and the cleanup ticker with its recovery *)
(* and expiry passes.  Every step is one storage statement, one call to    *)
(* Daraja, or the code between two of them; all of them interleave.  A     *)
(* crash takes every goroutine and leaves the database.                    *)
(*                                                                         *)
(* Any storage call may fail, with its statement committed or not: the     *)
(* request's context is cancelled, or the database is busy.                *)
(***************************************************************************)
EXTENDS SessionStore, Naturals

CONSTANTS
  Initiators,   \* calls of InitiatePayment
  Handlers,     \* callback requests from Safaricom
  Redeemers,    \* requests at the gate that carry X-PAYMENT
  NoSession,    \* no session id
  MaxCrashes    \* bound: process crashes in a behaviour

ASSUME NoSessionAssumption == NoSession \notin SessionIds
ASSUME MaxCrashesAssumption == MaxCrashes \in Nat

VARIABLES
  sessions,   \* the sessions table
  age,        \* how old a session is against QueryThreshold and TTL
  prompt,     \* Daraja: what became of the PIN prompt behind a checkout id
  owner,      \* Daraja: the session whose request opened that prompt
  initiator, handler, redeemer,   \* request goroutines
  timer,      \* the expireAfter goroutine of a session
  tick,       \* the ticker goroutine's position
  work,       \* rows the recovery pass has still to visit
  answer,     \* the visited row and what Daraja answered about it
  crashes

procs  == <<initiator, handler, redeemer>>
daraja == <<prompt, owner>>
ticker == <<tick, work, answer>>
vars   == <<sessions, age, daraja, procs, timer, ticker, crashes>>

Ages     == {"fresh", "queryable", "expired"}
Codes    == ResultCodes \cup {StillProcessing}
Ids      == SessionIds \cup {NoSession}
Checkout == CheckoutIds \cup {NoCheckout}

InitiatorPC == {"idle", "named", "created", "accepted", "refused",
                "pushed", "rejected", "failed"}
HandlerPC   == {"idle", "found", "applied", "ignored", "unknown", "lost"}
RedeemerPC  == {"idle", "checked", "consumed", "served", "denied"}

\* A row as ListPending returned it, and with Daraja's answer about it.
Snapshot == [id : SessionIds, from : Pending, checkout : Checkout]
Answer   == [id : SessionIds, from : Pending, checkout : CheckoutIds,
             code : Codes]
NoAnswer == [id |-> NoSession, from |-> "ABSENT", checkout |-> NoCheckout,
             code |-> StillProcessing]

\* Every variable has its type: goroutine-local copies of rows, the table,
\* Daraja's view.
TypeOK ==
  /\ sessions \in [SessionIds -> Record]
  /\ age \in [SessionIds -> Ages]
  /\ prompt \in [CheckoutIds -> ResultCodes \cup {"unsent", "pending"}]
  /\ owner \in [CheckoutIds -> Ids]
  /\ initiator \in [Initiators ->
                      [pc : InitiatorPC, id : Ids, checkout : Checkout]]
  /\ handler \in [Handlers -> [pc : HandlerPC, checkout : Checkout,
                               meta : BOOLEAN, id : Ids,
                               from : States \cup {"ABSENT"}]]
  /\ redeemer \in [Redeemers -> [pc : RedeemerPC, id : Ids]]
  /\ timer \in [SessionIds -> {"none", "armed", "done"}]
  /\ tick \in {"idle", "recovering", "answered"}
  /\ work \in SUBSET Snapshot
  /\ answer \in Answer \cup {NoAnswer}
  /\ crashes \in 0 .. MaxCrashes

Init ==
  /\ sessions = [s \in SessionIds |-> NoRecord]
  /\ age = [s \in SessionIds |-> "fresh"]
  /\ prompt = [c \in CheckoutIds |-> "unsent"]
  /\ owner = [c \in CheckoutIds |-> NoSession]
  /\ initiator = [i \in Initiators |->
       [pc |-> "idle", id |-> NoSession, checkout |-> NoCheckout]]
  /\ handler = [h \in Handlers |->
       [pc |-> "idle", checkout |-> NoCheckout, meta |-> FALSE,
        id |-> NoSession, from |-> "ABSENT"]]
  /\ redeemer = [r \in Redeemers |-> [pc |-> "idle", id |-> NoSession]]
  /\ timer = [s \in SessionIds |-> "none"]
  /\ tick = "idle"
  /\ work = {}
  /\ answer = NoAnswer
  /\ crashes = 0

-----------------------------------------------------------------------------
(* Manager.transition: look up the event, then one guarded UPDATE.         *)

\* The event is in the table for `from` and the row is still in `from`.
Fires(id, from, event, u) ==
  /\ Matches(sessions, id, from)
  /\ \E t \in validTransitions :
       /\ t[1] = from
       /\ t[2] = event
       /\ sessions' = Updated(sessions, id, t[3], u)

\* ErrInvalidTransition, from the table or from a row that moved meanwhile.
Refuses(id, from, event) ==
  /\ \/ ~Matches(sessions, id, from)
     \/ \A t \in validTransitions : ~(t[1] = from /\ t[2] = event)
  /\ UNCHANGED sessions

-----------------------------------------------------------------------------
(* InitiatePayment.  An earlier error than these (phone, token, password)  *)
(* returns before any state exists.                                        *)

SetInitiator(i, pc, id, c) ==
  initiator' = [initiator EXCEPT ![i] = [pc |-> pc, id |-> id,
                                         checkout |-> c]]

\* The calls share a monotonic ULID reader that has no lock: two of them at
\* once may read the same entropy.
Fresh(id) == \A j \in Initiators : initiator[j].id # id
Racing(id) == \E j \in Initiators : initiator[j].pc = "named"
                                    /\ initiator[j].id = id

\* Steps 1-5, up to the session id.
NameSession(i) ==
  /\ initiator[i].pc = "idle"
  /\ \E id \in SessionIds :
       /\ Fresh(id) \/ Racing(id)
       /\ SetInitiator(i, "named", id, NoCheckout)
  /\ UNCHANGED <<sessions, age, daraja, handler, redeemer, timer, ticker,
                 crashes>>

\* Fault: INSERT OR REPLACE.
ReplaceSession(i) ==
  /\ initiator[i].pc = "named"
  /\ sessions' = Inserted(sessions, initiator[i].id)
  /\ SetInitiator(i, "created", initiator[i].id, NoCheckout)
  /\ UNCHANGED <<age, daraja, handler, redeemer, timer, ticker, crashes>>

\* The INSERT: the primary key admits one row per id.
Inserts(id) ==
  /\ ~Exists(sessions, id)
  /\ sessions' = Inserted(sessions, id)

\* Step 5.
CreateSession(i) ==
  /\ initiator[i].pc = "named"
  /\ Inserts(initiator[i].id)
  /\ SetInitiator(i, "created", initiator[i].id, NoCheckout)
  /\ UNCHANGED <<age, daraja, handler, redeemer, timer, ticker, crashes>>

\* ErrSessionExists or a storage error.
CreateFails(i) ==
  /\ initiator[i].pc = "named"
  /\ Inserts(initiator[i].id) \/ UNCHANGED sessions
  /\ SetInitiator(i, "failed", initiator[i].id, NoCheckout)
  /\ UNCHANGED <<age, daraja, handler, redeemer, timer, ticker, crashes>>

\* Step 6: Daraja opens a prompt under a checkout id of its own.  The answer
\* reaches the caller, or the request fails with the prompt already open.
PushAccepted(i, c) ==
  LET id == initiator[i].id IN
  /\ initiator[i].pc = "created"
  /\ prompt[c] = "unsent"
  /\ prompt' = [prompt EXCEPT ![c] = "pending"]
  /\ owner' = [owner EXCEPT ![c] = id]
  /\ \/ SetInitiator(i, "accepted", id, c)
     \/ SetInitiator(i, "refused", id, NoCheckout)
  /\ UNCHANGED <<sessions, age, handler, redeemer, timer, ticker, crashes>>

\* Status 200 without a CheckoutRequestID passes for acceptance.
PushUncorrelated(i) ==
  /\ initiator[i].pc = "created"
  /\ SetInitiator(i, "accepted", initiator[i].id, NoCheckout)
  /\ UNCHANGED <<sessions, age, daraja, handler, redeemer, timer, ticker,
                 crashes>>

PushRefused(i) ==
  /\ initiator[i].pc = "created"
  /\ SetInitiator(i, "refused", initiator[i].id, NoCheckout)
  /\ UNCHANGED <<sessions, age, daraja, handler, redeemer, timer, ticker,
                 crashes>>

\* Fault: the checkout id is passed through a field the calls share.
MarkPushedShared(i) ==
  LET id == initiator[i].id IN
  /\ initiator[i].pc = "accepted"
  /\ \E c \in {d \in CheckoutIds : prompt[d] = "pending"} :
       /\ Fires(id, "CREATED", "STK_ACCEPTED", CorrelationUpdate(c))
       /\ SetInitiator(i, "pushed", id, c)
  /\ timer' = [timer EXCEPT ![id] = "armed"]
  /\ UNCHANGED <<age, daraja, handler, redeemer, ticker, crashes>>

\* The transition writes the checkout id into the row.
Correlates(i) ==
  Fires(initiator[i].id, "CREATED", "STK_ACCEPTED",
        CorrelationUpdate(initiator[i].checkout))

\* Steps 7 and 8: the transition, and its TTL goroutine.
MarkPushed(i) ==
  LET id == initiator[i].id IN
  /\ initiator[i].pc = "accepted"
  /\ Correlates(i)
  /\ SetInitiator(i, "pushed", id, initiator[i].checkout)
  /\ timer' = [timer EXCEPT ![id] = "armed"]
  /\ UNCHANGED <<age, daraja, handler, redeemer, ticker, crashes>>

\* The row expired during step 6, or a storage error: InitiatePayment returns
\* the error and starts no TTL goroutine.
MarkPushedFails(i) ==
  /\ initiator[i].pc = "accepted"
  /\ Correlates(i) \/ UNCHANGED sessions
  /\ SetInitiator(i, "failed", initiator[i].id, initiator[i].checkout)
  /\ UNCHANGED <<age, daraja, handler, redeemer, timer, ticker, crashes>>

\* The error branch of step 6: its transition's own error is dropped.
MarkRejected(i) ==
  LET id == initiator[i].id IN
  /\ initiator[i].pc = "refused"
  /\ \/ Fires(id, "CREATED", "STK_REJECTED", NoUpdate)
     \/ UNCHANGED sessions
  /\ SetInitiator(i, "rejected", id, NoCheckout)
  /\ UNCHANGED <<age, daraja, handler, redeemer, timer, ticker, crashes>>

-----------------------------------------------------------------------------
(* The payer and the clock.                                                *)

\* The payer enters the PIN, cancels, or Safaricom gives the prompt up.
PromptResolves(c) ==
  /\ prompt[c] = "pending"
  /\ \E code \in ResultCodes : prompt' = [prompt EXCEPT ![c] = code]
  /\ UNCHANGED <<sessions, age, owner, procs, timer, ticker, crashes>>

\* CreatedAt + QueryThreshold passes.
Matures(s) ==
  /\ Exists(sessions, s)
  /\ age[s] = "fresh"
  /\ age' = [age EXCEPT ![s] = "queryable"]
  /\ UNCHANGED <<sessions, daraja, procs, timer, ticker, crashes>>

\* ExpiresAt = CreatedAt + TTL passes.
Expires(s) ==
  /\ age[s] = "queryable"
  /\ age' = [age EXCEPT ![s] = "expired"]
  /\ UNCHANGED <<sessions, daraja, procs, timer, ticker, crashes>>

-----------------------------------------------------------------------------
(* The callback handler.  Safaricom posts the outcome of a prompt some     *)
(* time after it is known; a callback may be late, lost or delivered twice.*)

SetHandler(h, pc, c, meta, id, from) ==
  handler' = [handler EXCEPT ![h] =
    [pc |-> pc, checkout |-> c, meta |-> meta, id |-> id, from |-> from]]

\* Decode, and read the session by checkout id.
CallbackFinds(h, c) ==
  /\ handler[h].pc = "idle"
  /\ prompt[c] \in ResultCodes
  /\ \E id \in FoundByCheckout(sessions, c), meta \in BOOLEAN :
       /\ meta => prompt[c] = "0"
       /\ SetHandler(h, "found", c, meta, id, sessions[id].state)
  /\ UNCHANGED <<sessions, age, daraja, initiator, redeemer, timer, ticker,
                 crashes>>

\* ErrNotFound: no row carries the checkout id (yet).
CallbackUnknown(h, c) ==
  /\ handler[h].pc = "idle"
  /\ prompt[c] \in ResultCodes
  /\ FoundByCheckout(sessions, c) = {}
  /\ SetHandler(h, "unknown", c, FALSE, NoSession, "ABSENT")
  /\ UNCHANGED <<sessions, age, daraja, initiator, redeemer, timer, ticker,
                 crashes>>

FinishCallback(h, pc) ==
  /\ handler' = [handler EXCEPT ![h].pc = pc]
  /\ UNCHANGED <<age, daraja, initiator, redeemer, timer, ticker, crashes>>

CallbackEvent(h) == resultCodeToEvent(prompt[handler[h].checkout])

\* The transition from the state that was read.
CallbackApplies(h) ==
  /\ handler[h].pc = "found"
  /\ Fires(handler[h].id, handler[h].from, CallbackEvent(h),
           ReceiptUpdate(handler[h].meta))
  /\ FinishCallback(h, "applied")

\* ErrInvalidTransition: logged, answered 200, and never posted again.
CallbackIgnored(h) ==
  /\ handler[h].pc = "found"
  /\ Refuses(handler[h].id, handler[h].from, CallbackEvent(h))
  /\ FinishCallback(h, "ignored")

\* A storage error in either call: logged and answered 200 as well.
CallbackLost(h) ==
  /\ handler[h].pc \in {"idle", "found"}
  /\ FinishCallback(h, "lost")
  /\ UNCHANGED sessions

-----------------------------------------------------------------------------
(* expireAfter.                                                            *)

\* It fires from STK_PUSHED only, and ends whatever the outcome.
TimerFires(s) ==
  /\ timer[s] = "armed"
  /\ age[s] = "expired"
  /\ \/ Fires(s, "STK_PUSHED", "TTL_EXPIRED", NoUpdate)
     \/ UNCHANGED sessions
  /\ timer' = [timer EXCEPT ![s] = "done"]
  /\ UNCHANGED <<age, daraja, procs, ticker, crashes>>

-----------------------------------------------------------------------------
(* The cleanup ticker: one recovery pass, then one expiry pass.            *)

\* ListPending.
RecoveryLists ==
  /\ tick = "idle"
  /\ tick' = "recovering"
  /\ work' = ListPending(sessions, {s \in SessionIds : age[s] # "fresh"})
  /\ UNCHANGED <<sessions, age, daraja, procs, timer, answer, crashes>>

\* Its error: there is nothing to visit.
RecoveryListFails ==
  /\ tick = "idle"
  /\ tick' = "recovering"
  /\ UNCHANGED <<sessions, age, daraja, procs, timer, work, answer, crashes>>

\* No CheckoutRequestID to ask about, or the query fails: the next row.
RecoverySkips(p) ==
  /\ tick = "recovering"
  /\ work' = work \ {p}
  /\ UNCHANGED <<sessions, age, daraja, procs, timer, tick, answer, crashes>>

RecoveryQueries(p) ==
  /\ tick = "recovering"
  /\ p.checkout # NoCheckout
  /\ tick' = "answered"
  /\ work' = work \ {p}
  /\ answer' = [id |-> p.id, from |-> p.from, checkout |-> p.checkout,
                code |-> IF prompt[p.checkout] = "pending"
                         THEN StillProcessing ELSE prompt[p.checkout]]
  /\ UNCHANGED <<sessions, age, daraja, procs, timer, crashes>>

\* The transition from the listed state, with a nil update.
RecoveryApplies ==
  /\ tick = "answered"
  /\ Fires(answer.id, answer.from, queryResultCodeToEvent(answer.code),
           NoUpdate)
  /\ tick' = "recovering"
  /\ answer' = NoAnswer
  /\ UNCHANGED <<age, daraja, procs, timer, work, crashes>>

\* ErrInvalidTransition or a storage error: the next row.
RecoveryGivesUp ==
  /\ tick = "answered"
  /\ tick' = "recovering"
  /\ answer' = NoAnswer
  /\ UNCHANGED <<sessions, age, daraja, procs, timer, work, crashes>>

\* ExpireStale closes the tick.
ExpiryPass ==
  /\ tick = "recovering" /\ work = {}
  /\ sessions' = ExpireStale(sessions, {s \in SessionIds :
                                          age[s] = "expired"})
  /\ tick' = "idle"
  /\ UNCHANGED <<age, daraja, procs, timer, work, answer, crashes>>

\* Its error is not looked at.
ExpiryFails ==
  /\ tick = "recovering" /\ work = {}
  /\ tick' = "idle"
  /\ UNCHANGED <<sessions, age, daraja, procs, timer, work, answer, crashes>>

-----------------------------------------------------------------------------
(* Branch 1 of the gate: check, consume, serve.                            *)

SetRedeemer(r, pc, id) ==
  /\ redeemer' = [redeemer EXCEPT ![r] = [pc |-> pc, id |-> id]]
  /\ UNCHANGED <<age, daraja, initiator, handler, timer, ticker, crashes>>

\* GetStatus says CONFIRMED.
GateChecks(r, s) ==
  /\ redeemer[r].pc = "idle"
  /\ sessions[s].state = "CONFIRMED"
  /\ SetRedeemer(r, "checked", s)
  /\ UNCHANGED sessions

\* Any other state, an unknown id, or a storage error: 402.
GateDenies(r, s) ==
  /\ redeemer[r].pc = "idle"
  /\ SetRedeemer(r, "denied", s)
  /\ UNCHANGED sessions

\* ConsumeIfConfirmed, its UPDATE: one caller finds the row CONFIRMED.
GateConsumes(r) ==
  LET s == redeemer[r].id IN
  /\ redeemer[r].pc = "checked"
  /\ Matches(sessions, s, "CONFIRMED")
  /\ sessions' = Updated(sessions, s, "CONSUMED", NoUpdate)
  /\ SetRedeemer(r, "consumed", s)

\* The UPDATE met no CONFIRMED row, or failed: 402.
GateConsumeFails(r) ==
  /\ redeemer[r].pc = "checked"
  /\ SetRedeemer(r, "denied", redeemer[r].id)
  /\ UNCHANGED sessions

\* The Get after the UPDATE succeeds, and next.ServeHTTP runs.
GateServes(r) ==
  /\ redeemer[r].pc = "consumed"
  /\ SetRedeemer(r, "served", redeemer[r].id)
  /\ UNCHANGED sessions

\* That Get fails: 402, with the row already CONSUMED.
GateServeFails(r) ==
  /\ redeemer[r].pc = "consumed"
  /\ SetRedeemer(r, "denied", redeemer[r].id)
  /\ UNCHANGED sessions

-----------------------------------------------------------------------------
(* The process dies and is started again on the same database file.        *)

Crash ==
  /\ crashes < MaxCrashes
  /\ crashes' = crashes + 1
  /\ initiator' = [i \in Initiators |->
       IF initiator[i].pc \in {"named", "created", "accepted", "refused"}
       THEN [initiator[i] EXCEPT !.pc = "failed"] ELSE initiator[i]]
  /\ handler' = [h \in Handlers |->
       IF handler[h].pc = "found"
       THEN [handler[h] EXCEPT !.pc = "lost"] ELSE handler[h]]
  /\ redeemer' = [r \in Redeemers |->
       IF redeemer[r].pc \in {"checked", "consumed"}
       THEN [redeemer[r] EXCEPT !.pc = "denied"] ELSE redeemer[r]]
  /\ timer' = [s \in SessionIds |->
       IF timer[s] = "armed" THEN "none" ELSE timer[s]]
  /\ tick' = "idle"
  /\ work' = {}
  /\ answer' = NoAnswer
  /\ UNCHANGED <<sessions, age, daraja>>

-----------------------------------------------------------------------------

Initiate(i) ==
  \/ NameSession(i) \/ CreateSession(i) \/ CreateFails(i)
  \/ \E c \in CheckoutIds : PushAccepted(i, c)
  \/ PushUncorrelated(i) \/ PushRefused(i)
  \/ MarkPushed(i) \/ MarkPushedFails(i) \/ MarkRejected(i)

HandleCallback(h) ==
  \/ \E c \in CheckoutIds : CallbackFinds(h, c) \/ CallbackUnknown(h, c)
  \/ CallbackApplies(h) \/ CallbackIgnored(h) \/ CallbackLost(h)

Gate(r) ==
  \/ \E s \in SessionIds : GateChecks(r, s) \/ GateDenies(r, s)
  \/ GateConsumes(r) \/ GateConsumeFails(r)
  \/ GateServes(r) \/ GateServeFails(r)

RunTicker ==
  \/ RecoveryLists \/ RecoveryListFails
  \/ \E p \in work : RecoverySkips(p) \/ RecoveryQueries(p)
  \/ RecoveryApplies \/ RecoveryGivesUp
  \/ ExpiryPass \/ ExpiryFails

Environment ==
  \/ \E c \in CheckoutIds : PromptResolves(c)
  \/ \E s \in SessionIds : Matures(s) \/ Expires(s)
  \/ Crash

Next ==
  \/ \E i \in Initiators : Initiate(i)
  \/ \E h \in Handlers : HandleCallback(h)
  \/ \E r \in Redeemers : Gate(r)
  \/ \E s \in SessionIds : TimerFires(s)
  \/ RunTicker
  \/ Environment

Spec == Init /\ [][Next]_vars

-----------------------------------------------------------------------------
(* Fairness.  The ticker's select loop always comes round, the query       *)
(* threshold passes, and an expiry pass that is repeated for ever does not *)
(* fail for ever.  Nothing is assumed of requests, callbacks, the payer or *)
(* TTL goroutines, and ExpiresAt need not come.                            *)

FairSpec ==
  /\ Spec
  /\ WF_vars(RunTicker) /\ SF_vars(ExpiryPass)
  /\ \A s \in SessionIds : WF_vars(Matures(s))

RecoveryQueriesFor(s) == \E p \in work : p.id = s /\ RecoveryQueries(p)
RecoveryAppliesTo(s) == answer.id = s /\ RecoveryApplies

\* ListPending, the query and the transition do not fail each time they are
\* tried.
RecoveryAnswered ==
  /\ SF_vars(RecoveryLists)
  /\ \A s \in SessionIds : /\ SF_vars(RecoveryQueriesFor(s))
                           /\ SF_vars(RecoveryAppliesTo(s))

-----------------------------------------------------------------------------
(* Safety.                                                                 *)

\* The gate runs the protected handler for at most one request per session,
\* however its check, its UPDATE and its follow-up Get interleave with other
\* requests, the expiry pass and crashes.
SingleRelease ==
  \A r1, r2 \in Redeemers :
    /\ redeemer[r1].pc = "served" /\ redeemer[r2].pc = "served"
    /\ redeemer[r1].id = redeemer[r2].id
    => r1 = r2

\* The payer of session s entered the PIN for a prompt opened on s's behalf.
Paid(s) == \E c \in CheckoutIds : owner[c] = s /\ prompt[c] = "0"

\* A request is served only for a session whose own prompt was paid, whichever
\* of callback and recovery confirmed it and however stale their reads were.
ReleasedOnlyIfPaid ==
  \A r \in Redeemers :
    redeemer[r].pc = "served" => Paid(redeemer[r].id)

\* One InitiatePayment, one prompt: no two prompts are opened on behalf of
\* the same session, also when two calls drew the same ULID.
OnePromptPerSession ==
  \A c1, c2 \in CheckoutIds :
    owner[c1] = owner[c2] /\ owner[c1] # NoSession => c1 = c2

\* The checkout id in a row is the one Daraja assigned to that row's request,
\* so a callback or a query answer reaches the session it is about.
CorrelationSound ==
  \A s \in SessionIds :
    sessions[s].checkout # NoCheckout => owner[sessions[s].checkout] = s

\* The state of a correlated session never contradicts what became of its
\* prompt, whoever wrote it: late callbacks, recovery, TTL or the gate.
OutcomeAgreement ==
  \A s \in SessionIds :
    LET outcome == prompt[sessions[s].checkout]
        state   == sessions[s].state IN
    /\ sessions[s].receipt => sessions[s].checkout # NoCheckout
    /\ state \in {"CONFIRMED", "CONSUMED"} =>
         sessions[s].checkout # NoCheckout
    /\ sessions[s].checkout # NoCheckout =>
         /\ state \in {"CONFIRMED", "CONSUMED"} => outcome = "0"
         /\ state = "CANCELLED" => outcome = "1032"
         /\ state = "FAILED" => outcome \in ResultCodes \ {"0"}
         /\ sessions[s].receipt => outcome = "0"

\* A session times out after ExpiresAt, or because Safaricom said so; neither
\* a timer nor an expiry pass of an earlier process life ends it sooner.
NoEarlyTimeout ==
  \A s \in SessionIds :
    sessions[s].state = "TIMEOUT" =>
      \/ age[s] = "expired"
      \/ sessions[s].checkout # NoCheckout
         /\ prompt[sessions[s].checkout] = "1037"

\* A callback that was applied is the only one of its prompt, and what it
\* wrote stays, receipt included, whatever duplicates, the recovery pass and
\* the timeouts do with their stale reads.  Only a confirmed session goes on,
\* to be consumed or swept.
AppliedSticks ==
  /\ \A h \in Handlers :
       handler[h].pc = "applied" =>
         LET row     == sessions[handler[h].id]
             outcome == prompt[handler[h].checkout] IN
         /\ row.checkout = handler[h].checkout
         /\ outcome = "0" => row.state \in {"CONFIRMED", "CONSUMED", "TIMEOUT"}
         /\ outcome = "1032" => row.state = "CANCELLED"
         /\ outcome = "1037" => row.state = "TIMEOUT"
         /\ outcome = "2001" => row.state = "FAILED"
         /\ handler[h].meta => row.receipt
  /\ \A h1, h2 \in Handlers :
       /\ handler[h1].pc = "applied" /\ handler[h2].pc = "applied"
       /\ handler[h1].checkout = handler[h2].checkout
       => h1 = h2

\* A callback is dropped only if its session moved on.  HandleCallback's
\* comment says it was resolved then; this says when it was not: the callback
\* had read STK_PUSHED, and a query has taken the session to AWAITING_PIN, in
\* which the TTL goroutine leaves it.
DroppedOnlyIfMoved ==
  \A h \in Handlers :
    handler[h].pc = "ignored" =>
      LET state == sessions[handler[h].id].state IN
      /\ state \in Terminal \cup {"CONFIRMED", "AWAITING_PIN"}
      /\ state = "AWAITING_PIN" => handler[h].from = "STK_PUSHED"

-----------------------------------------------------------------------------
(* Action properties.                                                      *)

\* A terminal record is never written again, and what was once learnt about a
\* session, its checkout id and its receipt, is never lost or replaced, by
\* any of the writers that act on a stale read.
RecordsSettle ==
  [][\A s \in SessionIds :
       /\ IsTerminal(sessions[s].state) => sessions'[s] = sessions[s]
       /\ sessions[s].checkout # NoCheckout =>
            sessions'[s].checkout = sessions[s].checkout
       /\ sessions[s].receipt => sessions'[s].receipt]_sessions

-----------------------------------------------------------------------------
(* Liveness.                                                               *)

\* Every session that reaches its ExpiresAt reaches a terminal state, also one
\* whose callback was lost and whose TTL goroutine died with its process, and
\* even if no query is ever answered.
SessionsSettle ==
  \A s \in SessionIds :
    Exists(sessions, s) /\ age[s] = "expired"
    ~> IsTerminal(sessions[s].state)

\* A paid session whose callback does not come is confirmed by the recovery
\* pass, or reaches its ExpiresAt, if the steps of recovery do not fail for
\* ever.  As ExpiresAt need not come, waiting for it is not enough.
RecoveryCompletes ==
  RecoveryAnswered =>
    \A s \in SessionIds :
      /\ sessions[s].state \in Pending
      /\ \E c \in CheckoutIds : sessions[s].checkout = c /\ prompt[c] = "0"
      ~> \/ sessions[s].state \in {"CONFIRMED", "CONSUMED"}
         \/ age[s] = "expired"

-----------------------------------------------------------------------------
(* The inductive invariant behind the safety properties.  Its conjuncts    *)
(* say what each goroutine's local copies still mean while others move on. *)

Begun(s) == sessions[s].state \notin {"ABSENT", "CREATED"}

\* A created row belongs to one call, which has opened no prompt yet; an
\* accepted call holds the checkout id of its own prompt.
InitiatorInv ==
  /\ \A i \in Initiators :
       /\ initiator[i].pc # "idle" => initiator[i].id \in SessionIds
       /\ initiator[i].pc = "created" =>
            /\ Exists(sessions, initiator[i].id)
            /\ \A c \in CheckoutIds : owner[c] # initiator[i].id
       /\ initiator[i].pc = "accepted" /\ initiator[i].checkout # NoCheckout =>
            owner[initiator[i].checkout] = initiator[i].id
  /\ \A i, j \in Initiators :
       /\ initiator[i].pc = "created" /\ initiator[j].pc = "created"
       /\ initiator[i].id = initiator[j].id
       => i = j

\* Prompts are opened for sessions that have a row.
DarajaInv ==
  \A c \in CheckoutIds :
    /\ owner[c] # NoSession <=> prompt[c] # "unsent"
    /\ owner[c] # NoSession => Exists(sessions, owner[c])

\* A row is correlated when it leaves CREATED, or never.
UncorrelatedInv ==
  \A s \in SessionIds :
    sessions[s].checkout # NoCheckout => Begun(s)

\* What the callback handler read stays true of the row, but for its state.
HandlerInv ==
  \A h \in Handlers :
    handler[h].pc = "found" =>
      /\ handler[h].id \in SessionIds
      /\ handler[h].checkout \in CheckoutIds
      /\ sessions[handler[h].id].checkout = handler[h].checkout
      /\ prompt[handler[h].checkout] \in ResultCodes
      /\ handler[h].meta => prompt[handler[h].checkout] = "0"

\* So does what the recovery pass listed, and what Daraja answered is final
\* unless the prompt was still open.
TickerInv ==
  /\ \A p \in work : /\ Begun(p.id)
                     /\ sessions[p.id].checkout = p.checkout
  /\ tick = "answered" =>
       /\ answer \in Answer
       /\ sessions[answer.id].checkout = answer.checkout
       /\ answer.code \in {StillProcessing, prompt[answer.checkout]}

\* Whoever won the UPDATE owns the CONSUMED row.
RedeemerInv ==
  /\ \A r \in Redeemers :
       /\ redeemer[r].pc # "idle" => redeemer[r].id \in SessionIds
       /\ redeemer[r].pc \in {"consumed", "served"} =>
            sessions[redeemer[r].id].state = "CONSUMED"
  /\ \A r1, r2 \in Redeemers :
       /\ redeemer[r1].pc \in {"consumed", "served"}
       /\ redeemer[r2].pc \in {"consumed", "served"}
       /\ redeemer[r1].id = redeemer[r2].id
       => r1 = r2

\* Holds in every reachable state and is preserved by every step.
IInv ==
  /\ TypeOK
  /\ InitiatorInv
  /\ DarajaInv
  /\ OnePromptPerSession
  /\ UncorrelatedInv
  /\ CorrelationSound
  /\ OutcomeAgreement
  /\ HandlerInv
  /\ TickerInv
  /\ RedeemerInv
=============================================================================

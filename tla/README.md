# A TLA+ model of malipo

malipo puts an M-Pesa payment in front of an HTTP handler: a request without a
payment is answered 402 with a session to pay, Safaricom's Daraja API prompts
the payer for a PIN, the outcome comes back by callback or by query, and a
later request that names the confirmed session is served once. This directory
models the life of those sessions and the parts it rests on (storage adapters, token
cache, ticker, shutdown, phone numbers), checks them with TLC and proves their
safety properties with TLAPS.

    tlc -workers 2 -config one_session.cfg MCPaymentFlow.tla
    tlapm PaymentFlowProofs.tla

Section 3 names the module of each configuration.

## 1. The system

### Parts, their state and their operations

| part | source | state | operations |
|---|---|---|---|
| session state machine | `store/state.go`, `session/state.go` | none (a table) | `validTransitions`, `IsTerminal`, `resultCodeToEvent`, `queryResultCodeToEvent` |
| session manager | `session/manager.go` | a ULID reader, `stopCleanup`; sessions live in storage | `InitiatePayment`, `HandleCallback`, `GetStatus`, `ConsumeIfConfirmed`, `Stop`, `transition` |
| TTL, recovery, expiry | `session/ttl.go` | one goroutine per pushed session, one ticker goroutine | `expireAfter`, `runRecovery`, the tick |
| callback handler | `callback/callback.go` | none | `ServeHTTP` |
| x402 gate | `x402/x402.go` | none | the three branches of `Gate` |
| storage contract | `store/adapter.go`, `store/session.go` | the session record | the methods of `StorageAdapter` |
| SQLite adapter | `store/sqlite` | table `sessions` | one SQL statement a method, two for `ConsumeIfConfirmed` |
| memory adapter | `store/memory` | two maps under one mutex | the same methods |
| token cache | `auth/manager.go` | token, expiry, RWMutex | `GetAccessToken` |
| Daraja client | `auth/daraja.go` | none | `SendSTKPush`, `QuerySTKStatus`, `GeneratePassword` |
| phone normalisation | `session/phone.go` | none | `normalizePhone` |
| facade | `malipo.go` | the parts above | `New`, `Gate`, `CallbackHandler`, `Shutdown` |
| wire types | `x402/scheme.go`, `x402/response.go`, `session/token.go` | none | JSON types, an interface |

### How they interact

Everything meets in one row of the `sessions` table. Five kinds of goroutine
write it, each by a guarded `UPDATE ... WHERE id = ? AND state = ?` (`ExpireStale`
by a sweep), none holds a lock across two statements:

* a **request that initiates** inserts the row, calls Daraja, and writes the
  checkout id together with `STK_PUSHED`;
* a **callback request** reads the row by checkout id and then transitions it
  from the state it read;
* a **TTL goroutine** transitions `STK_PUSHED` to `TIMEOUT`;
* the **ticker** lists pending rows, queries Daraja for each, transitions each
  from the listed state, then sweeps the table;
* a **request at the gate** reads the state, consumes, and reads the row again.

Daraja is outside: it opens a prompt per push, the payer resolves it, callbacks
report it. A crash loses every goroutine; the database file stays.

### What is hard about it

* *Stale reads.* Callback, recovery and gate act on a state they read earlier;
  between read and write there may be an HTTP call.
* *Two tellers of one outcome.* Callback and query report the same prompt, in
  either order, with different event maps and different payloads.
* *Late, lost, duplicated and early callbacks.* Every callback is answered 200,
  so none is posted again; one may come before the checkout id is stored.
* *Failing halfway.* A push whose answer is lost, a transition whose error is
  dropped, an `UPDATE` that commits and whose follow-up read fails.
* *Crashes.* TTL goroutines are not restored; only the ticker finds old rows.
* *Timeouts.* The TTL, the query threshold and the tick race the payer.

### What makes each part correct

* State machine and manager: terminal rows stay as they are; the final state
  agrees with the prompt's outcome; a checkout id belongs to its own session.
* TTL, recovery, expiry: no session times out early; every session ends; a paid
  one is confirmed though its callback is lost.
* Gate: one request served per session, and only when it was paid.
* Storage: every method is atomic and guarded; `Update` fields are never reset;
  the adapters agree with the contract, error values included.
* Token cache: no token is handed out past its expiry; one fetch at a time;
  every caller gets an answer.
* Shutdown: every background goroutine ends, and none touches the database
  after `Close`.
* Phone normalisation: the result is `+254` and nine digits, or an error, and
  normalising twice changes nothing.

## 2. The modules

    SessionStates ── SessionStore ─┬─ PaymentFlow ─┬─ PaymentRefinement ─┬─ PaymentFlowProofs
                                   │               │  (Promise ==        │
                                   │   OneTimeGate ┼── INSTANCE)         └─ MCPaymentFlow
                                   │               └─ PaymentClaims ────────┘
                                   │
                                   └─ StorageCalls ─┬─ StorageContract
                                                    │       (Contract == INSTANCE)
                                                    ├─ SQLiteAdapter ──── SQLiteProofs, MCSQLite
                           RWMutex ─┬───────────────┴─ MemoryAdapter ──── MemoryProofs, MCMemory
                                    └─ TokenCache ──── TokenCacheProofs

    RecoveryWindow ── RecoveryWindowProofs      PhoneNormalizer ── PhoneNormalizerProofs, MCPhone
    Shutdown ── ShutdownProofs

| module | what it is |
|---|---|
| `SessionStates` | states, transition table, result codes. Three codes have a meaning of their own; `"2001"` stands for all others. |
| `SessionStore` | each SQL statement as an atomic operator on the table, a function from ids to records |
| `PaymentFlow` | the goroutines above with Daraja, the clock and crashes; invariants, action and liveness properties; the inductive invariant `IInv` |
| `OneTimeGate` | the abstract promise: a purchase is paid once, then granted to at most one request |
| `PaymentRefinement` | `PaymentFlow` implements `OneTimeGate` |
| `PaymentClaims` | statements of comments that the session code does not keep |
| `StorageCalls` | what callers ask a storage adapter, what it answers, and which errors are true of a table |
| `StorageContract` | the abstract promise of `store/adapter.go`: atomic methods, truthful refusals |
| `SQLiteAdapter`, `MemoryAdapter` | concurrent calls of both adapters, statement by statement and lock by lock; each implements `StorageContract` |
| `RWMutex` | Go's `sync.RWMutex` as a value |
| `TokenCache` | `GetAccessToken` of `auth/manager.go` with its callers and the clock |
| `RecoveryWindow` | one session against the ticker, its TTL goroutine and restarts, on a clock, with times cut to seconds |
| `Shutdown` | `Shutdown` of the facade against everything that runs at that moment |
| `PhoneNormalizer` | `normalizePhone`, character by character, and once more on its result |
| `MC*` | symmetry sets and inputs for TLC |
| `*Proofs`, `StorageCallsProofs` | theorems and proofs; the last holds the lemmas of both adapters |

`TokenCache`, `Shutdown` and `RecoveryWindow` are checked directly. The models
are separate because what they share is one statement or one call:
`PaymentFlow` uses the table through `SessionStore`, whose statements
`SQLiteAdapter` shows to be what the contract promises; it asks for a token
within a call to Daraja, which may fail at any time; and it leaves the lengths
of times to `RecoveryWindow`.

A definition under a comment that starts with *Fault* is a wrong variant of the
definition that follows it: exchanging the two makes TLC report the property it
is paired with in `PROJECT.json`. No specification uses them.

### PaymentFlow: state

| variable | code |
|---|---|
| `sessions` | the table. A record has `state`, `checkout` (`CheckoutRequestID`, `NoCheckout` for the empty one) and `receipt`, which stands for the receipt number, amount and phone: the code writes the three together. An id without a row is `"ABSENT"`. |
| `age` | `time.Now()` against `CreatedAt + QueryThreshold` and `ExpiresAt`: `fresh`, `queryable`, `expired` |
| `prompt`, `owner` | Daraja's side (external): what became of the prompt behind a checkout id, and whose request opened it |
| `initiator`, `handler`, `redeemer` | request goroutines: position and local copies |
| `timer` | the `expireAfter` goroutine of a session |
| `tick`, `work`, `answer` | the ticker: position, rows of `ListPending` not visited yet (copies), the row in hand with Daraja's answer |
| `crashes` | counts crashes up to `MaxCrashes` |

### PaymentFlow: actions

| code | actions |
|---|---|
| `InitiatePayment` up to the id | `NameSession`. The calls share `ulid.Monotonic` without a lock, so two that are between id and INSERT may hold the same id (`Racing`). |
| `storage.Create` | `CreateSession`, `CreateFails` |
| `sendSTKPush` | `PushAccepted` (with the answer delivered or lost), `PushUncorrelated` (status 200 without a checkout id, which the client does not look for), `PushRefused` |
| its error branch | `MarkRejected`: the transition to `FAILED` or nothing, its error is dropped |
| steps 7 and 8 | `MarkPushed`, `MarkPushedFails` |
| `HandleCallback` from `ServeHTTP` | `CallbackFinds` / `CallbackUnknown`, then `CallbackApplies` / `CallbackIgnored`; `CallbackLost` for a storage error in either call |
| `expireAfter` | `TimerFires` |
| `runRecovery` | `RecoveryLists` / `RecoveryListFails`; per row `RecoverySkips`, or `RecoveryQueries` then `RecoveryApplies` / `RecoveryGivesUp`. The order of rows is open, as SQL leaves it. |
| `ExpireStale` | `ExpiryPass` / `ExpiryFails`, only after the recovery pass, as in the tick |
| gate, branch 1 | `GateChecks` / `GateDenies`, `GateConsumes` / `GateConsumeFails`, `GateServes` / `GateServeFails` (the `Get` after the `UPDATE`) |
| outside | `PromptResolves`, `Matures`, `Expires`, `Crash` |

Each step is one statement or one call to Daraja with the code up to the next,
so everything that can interleave does. Any storage call may fail, committed or
not. Where the two would differ only in what a request is told, the committed
failure has no action of its own: a callback that committed is `applied`, an
`UPDATE` of the gate that committed and reported an error is `GateConsumes` and
then `GateServeFails`, a recovery transition or a sweep that committed is the
success, because nothing after it looks at the error.

`owner` and `prompt` never go back, and a callback or a query reports what
`prompt` says: the model trusts Daraja to tell the truth about its own prompts.
`RecoveryQueries` and `SendSTKPush` cover refused, failed and unreadable answers
by their error returns. A query answered 200 without a `ResultCode` falls under
that trust: it would count as a failed payment (`auth/daraja.go:232`,
`session/state.go:129`).

`Fresh`: ids repeat only in the race above; the 80 random bits of a ULID are
taken to be distinct otherwise.

### The other models

| module | state and steps |
|---|---|
| `SQLiteAdapter` | `sessions` is the table; `call` has per goroutine the request, how far the method is and its reply. One step a statement; `ConsumeIfConfirmed` is `ConsumeIfConfirmed` (the `UPDATE`), then `GetConsumed` or `GetMissed`. `Fail` is a failed call, committed or not; `Interrupted` is a read whose context ends between the query and `rows.Next()`, which the code does not tell from an empty result. |
| `MemoryAdapter` | `sessions` and `byCheckout` are the maps, `mu` the lock. `Waits`, `Acquires`, `Checks` (the guards), one action a method for its writes and copies, `Returns` (the deferred unlock). That a method is atomic is a result here, not an assumption. |
| both adapters | `may` is a history variable: the errors that were true of the table at some moment of a call. The contract permits a refusal only if it is in `may`, since a caller cannot tell at which moment it was refused. |
| `TokenCache` | `token`, `expiresAt`, `mu`, `now`, and per caller its position. The check, the copy of the token, `Lock` (announced, then held), the second check, the fetch, its answer and the store are steps; time passes between any two, but a fetch ends within `FetchTime`. |
| `RecoveryWindow` | `created`, `timer`, `nextTick`, the one-slot channel `ticked`, and the pass in progress. `Before` compares `t \div Second`, as SQL compares the RFC 3339 text. `Push` brings a checkout id or none; `Lists` takes the row either way. A visit is `Skips` without a checkout id, `QueryUnsent` (no token, so Daraja is not asked) or `QuerySent`; `query` is a history variable that tells which there were. `Crash` loses all but the row; `Restart` starts a ticker and nothing else. Storage calls succeed: a `ListPending` that fails costs a period, and no bound holds if it fails again and again. |
| `Shutdown` | `stopped` is the closed channel, `db` the database, `ticked` the channel of the ticker; each `select` that finds both channels ready may take either, one that is parked takes the first that becomes ready. |
| `PhoneNormalizer` | `i`, `digits` (the buffer of twelve), the result. `Scans` is one turn of the loop, `Finishes` the forms, `Repeats` passes the result in again. |

`ManagerOnly` says who calls an adapter. Callers always respect that Daraja gives
a checkout id to one session (`MayAsk`). With `ManagerOnly` they are the manager
and the callback handler: they transition sessions they have created or read,
along edges of `validTransitions`, and do not look up the empty checkout id.
Without it they may do all of that. The SQLite adapter keeps the contract for the
former only; section 3 says why.

## 3. What is checked

`SYMMETRY` is used in safety runs only, over sets of model values that no
definition tells apart. Deadlock is checked except in `shutdown`, `claim_dead`
(the process ends), `window` (its clock stops at `MaxTime`) and `phone` (the
function returns).

| run | module | instance | states | what it shows |
|---|---|---|---|---|
| `one_session` | `MCPaymentFlow` | 1 session, 1 prompt, 1 initiator, 2 callbacks, 2 gate requests, 1 crash | 321 162 | `TypeOK`; `SingleRelease`, `ReleasedOnlyIfPaid`, `NoEarlyTimeout`, `AppliedSticks`, `DroppedOnlyIfMoved`; `RecordsSettle`; `ImplementsOneTimeGate` |
| `two_sessions` | `MCPaymentFlow` | 2 sessions, 2 prompts, 2 initiators, 1 callback, 1 gate request | 3 293 165 | `OnePromptPerSession`, `CorrelationSound`, `OutcomeAgreement`, with both initiators on one ULID and on two; `IInv` of the proofs |
| `progress` | `MCPaymentFlow` | 1 of each, 2 crashes, fairness | 32 126 | `SessionsSettle`: every session ends; `RecoveryCompletes`: a paid session without a callback is confirmed or has expired |
| `sqlite_contract` | `MCSQLite` | 1 session, 1 checkout id, 2 goroutines, `ManagerOnly` | 30 182 | the SQLite adapter implements `StorageContract` |
| `memory_contract` | `MCMemory` | 1 session, 2 checkout ids, 2 goroutines, any calls | 199 948 | the memory adapter implements it, its index agrees with its records, and `NeverStuck`: whenever a call waits for the lock, some call can go on |
| `token_cache` | `TokenCache` | 2 callers, lifetimes on both sides of the margin, fairness | 46 220 | `HandedOutFresh`, `NeverStuck`, `SingleFlight`, `CallsReturn`; `IInv` |
| `shutdown` | `Shutdown` | 2 requests, 2 Shutdowns, fairness | 3 321 | `OneShutdown`, `GoroutinesEnd`, `ExitsUntouched` |
| `window` | `RecoveryWindow` | period and threshold in the defaults' proportion, a TTL above it, a second of 2 units | 1 678 910 | `NeverEarly`, `SettledInTime`, `QueriedInTime`; `SweptAfterQuery`, `TimedOutAfterQuery`; `IInv` |
| `phone` | `MCPhone` | inputs of all lengths around 9, 10, 12 | 1 579 199 | `MatchesForms`, `ReturnsE164`, `Idempotent` |

Bounds.

* `PaymentFlow`: `MaxCrashes` is the only counter. Every other set bounds how
  many requests a behaviour has; a request is used once, so `Handlers` counts
  deliveries and `Redeemers` counts attempts, retries included. Two deliveries
  suffice for a duplicate and for a race between two callbacks, two gate requests
  for double redemption; one row's writers never look at another row, and two
  sessions share Daraja, the ULID reader and the work list of the ticker, which
  `two_sessions` exercises. One crash may fall between any two steps; the second
  of `progress` takes the process that recovers from the first.
* Adapters: a goroutine calls again and again, so two of them give every order
  and overlap of calls. One session suffices for what two calls do to one row;
  the memory adapter gets two checkout ids, since its index can disagree with the
  records only when two writes of different ids race.
* `TokenCache`: `MaxTime` 3 with a lifetime of 5, a margin of 3 and fetches of up
  to 1: a token is cached, expires in the cache and is fetched again; one of
  lifetime 1 is stale on arrival, like `expires_in` of 119 or less.
* `RecoveryWindow`: a second is 2 units, and the period 6 and threshold 12 are in
  the proportion of 30 and 60 s; the process starts at any moment within a
  second, `Create` falls on any moment of the first period (later ones differ by a
  shift), pushes take up to `PushTime`, passes up to `PassTime`, and `MaxTime` is
  past the last deadline of a session, with time for a restart. TTL 26 is
  `QueryAge`, the least for which `TimedOutAfterQuery` holds: with 25 TLC refutes
  it. With 18, in the proportion of the default of 90 s, everything else still
  holds; there a `PassTime` of 7 refutes `SweptAfterQuery`. No bound in
  `SettledInTime` or `QueriedInTime` can be lowered by one unit.
* `PhoneNormalizer`: what decides is the first digits, the number of digits and
  what is around them; `MCInputs` varies these and fills up with nines.

The theorems below lift the safety results to every size.

### Fairness

`PaymentFlow!FairSpec`: the ticker keeps running (weak fairness of `RunTicker`;
its `select` waits for nothing else while the process is up, and `NewManager`
starts it again after a crash), `ExpireStale` does not fail for ever although it
is tried for ever (strong fairness of `ExpiryPass`, since each failure disables
the step until a later tick), and the query threshold passes. Nothing is assumed
of requests, callbacks, the payer or TTL goroutines, and `ExpiresAt` need not
come: `SessionsSettle` begins when it has, and with an unlimited TTL
`RecoveryCompletes` must confirm. That property has a premise of its own,
`RecoveryAnswered`: `ListPending`, the query for a session and its transition do
not fail each time they are tried. Without it TLC refutes it, as it should.

`TokenCache!FairSpec`: a goroutine that can run does, and a fetch ends, by its
HTTP timeout at the latest (weak fairness of `Runs`, where `FetchFails` is the
timeout); `sync.RWMutex` starves nobody (strong fairness of the three ways to
acquire it: the lock blocks new readers when a writer waits and lets waiting
readers pass when a writer leaves). No caller has to call, and no fetch has to
succeed.

`Shutdown!FairSpec`: goroutines that can run do; a `select` that is entered again
and again with both channels ready does not take the tick for ever, because Go
picks at random (strong fairness of `TickerStops`).

### Where the code and its documents disagree

Three runs find a stated property violated.

| run | what happens |
|---|---|
| `claim_ignored` | The callback handler reads `STK_PUSHED`; the query was answered "still processing" before the payer entered the PIN, and recovery now writes `AWAITING_PIN`; the handler's guarded update misses. `HandleCallback`'s comment says the session is then resolved already, so the handler drops the outcome. Only a later tick can find it. `DroppedOnlyIfMoved` says, and `DroppedCallbacks` proves, that there is no other way to lose an outcome so. |
| `claim_consumed` | The `UPDATE` to `CONSUMED` commits, the `Get` after it fails, the gate answers 402, and the session cannot be redeemed again. `store/state.go:41` says the transition releases the resource. |
| `claim_dead` | `Shutdown` closes the stop channel and then the database, while the ticker is in its recovery pass or a TTL goroutine is past its `select`, or before a `select` that then takes a buffered tick. `malipo.go:303` says they are dead before the connection is released. `shutdown` shows that they end, only later. |

Further differences are built into the models as the code has them, and the
properties are stated so that they hold of the code:

* A session `CONFIRMED` by callback and not redeemed before `ExpiresAt` is swept to
  `TIMEOUT`, which `store/state.go:46` reserves for sessions without a
  confirmation. `NoEarlyTimeout` says what remains: never before `ExpiresAt`.
* A query confirms with a nil update (`session/ttl.go:106`); the callback with the
  receipt is then refused, and the record stays without the fields
  `store/state.go:36` promises. `RecordsSettle` keeps a receipt that was written.
* The query maps 1032 and 1037 to `FAILED` (`session/state.go:129`), the callback
  to `CANCELLED` and `TIMEOUT`, although `README.md:76` says that both drive the
  same transitions. `OutcomeAgreement` admits both.
* The push fails because the request was cancelled; the transition to `FAILED`
  runs on the same context and its error is dropped (`session/manager.go:183`), so
  the session stays in `CREATED`, against the comment above it, until it is swept.
* The push's answer is lost after Daraja opened the prompt: the session is
  `FAILED`, which `store/state.go:57` reserves for a rejected push or a failed
  payment; the payer may still pay, and no row holds the checkout id.
* The TTL goroutine ends a session a TTL after the push whether or not it was
  queried (`session/ttl.go:27`). A tick may find the session a second short of the
  threshold, and the next one is a period later and has other sessions to query
  first: the query `README.md:76` describes comes before `QueryAge`, which is 91 s
  and the length of a pass, and the default TTL is 90 s. `QueriedBeforeTimeout`
  shows that a TTL of `QueryAge` suffices, `SweptAfterQuery` that the sweep is
  innocent.
* `README.md:76` and `session/ttl.go:40` speak of all pending sessions. One that was
  pushed without a checkout id is listed and skipped (`session/ttl.go:86`), and a
  query without a token returns before Daraja is asked (`auth/daraja.go:187`), to
  be tried again on the next tick. In the end both are left to the sweep, as
  `session/ttl.go:43` says, or to the TTL goroutine. `SettledInTime` covers them; the three properties about queries speak of sessions with a checkout id
  (`Unqueried`), and of `QuerySTKStatus` being called, not of its success.
* A second `Shutdown` closes the channel again and panics (`session/manager.go:75`).
  `GoroutinesEnd` counts the panic as an end; `OneShutdown` says that the other
  call has closed the channel and is the one that closes the database.
* SQLite's `Transition` of a missing id is `ErrInvalidTransition`
  (`store/sqlite/sqlite.go:206`), which `sqlite_test.go:342` asserts; the interface
  says `ErrNotFound` (`store/adapter.go:58`); and its guard is only the caller's `from`, so a terminal
  row moves if the caller names its state (`queries/transition.sql:11` against
  `store/adapter.go:26`). The manager does neither, which is what `ManagerOnly`
  says. The memory adapter checks both. `sqlite_contract` and its theorem thus speak
  of the two statements of `ConsumeIfConfirmed`, not of such calls.
* SQLite stores the missing checkout id as `''` (`store/sqlite/sqlite.go:105`), so a
  look-up of it finds any session without one. The callback handler never asks.
* A read that is cancelled after the query began is reported as `ErrNotFound`
  (`store/sqlite/sqlite.go:133` and `149`; `rows.Err()` is looked at in line 290
  only). The contract has the parameter `Unchecked` for the methods that do so: it
  is empty for the memory adapter.
* The memory adapter's copies share the pointers of the record
  (`store/memory/memory.go:133` against `store/adapter.go:31`). Records are values
  in the models; nothing in the repository writes through the pointers.

## 4. What is proved

For any sets of sessions, prompts, requests and callers, any number of crashes
and any times:

| module | theorem | statement |
|---|---|---|
| `PaymentFlowProofs` | `Invariance` | `Spec => []IInv` |
| | `TypeCorrect` | `Spec => []TypeOK` |
| | `AtMostOneRelease` | `Spec => []SingleRelease` |
| | `NoReleaseUnpaid` | `Spec => []ReleasedOnlyIfPaid` |
| | `OutcomesAgree` | `Spec => []OutcomeAgreement` |
| | `Correlated` | `Spec => []CorrelationSound` |
| | `OnePrompt` | `Spec => []OnePromptPerSession` |
| | `TimeoutsAreDue` | `Spec => []NoEarlyTimeout` |
| | `AppliedForGood` | `Spec => []AppliedSticks` |
| | `DroppedCallbacks` | `Spec => []DroppedOnlyIfMoved` |
| | `Settled` | `Spec => RecordsSettle` |
| | `Refinement` | `Spec => ImplementsOneTimeGate` |
| `SQLiteProofs` | `AdapterTypes` | `Spec => []TypeOK` |
| | `AdapterImplementsContract` | with `ManagerOnly`, `Spec => ImplementsContract` |
| `MemoryProofs` | `MemoryTypes`, `IndexesAgree` | `Spec => []TypeOK`, `Spec => []IndexAgrees` |
| | `NoDeadlock` | `Spec => []NeverStuck` |
| | `MemoryImplementsContract` | `Spec => ImplementsContract` |
| `TokenCacheProofs` | `TokenInvariance`, `HandsOutFresh` | `Spec => []IInv`, `Spec => []HandedOutFresh` |
| | `NoDeadlock` | `Spec => []NeverStuck` |
| | `OneFetch` | `Spec => SingleFlight` |
| `RecoveryWindowProofs` | `WindowInvariance`, `NoneEarly` | `Spec => []IInv`, `Spec => []NeverEarly` |
| | `SettledByDeadline` | `Spec => []SettledInTime` |
| | `QueriedByAge` | under the conditions below, `Spec => []QueriedInTime` |
| | `QueriedBeforeSwept`, `QueriedBeforeTimeout` | likewise, `Spec => SweptAfterQuery`, `Spec => TimedOutAfterQuery` |
| `ShutdownProofs` | `ShutdownTypes`, `OneCallShutsDown` | `Spec => []TypeOK`, `Spec => []OneShutdown` |
| | `NoneFireAfterStop` | `Spec => ExitsUntouched` |
| `PhoneNormalizerProofs` | `BufferSuffices`, `FormsMatched` | `Spec => []TypeOK`, `Spec => []MatchesForms` |
| | `AlwaysE164`, `NormalForm` | `Spec => []ReturnsE164`, `Spec => []Idempotent` |

### The payment flow

Assumptions: `NoCheckoutAssumption` (the empty id is not a checkout id),
`NoSessionAssumption` (likewise for sessions), `MaxCrashesAssumption` (a natural
number). No set is assumed finite or non-empty.

The safety properties are not inductive: a callback that has read a row could, from an
arbitrary state, hold a checkout id that is not the row's, and confirm it for a
payment of another session. `IInv` adds what each goroutine's local copies mean
while the others move on:

* `InitiatorInv`: a call that has created its row is the only one to have done
  so, and no prompt is open for it yet; an accepted call holds the id of its own
  prompt. It gives `OnePromptPerSession` although two calls may draw one ULID,
  and `CorrelationSound` when `MarkPushed` writes the id.
* `DarajaInv`: a prompt is open exactly when it has an owner, whose row exists.
* `UncorrelatedInv`: a row without progress has no checkout id, so an id is
  written once.
* `HandlerInv`, `TickerInv`: the checkout id a callback or the recovery pass
  read is still the row's, and the outcome in hand is final (a query may also
  have answered "still processing"). Only the *state* they read may be stale,
  and the guarded `UPDATE` refuses that. They give `OutcomeAgreement`.
* `RedeemerInv`: a request that won the `UPDATE` owns the `CONSUMED` row alone.

The proof goes by the edges a row can take. `NextRows` shows that every step
leaves a row or takes it along one of seven edges (`RowCreated` ...
`RowResolved`), `NextDaraja` that Daraja's side only grows, `NextKeeps` what a
goroutine may rely on. The invariants about rows follow from these three without
looking at actions; the invariants about goroutines look only at the actions of
that kind of goroutine.

`NoEarlyTimeout` is proved on top of `IInv`, and so is `AppliedSticks`. The latter is
not inductive either: `AppliedInv` adds that an applied handler's session and
prompt exist and that the prompt is answered. A new `applied` comes from the
handler's own transition only (`NextHandlers`), which leaves the row as the answer
says (`ApplyStep`). From there the edges of `NextRows` lead from `CONFIRMED` to
`CONSUMED` or `TIMEOUT` and nowhere else (`SettledStays`). A second callback of the
prompt holds, by `CorrelationSound`, the same row, which is no longer pending, so
its `UPDATE` misses (`AppliedRefuses`).

`DroppedOnlyIfMoved` looks at what a handler read. `DroppedInv` adds that its
session exists, was pending when it read it, and since then has stayed in the state
read, taken the one edge to `AWAITING_PIN`, or been resolved (`MovedOn`, which the
edges of `NextRows` keep). The transition table has an entry for the outcome of
every callback in every pending state (`TableTotal`), so a handler drops one only
when its guarded `UPDATE` misses, and then the row has left the state read.

For the refinement a purchase is a session, it is paid when a prompt opened for
it resolved with code 0, and a request is granted it when the protected handler
runs. `PromptResolves` with code 0 maps to `Pay` (`OnePromptPerSession` makes it
the first payment of that session), `GateServes` to `Grant`, all else stutters.

### The adapters

Assumptions: the two about the empty ids, and that `ManagerOnly` is Boolean. Both
refinements use the same lemmas (`StorageCallsProofs`) and the same idea: a
phase before the effect maps to "asked", one after it to "performed".

* SQLite. `MayInv` keeps the history up to date. `ManagerInv` is what makes the
  second statement of `ConsumeIfConfirmed` truthful: a row that was consumed stays
  as it is, because managers do not move terminal rows, so `GetConsumed` returns
  the record of the `UPDATE`; and a call that missed and now finds `CONFIRMED` has
  `ErrInvalidTransition` in its history from before, so the answer was true when
  the `UPDATE` ran. `RowInv` ties checkout ids to pushed rows.
* Memory. `LockInv` says who holds the lock, `GuardInv` that what a guard saw is
  still so (nobody writes while one holds the lock), `MapInv` that index and
  records agree, `FreshInv` that no other session has the checkout id about to
  be written, which the callers guarantee. `NeverStuck` needs the converse of
  `LockInv`, `HolderInv`: whom the lock names is where its unlock is still to come.

### The token cache, the window, shutdown and phone numbers

* `TokenCache` (any lifetimes, also negative ones, and any natural margin, fetch time
  and bound): `LockInv`, `CacheInv` (the cached expiry is at least the margin less
  a fetch before Daraja's), `FetchInv` (an answer is from within its fetch) and
  `HitInv` (between check and copy the cached token is the checked one, since the
  read lock is held) give `HandedOutFresh`. `LockInv` says who is in the lock and
  where, so whoever waits finds a reader, a writer or an announced writer that
  can go on, which is `NeverStuck`. The freshness is that of the check:
  a goroutine that sleeps afterwards may still present an old token.
* `RecoveryWindow` (a positive second and period, any other times): `PaceInv`,
  `TimerInv` and `SweepInv`, the last of which says that the sweep that ends a live
  session is never more than a period away from when it is due or from the last
  restart. `ListedInv` says that a listed session was pushed. The theorems about
  queries speak of sessions with a checkout id, and a call of `QuerySTKStatus`
  counts whether it succeeds or not. `QueriedBeforeSwept` assumes that the TTL is a
  whole number of seconds, that pushes are answered within the threshold, and
  `PassTime + QueryThreshold <= TTL`; it adds `VisitInv`: a session old enough when
  a pass began has been queried or is still to be visited in it. With the defaults
  a pass may thus take 30 s, three queries that time out. `QueriedByAge` assumes only that pushes are answered
  within the threshold. Its invariant `ListInv` says, for each position of the
  ticker, when the pass that will query the session begins: by `Soon`, so that it
  is over before `QueryAge`, or as the first since the restart; a pass under way
  that has not listed the session leaves time for the next. `UpInv` ties timers to
  the process that runs, so that the TTL goroutine fires a TTL after the push in
  a process that has been up since, and `QueriedBeforeTimeout` follows if
  `QueryAge <= TTL` and the TTL is a whole number of seconds.
* `Shutdown`: no goroutine is parked once the channel is closed; `OneShutdown` is
  inductive as it stands.
* `PhoneNormalizer` (any inputs, finite or not): the second time round, the digits
  in the buffer are a prefix of the number that was returned, so the scan neither
  overflows nor rejects. For `FormsMatched` the reference picks the digits of the
  input by their number, without recursion: the digit at position `k` is the one
  with `k - 1` before it (`DigitCount`). `ReadInv` says that the buffer holds the
  digits read so far and that nothing unacceptable was skipped, so the scan that
  ends has read all of them, and the one that rejects has met a reason the
  reference knows.

### Only model-checked

`SessionsSettle`, `RecoveryCompletes`, `CallsReturn` and `GoroutinesEnd`, since
TLAPS does not prove liveness under fairness. Of the part of `CallsReturn` that
is safety, that nobody waits for a lock nobody gives back, `NoDeadlock` is the
proof. Every invariant and every action property of the passing runs is proved.

## 5. What is left out

Not modelled, and why:

* HTTP, JSON, headers, prices, log lines: no control depends on them after the
  early returns, which precede any state. `x402/scheme.go`, `x402/response.go` and
  `session/token.go` are types, one response writer and an interface.
* Branch 2 of the gate: a phone number that cannot be extracted is answered 400
  (`x402/x402.go:130`) before any state is touched. The facade's other methods wrap
  the gate and the callback handler.
* `:memory:`, where every pooled connection has a database of its own
  (`store/sqlite/sqlite.go:61`), and the driver: they lie outside the repository,
  and the models take the table to be one.
* Pointers shared by shallow copies in the memory adapter: records are values.
* In `PaymentFlow`, the lengths of times. `age` passes its marks in order: a
  `QueryThreshold` above the TTL would reach `expired` first, which the defaults
  exclude. `RecoveryWindow` has the lengths, for one session.
* Steps of the wall clock: time only moves forward.
* Characters of a phone number other than digits, plus and separators are one
  symbol: the code rejects them alike.

## 6. Plan

Done: the payment flow and its abstract gate, the storage contract with both
adapters, the token cache, shutdown, the recovery window, phone numbers, and
the theorems of section 4.

What could follow:

1. Many sessions in `RecoveryWindow`, so that `PassTime` follows from their number
   and the timeout of a query instead of being a parameter.
2. `PaymentFlow` on `StorageContract` instead of `SessionStore`, which would lift
   its theorems to any adapter that keeps the contract. It takes a contract that
   tells which failing calls have committed.
3. If `Shutdown` is made to wait for its goroutines, `DeadBeforeClose` becomes a
   property of `shutdown`; if `HandleCallback` reads the row again after a refusal,
   `IgnoredCallbackMeansResolved` one of `one_session`.

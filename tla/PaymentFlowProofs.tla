------------------------- MODULE PaymentFlowProofs -------------------------
(***************************************************************************)
(* The safety of the payment flow, for any number of sessions, prompts,    *)
(* requests and crashes.                                                   *)
(***************************************************************************)
EXTENDS PaymentRefinement, TLAPS

Updates == [checkout : Checkout, receipt : BOOLEAN]

-----------------------------------------------------------------------------
(* The transition table.                                                   *)

LEMMA TableTypes ==
  ASSUME NEW t \in validTransitions
  PROVE  /\ t = <<t[1], t[2], t[3]>>
         /\ t[1] \in NonTerminal
         /\ t[3] \in States \ {"CREATED"}
BY DEF validTransitions, NonTerminal, Terminal, States

LEMMA TableEvents ==
  ASSUME NEW t \in validTransitions
  PROVE  /\ t[1] = "CREATED" <=> t[2] \in {"STK_ACCEPTED", "STK_REJECTED"}
         /\ t[2] \in {"CALLBACK_SUCCESS", "CALLBACK_CANCELLED",
                     "CALLBACK_TIMEOUT", "CALLBACK_FAILED",
                     "QUERY_AWAITING_PIN"} => t[1] \in Pending
         /\ t[2] = "STK_ACCEPTED" => t[3] = "STK_PUSHED"
         /\ t[2] = "STK_REJECTED" => t[3] = "FAILED"
         /\ t[2] = "CALLBACK_SUCCESS" => t[3] = "CONFIRMED"
         /\ t[2] = "CALLBACK_CANCELLED" => t[3] = "CANCELLED"
         /\ t[2] = "CALLBACK_TIMEOUT" => t[3] = "TIMEOUT"
         /\ t[2] = "CALLBACK_FAILED" => t[3] = "FAILED"
         /\ t[2] = "TTL_EXPIRED" => t[3] = "TIMEOUT"
         /\ t[2] = "QUERY_AWAITING_PIN" => t[3] = "AWAITING_PIN"
BY DEF validTransitions, Pending

LEMMA FiresType ==
  ASSUME sessions \in [SessionIds -> Record],
         NEW id \in SessionIds, NEW from, NEW event, NEW u \in Updates,
         Fires(id, from, event, u)
  PROVE  sessions' \in [SessionIds -> Record]
<1>1. PICK t \in validTransitions : sessions' = Updated(sessions, id, t[3], u)
  BY DEF Fires
<1>2. t[3] \in States
  BY TableTypes
<1> QED
  BY <1>1, <1>2 DEF Updated, Record, Updates, Checkout

\* ExpireStale and ListPending keep to the types of rows and snapshots.
LEMMA ExpireStaleType ==
  ASSUME sessions \in [SessionIds -> Record], NEW old
  PROVE  ExpireStale(sessions, old) \in [SessionIds -> Record]
BY DEF ExpireStale, Record, States

LEMMA ListPendingType ==
  ASSUME sessions \in [SessionIds -> Record], NEW old \in SUBSET SessionIds
  PROVE  ListPending(sessions, old) \in SUBSET Snapshot
BY DEF ListPending, Record, Snapshot, Pending, Checkout

LEMMA UpdateTypes ==
  /\ NoUpdate \in Updates
  /\ \A c \in Checkout : CorrelationUpdate(c) \in Updates
  /\ \A meta \in BOOLEAN : ReceiptUpdate(meta) \in Updates
BY DEF NoUpdate, CorrelationUpdate, ReceiptUpdate, Updates, Checkout

-----------------------------------------------------------------------------
(* Types.                                                                  *)

LEMMA InitTypeOK == Init => TypeOK
BY MaxCrashesAssumption
   DEF Init, TypeOK, NoRecord, Record, Ages, Ids, Checkout, InitiatorPC,
       HandlerPC, RedeemerPC

LEMMA InitiatorType ==
  ASSUME TypeOK, NEW i \in Initiators, NEW pc \in InitiatorPC, NEW id \in Ids,
         NEW c \in Checkout, SetInitiator(i, pc, id, c)
  PROVE  initiator' \in [Initiators ->
                           [pc : InitiatorPC, id : Ids, checkout : Checkout]]
BY DEF TypeOK, SetInitiator

LEMMA InitiateTypeOK ==
  ASSUME IInv, NEW i \in Initiators, Initiate(i)
  PROVE  TypeOK'
<1> USE DEF TypeOK, daraja, procs, ticker
<1>t. TypeOK
  BY DEF IInv
<1>1. CASE NameSession(i)
  <2>1. PICK id \in SessionIds : SetInitiator(i, "named", id, NoCheckout)
    BY <1>1 DEF NameSession
  <2> QED
    BY <1>t, <1>1, <2>1, InitiatorType
       DEF NameSession, Ids, Checkout, InitiatorPC
<1>2. CASE CreateSession(i)
  BY <1>t, <1>2 DEF CreateSession, Inserts, Inserted, Record, States,
     InitiatorInv, IInv, SetInitiator, InitiatorPC, Checkout
<1>3. CASE CreateFails(i)
  <2>1. /\ initiator[i].id \in SessionIds
        /\ initiator[i].id \in Ids
    BY <1>t, <1>3 DEF CreateFails, IInv, InitiatorInv, Ids
  <2>2. sessions' \in [SessionIds -> Record]
    <3>1. CASE Inserts(initiator[i].id)
      BY <1>t, <2>1, <3>1 DEF Inserts, Inserted, Record, States
    <3>2. CASE UNCHANGED sessions
      BY <1>t, <3>2
    <3> QED
      BY <1>3, <3>1, <3>2 DEF CreateFails
  <2> QED
    BY <1>t, <1>3, <2>1, <2>2, InitiatorType
       DEF CreateFails, InitiatorPC, Checkout
<1>4. CASE \E c \in CheckoutIds : PushAccepted(i, c)
  <2>1. PICK c \in CheckoutIds : PushAccepted(i, c)
    BY <1>4
  <2>2. initiator' \in [Initiators ->
                          [pc : InitiatorPC, id : Ids, checkout : Checkout]]
    BY <1>t, <2>1 DEF PushAccepted, SetInitiator, InitiatorPC, Checkout
  <2>3. /\ prompt' \in [CheckoutIds -> ResultCodes \cup {"unsent", "pending"}]
        /\ owner' \in [CheckoutIds -> Ids]
    BY <1>t, <2>1 DEF PushAccepted
  <2> QED
    BY <1>t, <2>1, <2>2, <2>3 DEF PushAccepted
<1>5. CASE PushUncorrelated(i)
  BY <1>t, <1>5 DEF PushUncorrelated, SetInitiator, InitiatorPC, Checkout
<1>6. CASE PushRefused(i)
  BY <1>t, <1>6 DEF PushRefused, SetInitiator, InitiatorPC, Checkout
<1>7. CASE MarkPushed(i)
  <2>1. /\ initiator[i].id \in SessionIds
        /\ initiator[i].checkout \in Checkout
    BY <1>t, <1>7 DEF MarkPushed, IInv, InitiatorInv
  <2>2. sessions' \in [SessionIds -> Record]
    BY <1>t, <1>7, <2>1, FiresType, UpdateTypes DEF MarkPushed, Correlates
  <2> QED
    BY <1>t, <1>7, <2>1, <2>2 DEF MarkPushed, SetInitiator, InitiatorPC
<1>8. CASE MarkPushedFails(i)
  <2>1. /\ initiator[i].id \in SessionIds
        /\ initiator[i].checkout \in Checkout
    BY <1>t, <1>8 DEF MarkPushedFails, IInv, InitiatorInv
  <2>2. sessions' \in [SessionIds -> Record]
    BY <1>t, <1>8, <2>1, FiresType, UpdateTypes
       DEF MarkPushedFails, Correlates
  <2> QED
    BY <1>t, <1>8, <2>1, <2>2 DEF MarkPushedFails, SetInitiator, InitiatorPC
<1>9. CASE MarkRejected(i)
  <2>1. initiator[i].id \in SessionIds
    BY <1>t, <1>9 DEF MarkRejected, IInv, InitiatorInv
  <2>2. sessions' \in [SessionIds -> Record]
    BY <1>t, <1>9, <2>1, FiresType, UpdateTypes DEF MarkRejected
  <2> QED
    BY <1>t, <1>9, <2>2 DEF MarkRejected, SetInitiator, InitiatorPC, Checkout
<1> QED
  BY <1>1, <1>2, <1>3, <1>4, <1>5, <1>6, <1>7, <1>8, <1>9 DEF Initiate

LEMMA CallbackTypeOK ==
  ASSUME IInv, NEW h \in Handlers, HandleCallback(h)
  PROVE  TypeOK'
<1> USE DEF TypeOK, daraja, procs, ticker
<1>t. TypeOK
  BY DEF IInv
<1>1. ASSUME NEW c \in CheckoutIds, CallbackFinds(h, c)
      PROVE  TypeOK'
  <2>1. PICK id \in SessionIds, meta \in BOOLEAN :
          SetHandler(h, "found", c, meta, id, sessions[id].state)
    BY <1>1 DEF CallbackFinds, FoundByCheckout
  <2>2. sessions[id].state \in States \cup {"ABSENT"}
    BY <1>t DEF Record
  <2>3. handler' \in [Handlers -> [pc : HandlerPC, checkout : Checkout,
                                   meta : BOOLEAN, id : Ids,
                                   from : States \cup {"ABSENT"}]]
    BY <1>t, <2>1, <2>2 DEF SetHandler, HandlerPC, Checkout, Ids
  <2> QED
    BY <1>t, <1>1, <2>3 DEF CallbackFinds
<1>2. ASSUME NEW c \in CheckoutIds, CallbackUnknown(h, c)
      PROVE  TypeOK'
  BY <1>t, <1>2 DEF CallbackUnknown, SetHandler, HandlerPC, Checkout, Ids
<1>3. CASE CallbackApplies(h)
  <2>1. /\ handler[h].id \in SessionIds
        /\ ReceiptUpdate(handler[h].meta) \in Updates
    BY <1>t, <1>3, UpdateTypes DEF CallbackApplies, IInv, HandlerInv
  <2>2. sessions' \in [SessionIds -> Record]
    BY <1>t, <1>3, <2>1, FiresType DEF CallbackApplies
  <2> QED
    BY <1>t, <1>3, <2>2 DEF CallbackApplies, FinishCallback, HandlerPC
<1>4. CASE CallbackIgnored(h)
  BY <1>t, <1>4 DEF CallbackIgnored, Refuses, FinishCallback, HandlerPC
<1>5. CASE CallbackLost(h)
  BY <1>t, <1>5 DEF CallbackLost, FinishCallback, HandlerPC
<1> QED
  BY <1>1, <1>2, <1>3, <1>4, <1>5 DEF HandleCallback

LEMMA GateTypeOK ==
  ASSUME IInv, NEW r \in Redeemers, Gate(r)
  PROVE  TypeOK'
<1> USE DEF TypeOK, daraja, procs, ticker, SetRedeemer, RedeemerPC, Ids
<1>t. TypeOK
  BY DEF IInv
<1>1. ASSUME NEW s \in SessionIds, GateChecks(r, s) \/ GateDenies(r, s)
      PROVE  TypeOK'
  BY <1>t, <1>1 DEF GateChecks, GateDenies
<1>2. CASE GateConsumes(r)
  <2>1. redeemer[r].id \in SessionIds
    BY <1>2 DEF GateConsumes, IInv, RedeemerInv
  <2>2. sessions' \in [SessionIds -> Record]
    BY <1>t, <1>2, <2>1 DEF GateConsumes, Updated, NoUpdate, Record, States
  <2> QED
    BY <1>t, <1>2, <2>1, <2>2 DEF GateConsumes
<1>3. CASE GateConsumeFails(r)
  BY <1>t, <1>3 DEF GateConsumeFails
<1>4. CASE GateServes(r)
  BY <1>t, <1>4 DEF GateServes
<1>5. CASE GateServeFails(r)
  BY <1>t, <1>5 DEF GateServeFails
<1> QED
  BY <1>1, <1>2, <1>3, <1>4, <1>5 DEF Gate

LEMMA TickerTypeOK ==
  ASSUME IInv, RunTicker
  PROVE  TypeOK'
<1> USE DEF TypeOK, daraja, procs, ticker
<1>t. TypeOK
  BY DEF IInv
<1>1. CASE RecoveryLists
  BY <1>t, <1>1, ListPendingType DEF RecoveryLists
<1>2. CASE RecoveryListFails
  BY <1>t, <1>2 DEF RecoveryListFails
<1>3. ASSUME NEW p \in work, RecoverySkips(p)
      PROVE  TypeOK'
  BY <1>t, <1>3 DEF RecoverySkips
<1>4. ASSUME NEW p \in work, RecoveryQueries(p)
      PROVE  TypeOK'
  <2>1. /\ p \in Snapshot
        /\ p.checkout \in CheckoutIds
    BY <1>t, <1>4 DEF RecoveryQueries, Snapshot, Checkout
  <2>2. prompt[p.checkout] # "unsent"
    BY <1>t, <2>1, NoCheckoutAssumption, NoSessionAssumption
       DEF IInv, TickerInv, CorrelationSound, DarajaInv, Snapshot
  <2>3. answer' \in Answer
    BY <1>t, <1>4, <2>1, <2>2 DEF RecoveryQueries, Snapshot, Answer, Codes
  <2> QED
    BY <1>t, <1>4, <2>3 DEF RecoveryQueries
<1>5. CASE RecoveryApplies
  <2>1. answer.id \in SessionIds
    BY <1>5 DEF RecoveryApplies, IInv, TickerInv, Answer
  <2>2. sessions' \in [SessionIds -> Record]
    BY <1>t, <1>5, <2>1, FiresType, UpdateTypes DEF RecoveryApplies
  <2> QED
    BY <1>t, <1>5, <2>2 DEF RecoveryApplies
<1>6. CASE RecoveryGivesUp
  BY <1>t, <1>6 DEF RecoveryGivesUp
<1>7. CASE ExpiryPass
  BY <1>t, <1>7, ExpireStaleType DEF ExpiryPass
<1>8. CASE ExpiryFails
  BY <1>t, <1>8 DEF ExpiryFails
<1> QED
  BY <1>1, <1>2, <1>3, <1>4, <1>5, <1>6, <1>7, <1>8 DEF RunTicker

LEMMA EnvironmentTypeOK ==
  ASSUME IInv, Environment
  PROVE  TypeOK'
<1> USE DEF TypeOK, daraja, procs, ticker
<1>t. TypeOK
  BY DEF IInv
<1>1. ASSUME NEW c \in CheckoutIds, PromptResolves(c)
      PROVE  TypeOK'
  BY <1>t, <1>1 DEF PromptResolves
<1>2. ASSUME NEW s \in SessionIds, Matures(s) \/ Expires(s)
      PROVE  TypeOK'
  BY <1>t, <1>2 DEF Matures, Expires, Ages
<1>3. CASE Crash
  <2>1. initiator' \in [Initiators ->
                          [pc : InitiatorPC, id : Ids, checkout : Checkout]]
    BY <1>t, <1>3 DEF Crash, InitiatorPC
  <2>2. handler' \in [Handlers -> [pc : HandlerPC, checkout : Checkout,
                                   meta : BOOLEAN, id : Ids,
                                   from : States \cup {"ABSENT"}]]
    <3>1. ASSUME NEW h \in Handlers
          PROVE  handler'[h] \in [pc : HandlerPC, checkout : Checkout,
                                  meta : BOOLEAN, id : Ids,
                                  from : States \cup {"ABSENT"}]
      <4>1. handler[h] \in [pc : HandlerPC, checkout : Checkout,
                            meta : BOOLEAN, id : Ids,
                            from : States \cup {"ABSENT"}]
        BY <1>t
      <4>2. handler'[h] = IF handler[h].pc = "found"
                          THEN [handler[h] EXCEPT !.pc = "lost"]
                          ELSE handler[h]
        BY <1>3 DEF Crash
      <4> QED
        BY <4>1, <4>2 DEF HandlerPC
    <3> QED
      BY <1>3, <3>1 DEF Crash
  <2>3. redeemer' \in [Redeemers -> [pc : RedeemerPC, id : Ids]]
    BY <1>t, <1>3 DEF Crash, RedeemerPC
  <2>4. crashes' \in 0 .. MaxCrashes
    BY <1>t, <1>3, MaxCrashesAssumption DEF Crash
  <2> QED
    BY <1>t, <1>3, <2>1, <2>2, <2>3, <2>4 DEF Crash
<1> QED
  BY <1>1, <1>2, <1>3 DEF Environment

LEMMA TimerTypeOK ==
  ASSUME IInv, NEW s \in SessionIds, TimerFires(s)
  PROVE  TypeOK'
<1>1. sessions' \in [SessionIds -> Record]
  BY FiresType, UpdateTypes DEF TimerFires, IInv, TypeOK
<1> QED
  BY <1>1 DEF TimerFires, IInv, TypeOK, daraja, procs, ticker

LEMMA NextTypeOK ==
  ASSUME IInv, [Next]_vars
  PROVE  TypeOK'
<1>1. CASE Next
  BY <1>1, InitiateTypeOK, CallbackTypeOK, GateTypeOK, TimerTypeOK,
     TickerTypeOK, EnvironmentTypeOK DEF Next
<1>2. CASE UNCHANGED vars
  BY <1>2 DEF IInv, TypeOK, vars, daraja, procs, ticker
<1> QED
  BY <1>1, <1>2

-----------------------------------------------------------------------------
(* What one step may do to a row, and to Daraja's side of it.              *)

Resolution(state, code) ==
  \/ state = "CONFIRMED" /\ code = "0"
  \/ state = "CANCELLED" /\ code = "1032"
  \/ state = "TIMEOUT" /\ code = "1037"
  \/ state = "FAILED" /\ code \in ResultCodes \ {"0"}

SameFields(s) == /\ sessions'[s].checkout = sessions[s].checkout
                 /\ sessions'[s].receipt = sessions[s].receipt

RowCreated(s) ==
  /\ sessions[s].state = "ABSENT"
  /\ sessions'[s] = [state |-> "CREATED", checkout |-> NoCheckout,
                     receipt |-> FALSE]

RowPushed(s) ==
  /\ sessions[s].state = "CREATED" /\ sessions'[s].state = "STK_PUSHED"
  /\ sessions'[s].receipt = sessions[s].receipt
  /\ sessions'[s].checkout # sessions[s].checkout =>
       /\ sessions'[s].checkout \in CheckoutIds
       /\ owner[sessions'[s].checkout] = s

RowRejected(s) ==
  /\ sessions[s].state = "CREATED" /\ sessions'[s].state = "FAILED"
  /\ SameFields(s)

RowExpired(s) ==
  /\ sessions[s].state \in NonTerminal /\ sessions'[s].state = "TIMEOUT"
  /\ age[s] = "expired"
  /\ SameFields(s)

RowConsumed(s) ==
  /\ sessions[s].state = "CONFIRMED" /\ sessions'[s].state = "CONSUMED"
  /\ SameFields(s)

RowAwaiting(s) ==
  /\ sessions[s].state \in Pending /\ sessions'[s].state = "AWAITING_PIN"
  /\ SameFields(s)

RowResolved(s) ==
  /\ sessions[s].state \in Pending
  /\ sessions[s].checkout \in CheckoutIds
  /\ sessions'[s].checkout = sessions[s].checkout
  /\ Resolution(sessions'[s].state, prompt[sessions[s].checkout])
  /\ sessions[s].receipt => sessions'[s].receipt
  /\ sessions'[s].receipt =>
       sessions[s].receipt \/ prompt[sessions[s].checkout] = "0"

RowStep(s) ==
  \/ sessions'[s] = sessions[s]
  \/ RowCreated(s) \/ RowPushed(s) \/ RowRejected(s) \/ RowExpired(s)
  \/ RowConsumed(s) \/ RowAwaiting(s) \/ RowResolved(s)

LEMMA CorrelatesRows ==
  ASSUME IInv, NEW i \in Initiators, initiator[i].pc = "accepted",
         Correlates(i), NEW s \in SessionIds
  PROVE  RowStep(s)
<1> DEFINE id == initiator[i].id
           c  == initiator[i].checkout
<1>1. /\ id \in SessionIds
      /\ c \in Checkout
      /\ sessions \in [SessionIds -> Record]
      /\ c # NoCheckout => c \in CheckoutIds /\ owner[c] = id
  BY DEF IInv, InitiatorInv, TypeOK, Checkout
<1>2. PICK t \in validTransitions :
        /\ t[1] = "CREATED" /\ t[2] = "STK_ACCEPTED"
        /\ sessions[id].state = "CREATED"
        /\ sessions' = [sessions EXCEPT ![id] =
             [state    |-> t[3],
              checkout |-> IF c = NoCheckout THEN sessions[id].checkout ELSE c,
              receipt  |-> sessions[id].receipt]]
  <2>1. PICK t \in validTransitions :
          /\ t[1] = "CREATED" /\ t[2] = "STK_ACCEPTED"
          /\ sessions[id].state = "CREATED"
          /\ sessions' = Updated(sessions, id, t[3], CorrelationUpdate(c))
    BY DEF Correlates, Fires, Matches
  <2>2. sessions[id].receipt \in BOOLEAN
    BY <1>1 DEF Record
  <2> QED
    BY <2>1, <2>2 DEF Updated, CorrelationUpdate
<1>3. t[3] = "STK_PUSHED"
  BY <1>2, TableEvents
<1> QED
  BY <1>1, <1>2, <1>3 DEF RowStep, RowPushed

LEMMA MarkRejectedRows ==
  ASSUME IInv, NEW i \in Initiators, MarkRejected(i), NEW s \in SessionIds
  PROVE  RowStep(s)
<1> DEFINE id == initiator[i].id
<1>1. id \in SessionIds /\ sessions \in [SessionIds -> Record]
  BY DEF MarkRejected, IInv, InitiatorInv, TypeOK
<1>2. CASE Fires(id, "CREATED", "STK_REJECTED", NoUpdate)
  <2>1. PICK t \in validTransitions :
          /\ t[1] = "CREATED" /\ t[2] = "STK_REJECTED"
          /\ sessions[id].state = "CREATED"
          /\ sessions' = [sessions EXCEPT ![id] =
               [state    |-> t[3],
                checkout |-> sessions[id].checkout,
                receipt  |-> sessions[id].receipt]]
    BY <1>1, <1>2 DEF Fires, Matches, Updated, NoUpdate, Record
  <2> QED
    BY <1>1, <2>1, TableEvents DEF RowStep, RowRejected, SameFields
<1>3. CASE UNCHANGED sessions
  BY <1>3 DEF RowStep
<1> QED
  BY <1>2, <1>3 DEF MarkRejected

LEMMA CallbackRows ==
  ASSUME IInv, NEW h \in Handlers, CallbackApplies(h), NEW s \in SessionIds
  PROVE  RowStep(s)
<1> DEFINE id == handler[h].id
           c  == handler[h].checkout
<1>1. /\ id \in SessionIds /\ c \in CheckoutIds
      /\ handler[h].meta \in BOOLEAN
      /\ sessions \in [SessionIds -> Record]
      /\ sessions[id].checkout = c
      /\ prompt[c] \in ResultCodes
      /\ handler[h].meta => prompt[c] = "0"
  BY DEF CallbackApplies, IInv, HandlerInv, TypeOK
<1>2. PICK t \in validTransitions :
        /\ t[2] = resultCodeToEvent(prompt[c])
        /\ sessions[id].state = t[1]
        /\ sessions' = [sessions EXCEPT ![id] =
             [state    |-> t[3],
              checkout |-> c,
              receipt  |-> sessions[id].receipt \/ handler[h].meta]]
  <2>1. PICK t \in validTransitions :
          /\ t[2] = resultCodeToEvent(prompt[c])
          /\ sessions[id].state = t[1]
          /\ sessions' = Updated(sessions, id, t[3],
                                 ReceiptUpdate(handler[h].meta))
    BY DEF CallbackApplies, CallbackEvent, Fires, Matches
  <2> QED
    BY <1>1, <2>1 DEF Updated, ReceiptUpdate
<1>3. t[1] \in Pending /\ Resolution(t[3], prompt[c])
  BY <1>1, <1>2, TableEvents DEF resultCodeToEvent, Resolution, ResultCodes
<1> QED
  BY <1>1, <1>2, <1>3 DEF RowStep, RowResolved

LEMMA RecoveryRows ==
  ASSUME IInv, RecoveryApplies, NEW s \in SessionIds
  PROVE  RowStep(s)
<1> DEFINE id == answer.id
           c  == answer.checkout
<1>1. /\ id \in SessionIds /\ c \in CheckoutIds
      /\ answer.code \in Codes
      /\ sessions \in [SessionIds -> Record]
      /\ sessions[id].checkout = c
      /\ answer.code \in {StillProcessing, prompt[c]}
  BY DEF RecoveryApplies, IInv, TickerInv, TypeOK, Answer
<1>2. PICK t \in validTransitions :
        /\ t[2] = queryResultCodeToEvent(answer.code)
        /\ sessions[id].state = t[1]
        /\ sessions' = [sessions EXCEPT ![id] =
             [state    |-> t[3],
              checkout |-> c,
              receipt  |-> sessions[id].receipt]]
  BY <1>1 DEF RecoveryApplies, Fires, Matches, Updated, NoUpdate, Record
<1>3. t[1] \in Pending
  BY <1>2, TableEvents DEF queryResultCodeToEvent
<1>4. CASE answer.code = StillProcessing
  <2>1. t[3] = "AWAITING_PIN"
    BY <1>2, <1>4, TableEvents DEF queryResultCodeToEvent, StillProcessing
  <2> QED
    BY <1>1, <1>2, <1>3, <2>1 DEF RowStep, RowAwaiting, SameFields
<1>5. CASE answer.code # StillProcessing
  <2>1. Resolution(t[3], prompt[c])
    BY <1>1, <1>2, <1>5, TableEvents
       DEF queryResultCodeToEvent, Resolution, Codes
  <2> QED
    BY <1>1, <1>2, <1>3, <2>1 DEF RowStep, RowResolved
<1> QED
  BY <1>4, <1>5

\* Every step leaves each row alone or takes it along one of the edges above.
LEMMA NextRows ==
  ASSUME IInv, [Next]_vars, NEW s \in SessionIds
  PROVE  RowStep(s)
<1> USE DEF RowStep
<1>t. sessions \in [SessionIds -> Record]
  BY DEF IInv, TypeOK
<1>1. ASSUME NEW i \in Initiators, Initiate(i)
      PROVE  RowStep(s)
  <2>1. CASE CreateSession(i) \/ CreateFails(i)
    BY <1>t, <2>1 DEF CreateSession, CreateFails, Inserts, Exists, Inserted,
                      RowCreated
  <2>2. CASE \/ NameSession(i)
             \/ \E c \in CheckoutIds : PushAccepted(i, c)
             \/ PushUncorrelated(i) \/ PushRefused(i)
    BY <2>2 DEF NameSession, PushAccepted, PushUncorrelated, PushRefused
  <2>3. CASE MarkPushed(i) \/ MarkPushedFails(i)
    BY <2>3, CorrelatesRows DEF MarkPushed, MarkPushedFails
  <2> QED
    BY <1>1, <2>1, <2>2, <2>3, MarkRejectedRows DEF Initiate
<1>2. ASSUME NEW h \in Handlers, HandleCallback(h)
      PROVE  RowStep(s)
  BY <1>2, CallbackRows
     DEF HandleCallback, CallbackFinds, CallbackUnknown, CallbackIgnored,
         Refuses, CallbackLost
<1>3. ASSUME NEW r \in Redeemers, Gate(r)
      PROVE  RowStep(s)
  <2>1. CASE GateConsumes(r)
    BY <1>t, <2>1 DEF GateConsumes, Matches, Updated, NoUpdate, Record,
                      RowConsumed, SameFields
  <2> QED
    BY <1>3, <2>1 DEF Gate, GateChecks, GateDenies, GateConsumeFails,
                      GateServes, GateServeFails
<1>4. ASSUME NEW q \in SessionIds, TimerFires(q)
      PROVE  RowStep(s)
  <2>1. CASE Fires(q, "STK_PUSHED", "TTL_EXPIRED", NoUpdate)
    <3>1. PICK t \in validTransitions :
            /\ t[2] = "TTL_EXPIRED"
            /\ sessions[q].state = "STK_PUSHED"
            /\ sessions' = Updated(sessions, q, t[3], NoUpdate)
      BY <2>1 DEF Fires, Matches
    <3>2. t[3] = "TIMEOUT"
      BY <3>1, TableEvents
    <3> QED
      BY <1>t, <1>4, <3>1, <3>2
         DEF TimerFires, Updated, NoUpdate, Record, RowExpired, SameFields,
             NonTerminal, Terminal, States
  <2> QED
    BY <1>4, <2>1 DEF TimerFires
<1>5. CASE RunTicker
  <2>1. CASE ExpiryPass
    BY <1>t, <2>1 DEF ExpiryPass, ExpireStale, Record, RowExpired, SameFields
  <2> QED
    BY <1>5, <2>1, RecoveryRows
       DEF RunTicker, RecoveryLists, RecoveryListFails, RecoverySkips,
           RecoveryQueries, RecoveryGivesUp, ExpiryFails
<1>6. CASE Environment
  BY <1>6 DEF Environment, PromptResolves, Matures, Expires, Crash
<1>7. CASE UNCHANGED vars
  BY <1>7 DEF vars
<1> QED
  BY <1>1, <1>2, <1>3, <1>4, <1>5, <1>6, <1>7 DEF Next

\* Daraja's side only grows: a prompt that was opened stays opened for the
\* same session, and its outcome is final.
DarajaStep(c) ==
  /\ prompt[c] # "unsent" => prompt'[c] # "unsent" /\ owner'[c] = owner[c]
  /\ prompt[c] \in ResultCodes => prompt'[c] = prompt[c]
  /\ \/ /\ owner'[c] = owner[c]
        /\ prompt[c] = "unsent" => prompt'[c] = "unsent"
     \/ \E i \in Initiators : PushAccepted(i, c)

LEMMA NextDaraja ==
  ASSUME IInv, [Next]_vars, NEW c \in CheckoutIds
  PROVE  DarajaStep(c)
<1> USE DEF DarajaStep, daraja, procs, ticker
<1>t. /\ prompt \in [CheckoutIds -> ResultCodes \cup {"unsent", "pending"}]
      /\ owner \in [CheckoutIds -> Ids]
  BY DEF IInv, TypeOK
<1>1. ASSUME NEW i \in Initiators, Initiate(i)
      PROVE  DarajaStep(c)
  <2>1. ASSUME NEW d \in CheckoutIds, PushAccepted(i, d)
        PROVE  DarajaStep(c)
    BY <1>t, <2>1 DEF PushAccepted, ResultCodes
  <2> QED
    BY <1>1, <2>1 DEF Initiate, NameSession, CreateSession, CreateFails,
       PushUncorrelated, PushRefused, MarkPushed, MarkPushedFails,
       MarkRejected
<1>2. ASSUME NEW h \in Handlers, HandleCallback(h)
      PROVE  DarajaStep(c)
  BY <1>2 DEF HandleCallback, CallbackFinds, CallbackUnknown,
     CallbackApplies, CallbackIgnored, CallbackLost, FinishCallback
<1>3. ASSUME NEW r \in Redeemers, Gate(r)
      PROVE  DarajaStep(c)
  BY <1>3 DEF Gate, GateChecks, GateDenies, GateConsumes, GateConsumeFails,
              GateServes, GateServeFails, SetRedeemer
<1>4. ASSUME NEW q \in SessionIds, TimerFires(q)
      PROVE  DarajaStep(c)
  BY <1>4 DEF TimerFires
<1>5. CASE RunTicker
  BY <1>5 DEF RunTicker, RecoveryLists, RecoveryListFails, RecoverySkips,
     RecoveryQueries, RecoveryApplies, RecoveryGivesUp, ExpiryPass,
     ExpiryFails
<1>6. CASE Environment
  BY <1>t, <1>6 DEF Environment, PromptResolves, Matures, Expires, Crash,
                    ResultCodes
<1>7. CASE UNCHANGED vars
  BY <1>7 DEF vars
<1> QED
  BY <1>1, <1>2, <1>3, <1>4, <1>5, <1>6, <1>7 DEF Next

\* What every goroutine may rely on about a row while others move on.
RowKept(s) ==
  /\ Exists(sessions, s) => Exists(sessions', s)
  /\ Begun(s) => /\ sessions'[s].state \notin {"ABSENT", "CREATED"}
                 /\ sessions'[s].checkout = sessions[s].checkout
  /\ IsTerminal(sessions[s].state) => sessions'[s] = sessions[s]
  /\ sessions[s].receipt => sessions'[s].receipt

LEMMA NextKeeps ==
  ASSUME IInv, [Next]_vars, NEW s \in SessionIds
  PROVE  RowKept(s)
<1>1. sessions[s] \in Record /\ RowStep(s)
  BY NextRows DEF IInv, TypeOK
<1>2. sessions[s].state = "ABSENT" => ~sessions[s].receipt
  BY <1>1 DEF IInv, OutcomeAgreement, UncorrelatedInv, Begun
<1> QED
  BY <1>1, <1>2
     DEF RowKept, RowStep, RowCreated, RowPushed, RowRejected, RowExpired,
         RowConsumed, RowAwaiting, RowResolved, SameFields, Exists, Begun,
         IsTerminal, Terminal, NonTerminal, States, Pending, Resolution

-----------------------------------------------------------------------------
(* The invariants of the rows.                                             *)

LEMMA NextUncorrelated ==
  ASSUME IInv, [Next]_vars
  PROVE  UncorrelatedInv'
<1> SUFFICES ASSUME NEW s \in SessionIds,
                    sessions'[s].checkout # NoCheckout
             PROVE  sessions'[s].state \notin {"ABSENT", "CREATED"}
  BY DEF UncorrelatedInv, Begun
<1>1. CASE Begun(s)
  BY <1>1, NextKeeps DEF RowKept
<1>2. CASE ~Begun(s)
  <2>1. sessions[s].checkout = NoCheckout
    BY <1>2 DEF IInv, UncorrelatedInv
  <2> QED
    BY <1>2, <2>1, NextRows
       DEF RowStep, RowCreated, RowPushed, RowRejected, RowExpired,
           RowConsumed, RowAwaiting, RowResolved, SameFields, Begun, Pending
<1> QED
  BY <1>1, <1>2

LEMMA NextCorrelation ==
  ASSUME IInv, [Next]_vars
  PROVE  CorrelationSound'
<1> SUFFICES ASSUME NEW s \in SessionIds,
                    sessions'[s].checkout # NoCheckout
             PROVE  owner'[sessions'[s].checkout] = s
  BY DEF CorrelationSound
<1> DEFINE c == sessions'[s].checkout
<1>1. c \in CheckoutIds
  BY NextTypeOK DEF TypeOK, Record, Checkout
<1>2. owner[c] = s
  <2>1. CASE c = sessions[s].checkout
    BY <2>1 DEF IInv, CorrelationSound
  <2>2. CASE c # sessions[s].checkout
    BY <2>2, NextRows
       DEF RowStep, RowCreated, RowPushed, RowRejected, RowExpired,
           RowConsumed, RowAwaiting, RowResolved, SameFields
  <2> QED
    BY <2>1, <2>2
<1>3. prompt[c] # "unsent"
  BY <1>1, <1>2, NoSessionAssumption DEF IInv, DarajaInv
<1> QED
  BY <1>1, <1>2, <1>3, NextDaraja DEF DarajaStep

LEMMA NextOutcome ==
  ASSUME IInv, [Next]_vars
  PROVE  OutcomeAgreement'
<1> SUFFICES ASSUME NEW s \in SessionIds
             PROVE  LET outcome == prompt'[sessions'[s].checkout]
                        state   == sessions'[s].state
                        c       == sessions'[s].checkout IN
                    /\ sessions'[s].receipt => c # NoCheckout
                    /\ state \in {"CONFIRMED", "CONSUMED"} => c # NoCheckout
                    /\ c # NoCheckout =>
                       /\ state \in {"CONFIRMED", "CONSUMED"} => outcome = "0"
                       /\ state = "CANCELLED" => outcome = "1032"
                       /\ state = "FAILED" => outcome \in ResultCodes \ {"0"}
                       /\ sessions'[s].receipt => outcome = "0"
  BY DEF OutcomeAgreement
<1>1. /\ sessions[s] \in Record /\ sessions'[s] \in Record
      /\ RowStep(s)
  BY NextRows, NextTypeOK DEF IInv, TypeOK
<1>2. \A c \in CheckoutIds :
        prompt[c] \in ResultCodes => prompt'[c] = prompt[c]
  BY NextDaraja DEF DarajaStep
<1>3. sessions[s].checkout # NoCheckout => sessions[s].checkout \in CheckoutIds
  BY <1>1 DEF Record, Checkout
<1>4. ~Begun(s) => sessions[s].checkout = NoCheckout /\ ~sessions[s].receipt
  BY DEF IInv, UncorrelatedInv, OutcomeAgreement
<1>5. CASE sessions'[s] = sessions[s]
  BY <1>1, <1>2, <1>3, <1>5 DEF IInv, OutcomeAgreement, ResultCodes
<1>6. CASE RowCreated(s)
  BY <1>6 DEF RowCreated
<1>7. CASE RowPushed(s) \/ RowRejected(s)
  BY <1>1, <1>4, <1>7 DEF RowPushed, RowRejected, SameFields, Begun
<1>8. CASE RowExpired(s) \/ RowConsumed(s) \/ RowAwaiting(s)
  BY <1>1, <1>2, <1>3, <1>8
     DEF RowExpired, RowConsumed, RowAwaiting, SameFields, IInv,
         OutcomeAgreement, ResultCodes
<1>9. CASE RowResolved(s)
  BY <1>1, <1>2, <1>3, <1>9, NoCheckoutAssumption
     DEF RowResolved, Resolution, IInv, OutcomeAgreement, ResultCodes
<1> QED
  BY <1>1, <1>5, <1>6, <1>7, <1>8, <1>9 DEF RowStep

-----------------------------------------------------------------------------
(* Daraja's invariants.                                                    *)

LEMMA NextDarajaInv ==
  ASSUME IInv, [Next]_vars
  PROVE  DarajaInv'
<1> SUFFICES ASSUME NEW c \in CheckoutIds
             PROVE  /\ owner'[c] # NoSession <=> prompt'[c] # "unsent"
                    /\ owner'[c] # NoSession => Exists(sessions', owner'[c])
  BY DEF DarajaInv
<1>1. CASE /\ owner'[c] = owner[c]
           /\ prompt[c] = "unsent" => prompt'[c] = "unsent"
  <2>1. /\ owner[c] # NoSession <=> prompt[c] # "unsent"
        /\ owner[c] # NoSession => Exists(sessions, owner[c])
        /\ owner[c] # NoSession => owner[c] \in SessionIds
    BY DEF IInv, DarajaInv, TypeOK, Ids
  <2> QED
    BY <1>1, <2>1, NextDaraja, NextKeeps DEF DarajaStep, RowKept
<1>2. ASSUME NEW i \in Initiators, PushAccepted(i, c)
      PROVE  /\ owner'[c] # NoSession <=> prompt'[c] # "unsent"
             /\ owner'[c] # NoSession => Exists(sessions', owner'[c])
  BY <1>2, NoSessionAssumption
     DEF PushAccepted, IInv, InitiatorInv, TypeOK
<1> QED
  BY <1>1, <1>2, NextDaraja DEF DarajaStep

LEMMA NextOnePrompt ==
  ASSUME IInv, [Next]_vars
  PROVE  OnePromptPerSession'
<1> SUFFICES ASSUME NEW c1 \in CheckoutIds, NEW c2 \in CheckoutIds,
                    owner'[c1] = owner'[c2], owner'[c1] # NoSession
             PROVE  c1 = c2
  BY DEF OnePromptPerSession
<1>1. CASE owner' = owner
  BY <1>1 DEF IInv, OnePromptPerSession
<1>2. ASSUME NEW i \in Initiators, NEW c \in CheckoutIds, PushAccepted(i, c)
      PROVE  c1 = c2
  BY <1>2 DEF PushAccepted, IInv, InitiatorInv, TypeOK, OnePromptPerSession
<1>3. CASE /\ owner'[c1] = owner[c1]
           /\ owner'[c2] = owner[c2]
  BY <1>3 DEF IInv, OnePromptPerSession
<1> QED
  BY <1>1, <1>2, <1>3, NextDaraja DEF DarajaStep

-----------------------------------------------------------------------------
(* The invariants of the goroutines.                                       *)

\* A goroutine is where it was, or has given up.
InitiatorKept(i) ==
  \/ initiator'[i] = initiator[i]
  \/ /\ initiator'[i].pc \in {"refused", "pushed", "rejected", "failed"}
     /\ initiator'[i].id = initiator[i].id
     /\ initiator[i].pc # "idle"

LEMMA NextInitiators ==
  ASSUME IInv, [Next]_vars, NEW i \in Initiators
  PROVE  \/ InitiatorKept(i)
         \/ NameSession(i) \/ CreateSession(i)
         \/ \E c \in CheckoutIds : PushAccepted(i, c)
         \/ PushUncorrelated(i)
<1> USE DEF InitiatorKept, procs
<1>t. initiator \in [Initiators ->
                       [pc : InitiatorPC, id : Ids, checkout : Checkout]]
  BY DEF IInv, TypeOK
<1>1. ASSUME NEW j \in Initiators, Initiate(j), j # i
      PROVE  initiator'[i] = initiator[i]
  BY <1>t, <1>1 DEF Initiate, NameSession, CreateSession, CreateFails,
     PushAccepted, PushUncorrelated, PushRefused, MarkPushed,
     MarkPushedFails, MarkRejected, SetInitiator
<1>2. CASE PushRefused(i) \/ MarkPushed(i) \/ MarkPushedFails(i)
           \/ MarkRejected(i) \/ CreateFails(i)
  BY <1>t, <1>2 DEF PushRefused, MarkPushed, MarkPushedFails, MarkRejected,
     CreateFails, SetInitiator
<1>3. ASSUME NEW h \in Handlers, HandleCallback(h)
      PROVE  initiator' = initiator
  BY <1>3 DEF HandleCallback, CallbackFinds, CallbackUnknown,
     CallbackApplies, CallbackIgnored, CallbackLost, FinishCallback
<1>4. ASSUME NEW r \in Redeemers, Gate(r)
      PROVE  initiator' = initiator
  BY <1>4 DEF Gate, GateChecks, GateDenies, GateConsumes, GateConsumeFails,
              GateServes, GateServeFails, SetRedeemer
<1>5. ASSUME NEW q \in SessionIds, TimerFires(q)
      PROVE  initiator' = initiator
  BY <1>5 DEF TimerFires
<1>6. ASSUME RunTicker
      PROVE  initiator' = initiator
  BY <1>6 DEF RunTicker, RecoveryLists, RecoveryListFails, RecoverySkips,
     RecoveryQueries, RecoveryApplies, RecoveryGivesUp, ExpiryPass,
     ExpiryFails
<1>7. CASE Crash
  BY <1>t, <1>7 DEF Crash
<1>8. ASSUME Environment, ~Crash
      PROVE  initiator' = initiator
  BY <1>8 DEF Environment, PromptResolves, Matures, Expires
<1>9. CASE UNCHANGED vars
  BY <1>9 DEF vars
<1> QED
  BY <1>1, <1>2, <1>3, <1>4, <1>5, <1>6, <1>7, <1>8, <1>9 DEF Next, Initiate

LEMMA NextInitiatorInv ==
  ASSUME IInv, [Next]_vars
  PROVE  InitiatorInv'
<1>t. /\ initiator \in [Initiators ->
                          [pc : InitiatorPC, id : Ids, checkout : Checkout]]
      /\ owner \in [CheckoutIds -> Ids]
  BY DEF IInv, TypeOK
<1>1. ASSUME NEW i \in Initiators
      PROVE  initiator'[i].pc # "idle" => initiator'[i].id \in SessionIds
  BY <1>t, NextInitiators
     DEF InitiatorKept, NameSession, CreateSession, PushAccepted,
         PushUncorrelated, SetInitiator, IInv, InitiatorInv
<1>2. ASSUME NEW i \in Initiators, initiator'[i].pc = "created"
      PROVE  /\ initiator'[i].id = initiator[i].id
             /\ initiator[i].id \in SessionIds
             /\ CreateSession(i) \/ initiator[i].pc = "created"
  BY <1>t, <1>2, NextInitiators
     DEF InitiatorKept, NameSession, CreateSession, PushAccepted,
         PushUncorrelated, SetInitiator, IInv, InitiatorInv
<1>3. ASSUME NEW i \in Initiators, initiator'[i].pc = "created"
      PROVE  /\ Exists(sessions', initiator'[i].id)
             /\ \A c \in CheckoutIds : owner'[c] # initiator'[i].id
  <2>1. CASE CreateSession(i)
    <3>1. owner' = owner
      BY <2>1 DEF CreateSession, daraja
    <3>2. \A c \in CheckoutIds : owner[c] # initiator[i].id
      BY <1>2, <1>3, <2>1, NoSessionAssumption
         DEF CreateSession, Inserts, IInv, DarajaInv
    <3> QED
      BY <1>2, <1>3, <2>1, <3>1, <3>2
         DEF CreateSession, Inserts, Inserted, Exists, IInv, TypeOK
  <2>2. CASE initiator[i].pc = "created"
    <3>1. /\ Exists(sessions, initiator[i].id)
          /\ \A c \in CheckoutIds : owner[c] # initiator[i].id
      BY <2>2 DEF IInv, InitiatorInv
    <3>2. ASSUME NEW j \in Initiators, NEW c \in CheckoutIds,
                 PushAccepted(j, c)
          PROVE  owner'[c] # initiator[i].id
      <4>1. j # i
        BY <1>t, <1>3, <3>2 DEF PushAccepted, SetInitiator
      <4> QED
        BY <1>t, <2>2, <3>2, <4>1 DEF PushAccepted, IInv, InitiatorInv
    <3> QED
      BY <1>2, <1>3, <3>1, <3>2, NextKeeps, NextDaraja
         DEF RowKept, DarajaStep
  <2> QED
    BY <1>2, <1>3, <2>1, <2>2
<1>4. ASSUME NEW i \in Initiators, initiator'[i].pc = "accepted",
             initiator'[i].checkout # NoCheckout
      PROVE  owner'[initiator'[i].checkout] = initiator'[i].id
  <2>1. CASE \E c \in CheckoutIds : PushAccepted(i, c)
    BY <1>t, <1>4, <2>1 DEF PushAccepted, SetInitiator
  <2>2. CASE initiator'[i] = initiator[i]
    <3>1. /\ initiator[i].checkout \in CheckoutIds
          /\ initiator[i].id \in SessionIds
          /\ owner[initiator[i].checkout] = initiator[i].id
      BY <1>t, <1>4, <2>2 DEF IInv, InitiatorInv, Checkout
    <3>2. prompt[initiator[i].checkout] # "unsent"
      BY <3>1, NoSessionAssumption DEF IInv, DarajaInv
    <3> QED
      BY <2>2, <3>1, <3>2, NextDaraja DEF DarajaStep
  <2> QED
    BY <1>t, <1>4, <2>1, <2>2, NextInitiators
       DEF InitiatorKept, NameSession, CreateSession, PushUncorrelated,
           SetInitiator
<1>5. ASSUME NEW i \in Initiators, NEW j \in Initiators,
             initiator'[i].pc = "created", initiator'[j].pc = "created",
             initiator'[i].id = initiator'[j].id
      PROVE  i = j
  <2>1. CASE initiator[i].pc = "created" /\ initiator[j].pc = "created"
    BY <1>2, <1>5, <2>1 DEF IInv, InitiatorInv
  <2>2. ASSUME NEW k \in Initiators, NEW l \in Initiators,
               CreateSession(k), initiator[l].pc = "created",
               initiator[k].id = initiator[l].id
        PROVE  FALSE
    BY <2>2 DEF CreateSession, Inserts, IInv, InitiatorInv
  <2>3. CASE CreateSession(i) /\ CreateSession(j)
    BY <1>t, <1>5, <2>3 DEF CreateSession, SetInitiator
  <2> QED
    BY <1>2, <1>5, <2>1, <2>2, <2>3
<1> QED
  BY <1>1, <1>3, <1>4, <1>5 DEF InitiatorInv

\* A handler's position is moved by its own steps, and by a crash.
HandlerStep(h) ==
  \/ handler'[h] = handler[h]
  \/ handler'[h].pc = "found" /\ \E c \in CheckoutIds : CallbackFinds(h, c)
  \/ handler'[h].pc = "applied" /\ CallbackApplies(h)
  \/ handler'[h].pc = "ignored" /\ CallbackIgnored(h)
  \/ handler'[h].pc \in {"unknown", "lost"}

LEMMA NextHandlers ==
  ASSUME IInv, [Next]_vars, NEW h \in Handlers
  PROVE  HandlerStep(h)
<1> USE DEF procs
<1>t. handler \in [Handlers -> [pc : HandlerPC, checkout : Checkout,
                                meta : BOOLEAN, id : Ids,
                                from : States \cup {"ABSENT"}]]
  BY DEF IInv, TypeOK
<1>1. ASSUME NEW i \in Initiators, Initiate(i)
      PROVE  handler' = handler
  BY <1>1 DEF Initiate, NameSession, CreateSession, CreateFails,
     PushAccepted, PushUncorrelated, PushRefused, MarkPushed,
     MarkPushedFails, MarkRejected
<1>2. ASSUME NEW g \in Handlers, HandleCallback(g), g # h
      PROVE  handler'[h] = handler[h]
  BY <1>t, <1>2 DEF HandleCallback, CallbackFinds, CallbackUnknown,
     CallbackApplies, CallbackIgnored, CallbackLost, FinishCallback,
     SetHandler
<1>3. CASE HandleCallback(h)
  BY <1>t, <1>3 DEF HandleCallback, CallbackFinds, CallbackUnknown,
     CallbackApplies, CallbackIgnored, CallbackLost, FinishCallback,
     SetHandler, HandlerStep
<1>4. ASSUME NEW r \in Redeemers, Gate(r)
      PROVE  handler' = handler
  BY <1>4 DEF Gate, GateChecks, GateDenies, GateConsumes, GateConsumeFails,
              GateServes, GateServeFails, SetRedeemer
<1>5. ASSUME NEW q \in SessionIds, TimerFires(q)
      PROVE  handler' = handler
  BY <1>5 DEF TimerFires
<1>6. ASSUME RunTicker
      PROVE  handler' = handler
  BY <1>6 DEF RunTicker, RecoveryLists, RecoveryListFails, RecoverySkips,
     RecoveryQueries, RecoveryApplies, RecoveryGivesUp, ExpiryPass,
     ExpiryFails
<1>7. CASE Crash
  BY <1>t, <1>7 DEF Crash, HandlerStep
<1>8. ASSUME Environment, ~Crash
      PROVE  handler' = handler
  BY <1>8 DEF Environment, PromptResolves, Matures, Expires
<1>9. CASE UNCHANGED vars
  BY <1>9 DEF vars, HandlerStep
<1> QED
  BY <1>1, <1>2, <1>3, <1>4, <1>5, <1>6, <1>7, <1>8, <1>9
  DEF Next, HandlerStep

LEMMA NextHandlerInv ==
  ASSUME IInv, [Next]_vars
  PROVE  HandlerInv'
<1> SUFFICES ASSUME NEW h \in Handlers, handler'[h].pc = "found"
             PROVE  /\ handler'[h].id \in SessionIds
                    /\ handler'[h].checkout \in CheckoutIds
                    /\ sessions'[handler'[h].id].checkout = handler'[h].checkout
                    /\ prompt'[handler'[h].checkout] \in ResultCodes
                    /\ handler'[h].meta => prompt'[handler'[h].checkout] = "0"
  BY DEF HandlerInv
<1>1. CASE handler'[h] = handler[h]
  <2>1. /\ handler[h].id \in SessionIds
        /\ handler[h].checkout \in CheckoutIds
        /\ sessions[handler[h].id].checkout = handler[h].checkout
        /\ prompt[handler[h].checkout] \in ResultCodes
        /\ handler[h].meta => prompt[handler[h].checkout] = "0"
    BY <1>1 DEF IInv, HandlerInv
  <2>2. Begun(handler[h].id)
    BY <2>1, NoCheckoutAssumption DEF IInv, UncorrelatedInv
  <2> QED
    BY <1>1, <2>1, <2>2, NextKeeps, NextDaraja DEF RowKept, DarajaStep
<1>2. ASSUME NEW c \in CheckoutIds, CallbackFinds(h, c)
      PROVE  /\ handler'[h].id \in SessionIds
             /\ handler'[h].checkout \in CheckoutIds
             /\ sessions'[handler'[h].id].checkout = handler'[h].checkout
             /\ prompt'[handler'[h].checkout] \in ResultCodes
             /\ handler'[h].meta => prompt'[handler'[h].checkout] = "0"
  BY <1>2 DEF CallbackFinds, FoundByCheckout, SetHandler, daraja, IInv, TypeOK
<1> QED
  BY <1>1, <1>2, NextHandlers DEF HandlerStep

LEMMA NextTicker ==
  ASSUME IInv, [Next]_vars
  PROVE  \/ UNCHANGED ticker
         \/ RunTicker
         \/ tick' = "idle" /\ work' = {}
<1> USE DEF procs, ticker
<1>1. ASSUME NEW i \in Initiators, Initiate(i)
      PROVE  UNCHANGED ticker
  BY <1>1 DEF Initiate, NameSession, CreateSession, CreateFails,
     PushAccepted, PushUncorrelated, PushRefused, MarkPushed,
     MarkPushedFails, MarkRejected
<1>2. ASSUME NEW h \in Handlers, HandleCallback(h)
      PROVE  UNCHANGED ticker
  BY <1>2 DEF HandleCallback, CallbackFinds, CallbackUnknown,
     CallbackApplies, CallbackIgnored, CallbackLost, FinishCallback
<1>3. ASSUME NEW r \in Redeemers, Gate(r)
      PROVE  UNCHANGED ticker
  BY <1>3 DEF Gate, GateChecks, GateDenies, GateConsumes, GateConsumeFails,
              GateServes, GateServeFails, SetRedeemer
<1>4. ASSUME NEW q \in SessionIds, TimerFires(q)
      PROVE  UNCHANGED ticker
  BY <1>4 DEF TimerFires
<1>5. CASE Environment
  BY <1>5 DEF Environment, PromptResolves, Matures, Expires, Crash
<1>6. CASE UNCHANGED vars
  BY <1>6 DEF vars
<1> QED
  BY <1>1, <1>2, <1>3, <1>4, <1>5, <1>6 DEF Next

\* What a snapshot and an answer are worth when nobody touches them.
LEMMA SnapshotsKept ==
  ASSUME IInv, [Next]_vars
  PROVE  /\ \A p \in work :
              /\ p.id \in SessionIds
              /\ sessions'[p.id].state \notin {"ABSENT", "CREATED"}
              /\ sessions'[p.id].checkout = p.checkout
         /\ tick = "answered" =>
              /\ sessions'[answer.id].checkout = answer.checkout
              /\ answer.code \in {StillProcessing, prompt'[answer.checkout]}
<1>1. ASSUME NEW p \in work
      PROVE  /\ p.id \in SessionIds
             /\ sessions'[p.id].state \notin {"ABSENT", "CREATED"}
             /\ sessions'[p.id].checkout = p.checkout
  <2>1. p.id \in SessionIds
    BY DEF IInv, TypeOK, Snapshot
  <2>2. Begun(p.id) /\ sessions[p.id].checkout = p.checkout
    BY DEF IInv, TickerInv
  <2> QED
    BY <2>1, <2>2, NextKeeps DEF RowKept
<1>2. ASSUME tick = "answered"
      PROVE  /\ sessions'[answer.id].checkout = answer.checkout
             /\ answer.code \in {StillProcessing, prompt'[answer.checkout]}
  <2>1. /\ answer.id \in SessionIds /\ answer.checkout \in CheckoutIds
        /\ answer.code \in Codes
        /\ sessions[answer.id].checkout = answer.checkout
        /\ answer.code \in {StillProcessing, prompt[answer.checkout]}
    BY <1>2 DEF IInv, TickerInv, Answer
  <2>2. Begun(answer.id)
    BY <2>1, NoCheckoutAssumption DEF IInv, UncorrelatedInv
  <2> QED
    BY <2>1, <2>2, NextKeeps, NextDaraja DEF RowKept, DarajaStep, Codes
<1> QED
  BY <1>1, <1>2

LEMMA NextTickerInv ==
  ASSUME IInv, [Next]_vars
  PROVE  TickerInv'
<1> USE DEF TickerInv, Begun
<1>t. work \in SUBSET Snapshot /\ tick \in {"idle", "recovering", "answered"}
  BY DEF IInv, TypeOK
<1>i. TickerInv
  BY DEF IInv
<1>1. CASE UNCHANGED ticker
  BY <1>1, <1>i, SnapshotsKept DEF ticker
<1>2. CASE tick' = "idle" /\ work' = {}
  BY <1>2
<1>3. CASE RecoveryLists
  BY <1>t, <1>3 DEF RecoveryLists, ListPending, Pending
<1>4. ASSUME NEW p \in work, RecoveryQueries(p)
      PROVE  TickerInv'
  <2>1. answer' \in Answer
    <3>1. TypeOK' /\ answer'.id # NoSession
      BY <1>t, <1>4, NextTypeOK, NoSessionAssumption
         DEF RecoveryQueries, Snapshot
    <3> QED
      BY <3>1 DEF TypeOK, NoAnswer
  <2>2. /\ p.id \in SessionIds /\ sessions'[p.id].checkout = p.checkout
        /\ answer'.id = p.id /\ answer'.checkout = p.checkout
        /\ answer'.code \in {StillProcessing, prompt[p.checkout]}
        /\ prompt' = prompt
    BY <1>4, SnapshotsKept DEF RecoveryQueries, daraja
  <2> QED
    BY <1>4, <2>1, <2>2, SnapshotsKept DEF RecoveryQueries
<1>5. CASE /\ tick' # "answered" /\ work' \in SUBSET work
  BY <1>5, SnapshotsKept
<1> QED
  BY <1>1, <1>2, <1>3, <1>4, <1>5, NextTicker
     DEF RunTicker, RecoveryListFails, RecoverySkips, RecoveryApplies,
         RecoveryGivesUp, ExpiryPass, ExpiryFails

LEMMA NextRedeemers ==
  ASSUME IInv, [Next]_vars, NEW r \in Redeemers
  PROVE  \/ redeemer'[r] = redeemer[r]
         \/ GateConsumes(r)
         \/ /\ GateServes(r)
            /\ redeemer[r].pc = "consumed"
            /\ redeemer'[r] = [pc |-> "served", id |-> redeemer[r].id]
         \/ /\ redeemer[r].pc # "served"
            /\ redeemer'[r].pc \notin {"consumed", "served"}
            /\ redeemer'[r].id \in SessionIds
<1> USE DEF procs
<1>t. /\ redeemer \in [Redeemers -> [pc : RedeemerPC, id : Ids]]
      /\ redeemer[r].pc # "idle" => redeemer[r].id \in SessionIds
  BY DEF IInv, TypeOK, RedeemerInv
<1>1. ASSUME NEW i \in Initiators, Initiate(i)
      PROVE  redeemer' = redeemer
  BY <1>1 DEF Initiate, NameSession, CreateSession, CreateFails,
     PushAccepted, PushUncorrelated, PushRefused, MarkPushed,
     MarkPushedFails, MarkRejected
<1>2. ASSUME NEW h \in Handlers, HandleCallback(h)
      PROVE  redeemer' = redeemer
  BY <1>2 DEF HandleCallback, CallbackFinds, CallbackUnknown,
     CallbackApplies, CallbackIgnored, CallbackLost, FinishCallback
<1>3. ASSUME NEW q \in Redeemers, Gate(q), q # r
      PROVE  redeemer'[r] = redeemer[r]
  BY <1>t, <1>3 DEF Gate, GateChecks, GateDenies, GateConsumes,
     GateConsumeFails, GateServes, GateServeFails, SetRedeemer
<1>4. CASE Gate(r) /\ ~GateConsumes(r)
  BY <1>t, <1>4 DEF Gate, GateChecks, GateDenies,
     GateConsumeFails, GateServes, GateServeFails, SetRedeemer
<1>5. ASSUME NEW q \in SessionIds, TimerFires(q)
      PROVE  redeemer' = redeemer
  BY <1>5 DEF TimerFires
<1>6. ASSUME RunTicker
      PROVE  redeemer' = redeemer
  BY <1>6 DEF RunTicker, RecoveryLists, RecoveryListFails, RecoverySkips,
     RecoveryQueries, RecoveryApplies, RecoveryGivesUp, ExpiryPass,
     ExpiryFails
<1>7. CASE Crash
  BY <1>t, <1>7 DEF Crash
<1>8. ASSUME Environment, ~Crash
      PROVE  redeemer' = redeemer
  BY <1>8 DEF Environment, PromptResolves, Matures, Expires
<1>9. CASE UNCHANGED vars
  BY <1>9 DEF vars
<1> QED
  BY <1>1, <1>2, <1>3, <1>4, <1>5, <1>6, <1>7, <1>8, <1>9 DEF Next

LEMMA NextRedeemerInv ==
  ASSUME IInv, [Next]_vars
  PROVE  RedeemerInv'
<1> DEFINE Won(r) == redeemer[r].pc \in {"consumed", "served"}
           WonNext(r) == redeemer'[r].pc \in {"consumed", "served"}
<1>t. /\ redeemer \in [Redeemers -> [pc : RedeemerPC, id : Ids]]
      /\ sessions \in [SessionIds -> Record]
      /\ RedeemerInv
  BY DEF IInv, TypeOK
<1>1. ASSUME NEW r \in Redeemers, GateConsumes(r)
      PROVE  /\ redeemer'[r].id = redeemer[r].id
             /\ redeemer[r].id \in SessionIds
             /\ sessions[redeemer[r].id].state = "CONFIRMED"
             /\ sessions'[redeemer[r].id].state = "CONSUMED"
  BY <1>t, <1>1 DEF GateConsumes, SetRedeemer, Matches, Updated, RedeemerInv
<1>2. ASSUME NEW r \in Redeemers, WonNext(r)
      PROVE  /\ redeemer'[r].id = redeemer[r].id
             /\ redeemer[r].id \in SessionIds
             /\ Won(r) \/ GateConsumes(r)
  <2>1. CASE GateConsumes(r)
    BY <1>1, <2>1
  <2>2. CASE ~GateConsumes(r)
    <3>1. \/ redeemer'[r] = redeemer[r]
          \/ /\ redeemer[r].pc = "consumed"
             /\ redeemer'[r] = [pc |-> "served", id |-> redeemer[r].id]
          \/ redeemer'[r].pc \notin {"consumed", "served"}
      BY <2>2, NextRedeemers
    <3>2. /\ redeemer'[r].id = redeemer[r].id
          /\ Won(r)
      BY <1>2, <3>1
    <3> QED
      BY <1>t, <3>2 DEF RedeemerInv
  <2> QED
    BY <2>1, <2>2
<1>3. ASSUME NEW r \in Redeemers
      PROVE  redeemer'[r].pc # "idle" => redeemer'[r].id \in SessionIds
  <2>1. CASE redeemer'[r] = redeemer[r]
    BY <1>t, <2>1 DEF RedeemerInv
  <2>2. CASE WonNext(r)
    BY <1>2, <2>2
  <2>3. CASE redeemer'[r] # redeemer[r] /\ ~WonNext(r)
    <3>1. \/ GateConsumes(r)
          \/ redeemer'[r] = [pc |-> "served", id |-> redeemer[r].id]
          \/ redeemer'[r].id \in SessionIds
      BY <2>3, NextRedeemers
    <3>2. CASE GateConsumes(r)
      BY <1>1, <3>2
    <3> QED
      BY <2>3, <3>1, <3>2
  <2> QED
    BY <2>1, <2>2, <2>3
<1>4. ASSUME NEW r \in Redeemers, WonNext(r)
      PROVE  sessions'[redeemer'[r].id].state = "CONSUMED"
  <2>1. CASE Won(r)
    BY <1>t, <1>2, <1>4, <2>1, NextKeeps
       DEF RedeemerInv, RowKept, IsTerminal, Terminal
  <2>2. CASE GateConsumes(r)
    BY <1>1, <2>2
  <2> QED
    BY <1>2, <1>4, <2>1, <2>2
<1>5. ASSUME NEW r1 \in Redeemers, NEW r2 \in Redeemers,
             WonNext(r1), WonNext(r2), redeemer'[r1].id = redeemer'[r2].id
      PROVE  r1 = r2
  <2>1. redeemer[r1].id = redeemer[r2].id
    BY <1>2, <1>5
  <2>2. CASE Won(r1) /\ Won(r2)
    BY <1>t, <2>1, <2>2 DEF RedeemerInv
  <2>3. ASSUME NEW r \in Redeemers, NEW q \in Redeemers,
               GateConsumes(r), Won(q), redeemer[q].id = redeemer[r].id
        PROVE  FALSE
    BY <1>t, <1>1, <2>3 DEF RedeemerInv
  <2>4. CASE GateConsumes(r1) /\ GateConsumes(r2)
    BY <1>t, <2>4 DEF GateConsumes, SetRedeemer
  <2> QED
    BY <1>2, <1>5, <2>1, <2>2, <2>3, <2>4
<1> QED
  BY <1>3, <1>4, <1>5 DEF RedeemerInv

-----------------------------------------------------------------------------
(* The inductive invariant and its theorems.                               *)

LEMMA InitIInv == Init => IInv
<1> SUFFICES ASSUME Init PROVE IInv
  OBVIOUS
<1>1. TypeOK
  BY InitTypeOK
<1>2. InitiatorInv /\ DarajaInv /\ OnePromptPerSession
  BY DEF Init, InitiatorInv, DarajaInv, OnePromptPerSession
<1>3. UncorrelatedInv /\ CorrelationSound /\ OutcomeAgreement
  BY DEF Init, NoRecord, UncorrelatedInv, CorrelationSound, OutcomeAgreement
<1>4. HandlerInv /\ TickerInv /\ RedeemerInv
  BY DEF Init, HandlerInv, TickerInv, RedeemerInv
<1> QED
  BY <1>1, <1>2, <1>3, <1>4 DEF IInv

LEMMA NextIInv == IInv /\ [Next]_vars => IInv'
BY NextTypeOK, NextInitiatorInv, NextDarajaInv, NextOnePrompt,
   NextUncorrelated, NextCorrelation, NextOutcome, NextHandlerInv,
   NextTickerInv, NextRedeemerInv DEF IInv

\* The inductive invariant holds in every reachable state.
THEOREM Invariance == Spec => []IInv
BY InitIInv, NextIInv, PTL DEF Spec

\* Every variable keeps its type.
THEOREM TypeCorrect == Spec => []TypeOK
<1>1. IInv => TypeOK
  BY DEF IInv
<1> QED
  BY <1>1, Invariance, PTL

\* A request that was served won the UPDATE of its session, and no other did.
THEOREM AtMostOneRelease == Spec => []SingleRelease
<1>1. IInv => SingleRelease
  BY DEF IInv, RedeemerInv, SingleRelease
<1> QED
  BY <1>1, Invariance, PTL

LEMMA ServedIsPaid ==
  ASSUME IInv, NEW r \in Redeemers, redeemer[r].pc = "served"
  PROVE  /\ redeemer[r].id \in SessionIds
         /\ \E c \in CheckoutIds :
              owner[c] = redeemer[r].id /\ prompt[c] = "0"
<1> DEFINE s == redeemer[r].id
           c == sessions[s].checkout
<1>1. s \in SessionIds /\ sessions[s].state = "CONSUMED"
  BY DEF IInv, RedeemerInv
<1>2. c # NoCheckout /\ prompt[c] = "0"
  BY <1>1 DEF IInv, OutcomeAgreement
<1>3. c \in CheckoutIds /\ owner[c] = s
  BY <1>1, <1>2 DEF IInv, TypeOK, Record, Checkout, CorrelationSound
<1> QED
  BY <1>1, <1>2, <1>3

\* Nothing is released without the payer's PIN on the session's own prompt.
THEOREM NoReleaseUnpaid == Spec => []ReleasedOnlyIfPaid
<1>1. IInv => ReleasedOnlyIfPaid
  BY ServedIsPaid DEF ReleasedOnlyIfPaid, Paid
<1> QED
  BY <1>1, Invariance, PTL

\* The rows agree with Daraja: on what became of the prompts, on whom they
\* were opened for, and that there is one for each session.
THEOREM OutcomesAgree == Spec => []OutcomeAgreement
<1>1. IInv => OutcomeAgreement
  BY DEF IInv
<1> QED
  BY <1>1, Invariance, PTL

THEOREM Correlated == Spec => []CorrelationSound
<1>1. IInv => CorrelationSound
  BY DEF IInv
<1> QED
  BY <1>1, Invariance, PTL

THEOREM OnePrompt == Spec => []OnePromptPerSession
<1>1. IInv => OnePromptPerSession
  BY DEF IInv
<1> QED
  BY <1>1, Invariance, PTL

\* No step of any goroutine rewrites a terminal row, replaces a checkout id,
\* or drops a receipt.
THEOREM Settled == Spec => RecordsSettle
<1>1. ASSUME IInv, [Next]_vars, NEW s \in SessionIds
      PROVE  /\ IsTerminal(sessions[s].state) => sessions'[s] = sessions[s]
             /\ sessions[s].checkout # NoCheckout =>
                  sessions'[s].checkout = sessions[s].checkout
             /\ sessions[s].receipt => sessions'[s].receipt
  BY <1>1, NextKeeps DEF RowKept, IInv, UncorrelatedInv
<1>2. IInv /\ [Next]_vars =>
        [\A s \in SessionIds :
           /\ IsTerminal(sessions[s].state) => sessions'[s] = sessions[s]
           /\ sessions[s].checkout # NoCheckout =>
                sessions'[s].checkout = sessions[s].checkout
           /\ sessions[s].receipt => sessions'[s].receipt]_sessions
  BY <1>1
<1> QED
  BY <1>2, Invariance, PTL DEF Spec, RecordsSettle

-----------------------------------------------------------------------------
(* Timeouts.                                                               *)

LEMMA NextAge ==
  ASSUME IInv, [Next]_vars, NEW s \in SessionIds, age[s] = "expired"
  PROVE  age'[s] = "expired"
<1>t. age \in [SessionIds -> Ages]
  BY DEF IInv, TypeOK
<1>1. ASSUME NEW q \in SessionIds, Matures(q) \/ Expires(q)
      PROVE  age'[s] = "expired"
  BY <1>t, <1>1 DEF Matures, Expires
<1>2. ASSUME NEW i \in Initiators, Initiate(i)
      PROVE  age' = age
  BY <1>2 DEF Initiate, NameSession, CreateSession, CreateFails,
     PushAccepted, PushUncorrelated, PushRefused, MarkPushed,
     MarkPushedFails, MarkRejected
<1>3. ASSUME NEW h \in Handlers, HandleCallback(h)
      PROVE  age' = age
  BY <1>3 DEF HandleCallback, CallbackFinds, CallbackUnknown,
     CallbackApplies, CallbackIgnored, CallbackLost, FinishCallback
<1>4. ASSUME NEW r \in Redeemers, Gate(r)
      PROVE  age' = age
  BY <1>4 DEF Gate, GateChecks, GateDenies, GateConsumes, GateConsumeFails,
              GateServes, GateServeFails, SetRedeemer
<1>5. ASSUME NEW q \in SessionIds, TimerFires(q)
      PROVE  age' = age
  BY <1>5 DEF TimerFires
<1>6. ASSUME RunTicker
      PROVE  age' = age
  BY <1>6 DEF RunTicker, RecoveryLists, RecoveryListFails, RecoverySkips,
     RecoveryQueries, RecoveryApplies, RecoveryGivesUp, ExpiryPass,
     ExpiryFails
<1>7. ASSUME Crash \/ \E c \in CheckoutIds : PromptResolves(c)
      PROVE  age' = age
  BY <1>7 DEF Crash, PromptResolves
<1>8. CASE UNCHANGED vars
  BY <1>8 DEF vars
<1> QED
  BY <1>1, <1>2, <1>3, <1>4, <1>5, <1>6, <1>7, <1>8 DEF Next, Environment

LEMMA NextNoEarlyTimeout ==
  ASSUME IInv, NoEarlyTimeout, [Next]_vars
  PROVE  NoEarlyTimeout'
<1> SUFFICES ASSUME NEW s \in SessionIds, sessions'[s].state = "TIMEOUT"
             PROVE  \/ age'[s] = "expired"
                    \/ sessions'[s].checkout # NoCheckout
                       /\ prompt'[sessions'[s].checkout] = "1037"
  BY DEF NoEarlyTimeout
<1>1. /\ sessions[s] \in Record
      /\ sessions[s].checkout # NoCheckout =>
           sessions[s].checkout \in CheckoutIds
  BY DEF IInv, TypeOK, Record, Checkout
<1>2. CASE sessions'[s] = sessions[s]
  BY <1>1, <1>2, NextAge, NextDaraja
     DEF NoEarlyTimeout, DarajaStep, ResultCodes
<1>3. CASE RowExpired(s)
  BY <1>3, NextAge DEF RowExpired
<1>4. CASE RowResolved(s)
  BY <1>4, NextDaraja, NoCheckoutAssumption
     DEF RowResolved, Resolution, DarajaStep, ResultCodes
<1> QED
  BY <1>2, <1>3, <1>4, NextRows
     DEF RowStep, RowCreated, RowPushed, RowRejected, RowConsumed, RowAwaiting

\* A session times out after its ExpiresAt or by Safaricom's word.
THEOREM TimeoutsAreDue == Spec => []NoEarlyTimeout
<1>1. Init => NoEarlyTimeout
  BY DEF Init, NoRecord, NoEarlyTimeout
<1>2. IInv /\ NoEarlyTimeout /\ [Next]_vars => NoEarlyTimeout'
  BY NextNoEarlyTimeout
<1> QED
  BY <1>1, <1>2, Invariance, PTL DEF Spec

-----------------------------------------------------------------------------
(* What a callback wrote.                                                  *)

\* The row of an applied callback: its prompt was answered, the state agrees,
\* the receipt is there.
SettledBy(h) ==
  LET row     == sessions[handler[h].id]
      outcome == prompt[handler[h].checkout] IN
  /\ handler[h].id \in SessionIds
  /\ handler[h].checkout \in CheckoutIds
  /\ outcome \in ResultCodes
  /\ row.checkout = handler[h].checkout
  /\ outcome = "0" => row.state \in {"CONFIRMED", "CONSUMED", "TIMEOUT"}
  /\ outcome = "1032" => row.state = "CANCELLED"
  /\ outcome = "1037" => row.state = "TIMEOUT"
  /\ outcome = "2001" => row.state = "FAILED"
  /\ handler[h].meta => row.receipt

AppliedOnce ==
  \A h1, h2 \in Handlers :
    /\ handler[h1].pc = "applied" /\ handler[h2].pc = "applied"
    /\ handler[h1].checkout = handler[h2].checkout
    => h1 = h2

AppliedInv ==
  /\ \A h \in Handlers : handler[h].pc = "applied" => SettledBy(h)
  /\ AppliedOnce

\* The transition writes the state its prompt's answer stands for, and the
\* receipt if there is one.
LEMMA ApplyStep ==
  ASSUME IInv, NEW h \in Handlers, CallbackApplies(h)
  PROVE  /\ SettledBy(h)'
         /\ sessions[handler[h].id].state \in Pending
         /\ handler'[h].checkout = handler[h].checkout
<1> DEFINE id == handler[h].id
           c  == handler[h].checkout
<1>1. /\ id \in SessionIds /\ c \in CheckoutIds
      /\ handler[h].meta \in BOOLEAN
      /\ sessions \in [SessionIds -> Record]
      /\ sessions[id].checkout = c
      /\ prompt[c] \in ResultCodes
      /\ handler[h].meta => prompt[c] = "0"
  BY DEF CallbackApplies, IInv, HandlerInv, TypeOK
<1>2. /\ handler'[h].id = id /\ handler'[h].checkout = c
      /\ handler'[h].meta = handler[h].meta
      /\ prompt' = prompt
  BY DEF CallbackApplies, FinishCallback, daraja, IInv, TypeOK
<1>3. PICK t \in validTransitions :
        /\ t[2] = resultCodeToEvent(prompt[c])
        /\ sessions[id].state = t[1]
        /\ sessions' = Updated(sessions, id, t[3],
                               ReceiptUpdate(handler[h].meta))
  BY DEF CallbackApplies, CallbackEvent, Fires, Matches
<1>4. /\ sessions'[id].state = t[3]
      /\ sessions'[id].checkout = c
      /\ handler[h].meta => sessions'[id].receipt
  BY <1>1, <1>3 DEF Updated, ReceiptUpdate
<1>5. /\ t[1] \in Pending
      /\ prompt[c] = "0" => t[3] = "CONFIRMED"
      /\ prompt[c] = "1032" => t[3] = "CANCELLED"
      /\ prompt[c] = "1037" => t[3] = "TIMEOUT"
      /\ prompt[c] = "2001" => t[3] = "FAILED"
  BY <1>1, <1>3, TableEvents DEF resultCodeToEvent, ResultCodes
<1> QED
  BY <1>1, <1>2, <1>3, <1>4, <1>5 DEF SettledBy

\* No step of another goroutine undoes it: the row is terminal, or CONFIRMED
\* and left for CONSUMED or TIMEOUT.
LEMMA SettledStays ==
  ASSUME IInv, [Next]_vars, NEW h \in Handlers, SettledBy(h),
         handler'[h] = handler[h]
  PROVE  SettledBy(h)'
<1> DEFINE id == handler[h].id
           c  == handler[h].checkout
<1>1. id \in SessionIds /\ c \in CheckoutIds /\ prompt[c] \in ResultCodes
  BY DEF SettledBy
<1>2. prompt'[c] = prompt[c]
  BY <1>1, NextDaraja DEF DarajaStep
<1>3. RowStep(id) /\ RowKept(id)
  BY <1>1, NextRows, NextKeeps
<1>4. Begun(id)
  BY <1>1 DEF SettledBy, Begun, ResultCodes
<1>5. /\ sessions'[id].checkout = c
      /\ handler[h].meta => sessions'[id].receipt
  BY <1>3, <1>4 DEF RowKept, SettledBy
<1>6. CASE sessions[id].state = "CONFIRMED"
  <2>1. sessions'[id].state \in {"CONFIRMED", "CONSUMED", "TIMEOUT"}
    BY <1>3, <1>6 DEF RowStep, RowCreated, RowPushed, RowRejected,
       RowExpired, RowConsumed, RowAwaiting, RowResolved, Pending
  <2>2. prompt[c] = "0"
    BY <1>1, <1>6 DEF SettledBy, ResultCodes
  <2> QED
    BY <1>1, <1>2, <1>5, <2>1, <2>2 DEF SettledBy
<1>7. CASE sessions[id].state # "CONFIRMED"
  <2>1. IsTerminal(sessions[id].state)
    BY <1>1, <1>7 DEF SettledBy, ResultCodes, IsTerminal, Terminal
  <2>2. sessions'[id] = sessions[id]
    BY <1>3, <2>1 DEF RowKept
  <2> QED
    BY <1>1, <1>2, <1>5, <2>2 DEF SettledBy
<1> QED
  BY <1>6, <1>7

\* A second callback of the same prompt found the same row, which is no
\* longer pending.
LEMMA AppliedRefuses ==
  ASSUME IInv, NEW g \in Handlers, SettledBy(g),
         NEW h \in Handlers, CallbackApplies(h),
         handler[g].checkout = handler[h].checkout
  PROVE  FALSE
<1>1. sessions[handler[h].id].state \in Pending
  BY ApplyStep
<1>2. /\ handler[h].id \in SessionIds
      /\ sessions[handler[h].id].checkout = handler[h].checkout
  BY DEF CallbackApplies, IInv, HandlerInv
<1>3. /\ handler[g].id \in SessionIds
      /\ handler[g].checkout \in CheckoutIds
      /\ sessions[handler[g].id].checkout = handler[g].checkout
      /\ sessions[handler[g].id].state \notin Pending
  BY DEF SettledBy, ResultCodes, Pending
<1>4. handler[g].id = handler[h].id
  BY <1>2, <1>3, NoCheckoutAssumption DEF IInv, CorrelationSound
<1> QED
  BY <1>1, <1>3, <1>4

LEMMA NextAppliedInv ==
  ASSUME IInv, AppliedInv, [Next]_vars
  PROVE  AppliedInv'
<1>1. ASSUME NEW h \in Handlers, handler'[h].pc = "applied"
      PROVE  \/ CallbackApplies(h)
             \/ /\ handler'[h] = handler[h]
                /\ handler[h].pc = "applied"
                /\ SettledBy(h)
  BY <1>1, NextHandlers DEF HandlerStep, AppliedInv
<1>2. ASSUME NEW h \in Handlers, handler'[h].pc = "applied"
      PROVE  SettledBy(h)'
  BY <1>1, <1>2, ApplyStep, SettledStays
<1>3. ASSUME NEW g \in Handlers, NEW h \in Handlers,
             CallbackApplies(g), CallbackApplies(h)
      PROVE  g = h
  BY <1>3 DEF CallbackApplies, FinishCallback, IInv, TypeOK
<1>4. ASSUME NEW g \in Handlers, NEW h \in Handlers,
             handler'[g].pc = "applied", handler'[h].pc = "applied",
             handler'[g].checkout = handler'[h].checkout
      PROVE  g = h
  <2>1. CASE CallbackApplies(g) /\ CallbackApplies(h)
    BY <1>3, <2>1
  <2>2. ASSUME NEW k \in Handlers, NEW l \in Handlers,
               SettledBy(k), handler'[k] = handler[k], CallbackApplies(l),
               handler'[k].checkout = handler'[l].checkout
        PROVE  FALSE
    BY <2>2, ApplyStep, AppliedRefuses
  <2>3. CASE ~CallbackApplies(g) /\ ~CallbackApplies(h)
    BY <1>1, <1>4, <2>3 DEF AppliedInv, AppliedOnce
  <2> QED
    BY <1>1, <1>4, <2>1, <2>2, <2>3
<1> QED
  BY <1>2, <1>4 DEF AppliedInv, AppliedOnce

\* An applied callback is the only one of its prompt, and what it wrote stays.
THEOREM AppliedForGood == Spec => []AppliedSticks
<1>1. Init => AppliedInv
  BY DEF Init, AppliedInv, AppliedOnce
<1>2. IInv /\ AppliedInv /\ [Next]_vars => AppliedInv'
  BY NextAppliedInv
<1>3. AppliedInv => AppliedSticks
  BY DEF AppliedInv, AppliedOnce, SettledBy, AppliedSticks
<1> QED
  BY <1>1, <1>2, <1>3, Invariance, PTL DEF Spec

-----------------------------------------------------------------------------
(* Dropped callbacks.                                                      *)

\* Every outcome Safaricom reports has an edge from both pending states.
LEMMA TableTotal ==
  ASSUME NEW from \in Pending, NEW code
  PROVE  \E t \in validTransitions :
           t[1] = from /\ t[2] = resultCodeToEvent(code)
<1>1. resultCodeToEvent(code) \in {"CALLBACK_SUCCESS", "CALLBACK_CANCELLED",
                                   "CALLBACK_TIMEOUT", "CALLBACK_FAILED"}
  BY DEF resultCodeToEvent
<1>2. ASSUME NEW event \in {"CALLBACK_SUCCESS", "CALLBACK_CANCELLED",
                            "CALLBACK_TIMEOUT", "CALLBACK_FAILED"}
      PROVE  \E t \in validTransitions : t[1] = from /\ t[2] = event
  <2>1. \E to : <<from, event, to>> \in validTransitions
    BY <1>2 DEF Pending, validTransitions
  <2> QED
    BY <2>1
<1> QED
  BY <1>1, <1>2

\* A row only moves on from the state a handler read: never back to
\* STK_PUSHED, and never back to pending.
MovedOn(h) ==
  LET state == sessions[handler[h].id].state IN
  /\ handler[h].id \in SessionIds
  /\ state \notin {"ABSENT", "CREATED"}
  /\ state = "STK_PUSHED" => handler[h].from = "STK_PUSHED"
  /\ state \in Pending => handler[h].from \in Pending

Dropped(h) ==
  LET state == sessions[handler[h].id].state IN
  /\ state # "STK_PUSHED"
  /\ state = "AWAITING_PIN" => handler[h].from = "STK_PUSHED"

DroppedInv ==
  \A h \in Handlers :
    /\ handler[h].pc \in {"found", "ignored"} => MovedOn(h)
    /\ handler[h].pc = "ignored" => Dropped(h)

\* What a begun row leads to.
LEMMA BegunMovesOn ==
  ASSUME IInv, [Next]_vars, NEW s \in SessionIds, Begun(s)
  PROVE  /\ sessions'[s].state \notin {"ABSENT", "CREATED"}
         /\ sessions'[s].state = "STK_PUSHED" =>
              sessions[s].state = "STK_PUSHED"
         /\ sessions'[s].state \in Pending => sessions[s].state \in Pending
<1>1. RowStep(s) /\ RowKept(s)
  BY NextRows, NextKeeps
<1> QED
  BY <1>1 DEF Begun, RowKept, RowStep, RowCreated, RowPushed, RowRejected,
     RowExpired, RowConsumed, RowAwaiting, RowResolved, Resolution, Pending

LEMMA NextDroppedInv ==
  ASSUME IInv, DroppedInv, [Next]_vars
  PROVE  DroppedInv'
<1> SUFFICES ASSUME NEW h \in Handlers,
                    handler'[h].pc \in {"found", "ignored"}
             PROVE  /\ MovedOn(h)'
                    /\ handler'[h].pc = "ignored" => Dropped(h)'
  BY DEF DroppedInv
<1>1. CASE handler'[h] = handler[h]
  <2>1. /\ MovedOn(h)
        /\ handler[h].pc = "ignored" => Dropped(h)
    BY <1>1 DEF DroppedInv
  <2>2. handler[h].id \in SessionIds /\ Begun(handler[h].id)
    BY <2>1 DEF MovedOn, Begun
  <2> QED
    BY <1>1, <2>1, <2>2, BegunMovesOn DEF MovedOn, Dropped, Pending
<1>2. ASSUME NEW c \in CheckoutIds, CallbackFinds(h, c)
      PROVE  MovedOn(h)' /\ handler'[h].pc = "found"
  <2>1. PICK id \in FoundByCheckout(sessions, c), meta \in BOOLEAN :
          SetHandler(h, "found", c, meta, id, sessions[id].state)
    BY <1>2 DEF CallbackFinds
  <2>2. /\ handler'[h].pc = "found" /\ handler'[h].id = id
        /\ handler'[h].from = sessions[id].state
        /\ sessions' = sessions
    BY <1>2, <2>1 DEF CallbackFinds, SetHandler, IInv, TypeOK
  <2>3. id \in SessionIds /\ sessions[id].checkout = c
    BY DEF FoundByCheckout
  <2>4. sessions[id].state \notin {"ABSENT", "CREATED"}
    BY <2>3, NoCheckoutAssumption DEF IInv, UncorrelatedInv, Begun
  <2> QED
    BY <2>2, <2>3, <2>4 DEF MovedOn, Pending
<1>3. ASSUME CallbackIgnored(h)
      PROVE  MovedOn(h)' /\ Dropped(h)'
  <2>1. /\ handler'[h].id = handler[h].id
        /\ handler'[h].from = handler[h].from
        /\ handler[h].pc = "found"
        /\ sessions' = sessions
    BY <1>3 DEF CallbackIgnored, FinishCallback, Refuses, IInv, TypeOK
  <2>2. MovedOn(h)
    BY <2>1 DEF DroppedInv
  <2>3. CASE ~Matches(sessions, handler[h].id, handler[h].from)
    BY <2>1, <2>2, <2>3 DEF Matches, MovedOn, Dropped, Pending
  <2>4. CASE \A t \in validTransitions :
               ~(t[1] = handler[h].from /\ t[2] = CallbackEvent(h))
    <3>1. handler[h].from \notin Pending
      BY <2>4, TableTotal DEF CallbackEvent
    <3> QED
      BY <2>1, <2>2, <3>1 DEF MovedOn, Dropped, Pending
  <2> QED
    BY <1>3, <2>3, <2>4 DEF CallbackIgnored, Refuses
<1> QED
  BY <1>1, <1>2, <1>3, NextHandlers DEF HandlerStep

\* A callback that is dropped has met a session that was resolved, or one that
\* a query took from STK_PUSHED to AWAITING_PIN meanwhile.
THEOREM DroppedCallbacks == Spec => []DroppedOnlyIfMoved
<1>1. Init => DroppedInv
  BY DEF Init, DroppedInv
<1>2. IInv /\ DroppedInv /\ [Next]_vars => DroppedInv'
  BY NextDroppedInv
<1>3. ASSUME IInv, DroppedInv PROVE DroppedOnlyIfMoved
  <2> SUFFICES ASSUME NEW h \in Handlers, handler[h].pc = "ignored"
               PROVE  LET state == sessions[handler[h].id].state IN
                      /\ state \in Terminal \cup {"CONFIRMED", "AWAITING_PIN"}
                      /\ state = "AWAITING_PIN" =>
                           handler[h].from = "STK_PUSHED"
    BY DEF DroppedOnlyIfMoved
  <2>1. MovedOn(h) /\ Dropped(h)
    BY <1>3 DEF DroppedInv
  <2>2. sessions[handler[h].id].state \in States \cup {"ABSENT"}
    BY <1>3, <2>1 DEF MovedOn, IInv, TypeOK, Record
  <2> QED
    BY <2>1, <2>2 DEF MovedOn, Dropped, States, Terminal
<1>4. IInv /\ DroppedInv => DroppedOnlyIfMoved
  BY <1>3
<1> QED
  BY <1>1, <1>2, <1>4, Invariance, PTL DEF Spec

-----------------------------------------------------------------------------
(* Refinement.                                                             *)

LEMMA InitRefines == Init => Promise!Init
BY DEF Init, Promise!Init, PaidSessions, ServedFor

LEMMA ServedForStep ==
  ASSUME IInv, [Next]_vars, \A r \in Redeemers : ~GateServes(r)
  PROVE  ServedFor' = ServedFor
<1>1. ASSUME NEW r \in Redeemers
      PROVE  \/ redeemer'[r] = redeemer[r]
             \/ /\ redeemer'[r].pc # "served"
                /\ redeemer[r].pc # "served"
  <2>1. CASE GateConsumes(r)
    BY <2>1 DEF GateConsumes, SetRedeemer, IInv, TypeOK
  <2> QED
    BY <2>1, NextRedeemers
<1> QED
  BY <1>1 DEF ServedFor

LEMMA PaidStep ==
  ASSUME IInv, [Next]_vars
  PROVE  \/ PaidSessions' = PaidSessions
         \/ \E c \in CheckoutIds : PromptResolves(c)
<1> USE DEF daraja, procs, ticker
<1>1. ASSUME NEW i \in Initiators, NEW c \in CheckoutIds, PushAccepted(i, c)
      PROVE  PaidSessions' = PaidSessions
  <2>1. \A d \in CheckoutIds :
          /\ prompt'[d] = "0" <=> prompt[d] = "0"
          /\ prompt[d] = "0" => owner'[d] = owner[d]
    BY <1>1 DEF PushAccepted, IInv, TypeOK
  <2> QED
    BY <2>1 DEF PaidSessions
<1>2. ASSUME UNCHANGED daraja
      PROVE  PaidSessions' = PaidSessions
  BY <1>2 DEF PaidSessions
<1>3. ASSUME NEW i \in Initiators, Initiate(i)
      PROVE  \/ \E c \in CheckoutIds : PushAccepted(i, c)
             \/ UNCHANGED daraja
  BY <1>3 DEF Initiate, NameSession, CreateSession, CreateFails,
     PushUncorrelated, PushRefused, MarkPushed, MarkPushedFails, MarkRejected
<1>4. ASSUME NEW h \in Handlers, HandleCallback(h)
      PROVE  UNCHANGED daraja
  BY <1>4 DEF HandleCallback, CallbackFinds, CallbackUnknown,
     CallbackApplies, CallbackIgnored, CallbackLost, FinishCallback
<1>5. ASSUME NEW r \in Redeemers, Gate(r)
      PROVE  UNCHANGED daraja
  BY <1>5 DEF Gate, GateChecks, GateDenies, GateConsumes, GateConsumeFails,
              GateServes, GateServeFails, SetRedeemer
<1>6. ASSUME NEW q \in SessionIds, TimerFires(q)
      PROVE  UNCHANGED daraja
  BY <1>6 DEF TimerFires
<1>7. ASSUME RunTicker
      PROVE  UNCHANGED daraja
  BY <1>7 DEF RunTicker, RecoveryLists, RecoveryListFails, RecoverySkips,
     RecoveryQueries, RecoveryApplies, RecoveryGivesUp, ExpiryPass,
     ExpiryFails
<1>8. ASSUME Crash \/ \E s \in SessionIds : Matures(s) \/ Expires(s)
      PROVE  UNCHANGED daraja
  BY <1>8 DEF Crash, Matures, Expires
<1>9. CASE UNCHANGED vars
  BY <1>2, <1>9 DEF vars
<1> QED
  BY <1>1, <1>2, <1>3, <1>4, <1>5, <1>6, <1>7, <1>8, <1>9
     DEF Next, Environment

LEMMA StepRefines ==
  ASSUME IInv, [Next]_vars
  PROVE  [Promise!Next]_<<PaidSessions, ServedFor>>
<1>1. ASSUME NEW r \in Redeemers, GateServes(r)
      PROVE  Promise!Next
  <2> DEFINE s == redeemer[r].id
  <2>1. /\ redeemer[r].pc = "consumed"
        /\ redeemer' = [redeemer EXCEPT ![r] = [pc |-> "served", id |-> s]]
        /\ PaidSessions' = PaidSessions
        /\ s \in SessionIds
        /\ sessions[s].state = "CONSUMED"
    BY <1>1 DEF GateServes, SetRedeemer, daraja, PaidSessions, IInv,
                RedeemerInv
  <2>2. s \in PaidSessions
    <3>1. /\ sessions[s].checkout \in CheckoutIds
          /\ prompt[sessions[s].checkout] = "0"
          /\ owner[sessions[s].checkout] = s
      BY <2>1 DEF IInv, OutcomeAgreement, CorrelationSound, TypeOK, Record,
                  Checkout
    <3> QED
      BY <3>1 DEF PaidSessions
  <2>3. ServedFor[r] = NoSession
    BY <2>1 DEF ServedFor
  <2>4. \A other \in Redeemers : ServedFor[other] # s
    BY <2>1, NoSessionAssumption DEF ServedFor, IInv, RedeemerInv
  <2>5. ServedFor' = [ServedFor EXCEPT ![r] = s]
    <3>1. redeemer \in [Redeemers -> [pc : RedeemerPC, id : Ids]]
      BY DEF IInv, TypeOK
    <3> QED
      BY <2>1, <3>1 DEF ServedFor
  <2>6. Promise!Grant(r, s)
    BY <2>1, <2>2, <2>3, <2>4, <2>5 DEF Promise!Grant
  <2> QED
    BY <2>1, <2>6 DEF Promise!Next
<1>2. ASSUME NEW c \in CheckoutIds, PromptResolves(c)
      PROVE  [Promise!Next]_<<PaidSessions, ServedFor>>
  <2>1. PICK code \in ResultCodes : prompt' = [prompt EXCEPT ![c] = code]
    BY <1>2 DEF PromptResolves
  <2>2. /\ ServedFor' = ServedFor
        /\ owner' = owner
        /\ prompt[c] = "pending"
        /\ prompt \in [CheckoutIds -> ResultCodes \cup {"unsent", "pending"}]
    BY <1>2 DEF PromptResolves, procs, ServedFor, IInv, TypeOK
  <2>3. CASE code # "0"
    <3>1. \A d \in CheckoutIds : prompt'[d] = "0" <=> prompt[d] = "0"
      BY <2>1, <2>2, <2>3
    <3> QED
      BY <2>2, <3>1 DEF PaidSessions
  <2>4. CASE code = "0"
    <3>1. \A d \in CheckoutIds :
            prompt'[d] = "0" <=> prompt[d] = "0" \/ d = c
      BY <2>1, <2>2, <2>4
    <3>2. PaidSessions' = PaidSessions \cup {owner[c]}
      BY <2>2, <3>1 DEF PaidSessions
    <3>3. owner[c] \in SessionIds
      BY <2>2 DEF IInv, DarajaInv, TypeOK, Ids
    <3>4. owner[c] \notin PaidSessions
      BY <2>2, <3>3, NoSessionAssumption
         DEF PaidSessions, IInv, OnePromptPerSession
    <3> QED
      BY <2>2, <3>2, <3>3, <3>4 DEF Promise!Next, Promise!Pay
  <2> QED
    BY <2>3, <2>4
<1>3. CASE /\ \A r \in Redeemers : ~GateServes(r)
           /\ \A c \in CheckoutIds : ~PromptResolves(c)
  BY <1>3, ServedForStep, PaidStep
<1> QED
  BY <1>1, <1>2, <1>3

\* The payment flow implements the one-time gate.
THEOREM Refinement == Spec => ImplementsOneTimeGate
<1>1. Init => Promise!Init
  BY InitRefines
<1>2. IInv /\ [Next]_vars => [Promise!Next]_<<PaidSessions, ServedFor>>
  BY StepRefines
<1> QED
  BY <1>1, <1>2, Invariance, PTL DEF Spec, ImplementsOneTimeGate, Promise!Spec
=============================================================================

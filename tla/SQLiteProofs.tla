---------------------------- MODULE SQLiteProofs ----------------------------
(***************************************************************************)
(* The SQLite adapter implements the storage contract for the session      *)
(* manager and the callback handler, for any number of callers, sessions   *)
(* and checkout ids.                                                       *)
(***************************************************************************)
EXTENDS SQLiteAdapter, StorageCallsProofs

Calls == [phase : Phases, req : Requests \cup {NoRequest}, reply : Reply]

-----------------------------------------------------------------------------
(* The inductive invariant.                                                *)

\* A call that is under way has a request and no reply yet; only
\* ConsumeIfConfirmed has a second statement.
CallInv ==
  \A c \in Callers :
    /\ call[c].phase # "idle" => call[c].req \in Requests
    /\ call[c].phase = "asked" => call[c].reply = Error("nil")
    /\ call[c].phase \in {"missed", "consumed"} =>
         call[c].req.op = "ConsumeIfConfirmed"
    /\ call[c].phase = "consumed" => Exists(sessions, call[c].req.id)

\* The history is up to date.
MayInv ==
  \A c \in Callers :
    /\ call[c].phase \in Waiting =>
         Refusals(sessions, call[c].req) \subseteq may[c]
    /\ call[c].phase \notin Waiting => may[c] = {}

\* Only sessions whose push was accepted carry a checkout id.
RowInv ==
  \A i \in SessionIds :
    sessions[i].checkout # NoCheckout =>
      sessions[i].state \notin {"ABSENT", "CREATED"}

\* What the calls of the manager and the callback handler rely on between
\* their statements.
ManagerInv ==
  ManagerOnly => \A c \in Callers :
    /\ call[c].phase = "consumed" =>
         sessions[call[c].req.id].state = "CONSUMED"
    /\ /\ call[c].phase = "missed"
       /\ sessions[call[c].req.id].state = "CONFIRMED"
       => "ErrInvalidTransition" \in may[c]
    /\ call[c].phase = "asked" /\ call[c].req.op = "Transition" =>
         Exists(sessions, call[c].req.id)

IInv == TypeOK /\ CallInv /\ MayInv /\ RowInv /\ ManagerInv

-----------------------------------------------------------------------------
(* What a step does to the rows and to the call that takes it.             *)

RowStep ==
  /\ sessions' \in Table
  /\ \A i \in SessionIds :
       /\ Exists(sessions, i) => Exists(sessions', i)
       /\ sessions'[i].checkout # NoCheckout =>
            sessions'[i].state \notin {"ABSENT", "CREATED"}
       /\ ManagerOnly /\ sessions[i].state = "CONSUMED" =>
            sessions'[i] = sessions[i]
       /\ ManagerOnly /\ sessions'[i].state = "CONFIRMED" =>
            sessions[i].state \in {"CONFIRMED", "STK_PUSHED", "AWAITING_PIN"}

Takes(c, k) ==
  /\ Becomes(c, k)
  /\ k \in Calls
  /\ \/ /\ k.phase = "asked" /\ call[c].phase = "idle"
        /\ k.req \in Requests /\ MayAsk(sessions, call, k.req)
        /\ k.reply = Error("nil")
        /\ UNCHANGED sessions
     \/ k.phase = "idle"
     \/ /\ k.phase = "performed" /\ call[c].phase = "asked"
        /\ k.req = call[c].req
     \/ /\ k.phase = "consumed" /\ call[c].phase = "asked"
        /\ k.req = call[c].req /\ k.req.op = "ConsumeIfConfirmed"
        /\ sessions'[k.req.id].state = "CONSUMED"
     \/ /\ k.phase = "missed" /\ call[c].phase = "asked"
        /\ k.req = call[c].req /\ k.req.op = "ConsumeIfConfirmed"
        /\ sessions[k.req.id].state # "CONFIRMED"
        /\ UNCHANGED sessions

LEMMA SameRows ==
  ASSUME TypeOK, RowInv, UNCHANGED sessions
  PROVE  RowStep
  BY DEF TypeOK, RowInv, RowStep, Table, Exists

\* The calls that steps lead to.
LEMMA CallTypes ==
  /\ \A r \in Reply : /\ Done(r) \in Calls /\ Done(r).phase = "idle"
                      /\ Done(r).req = NoRequest
  /\ \A req \in Requests :
       /\ Asked(req) \in Calls /\ Asked(req).phase = "asked"
       /\ Asked(req).req = req /\ Asked(req).reply = Error("nil")
  /\ \A req \in Requests, r \in Reply, p \in Phases :
       LET k == [phase |-> p, req |-> req, reply |-> r]
       IN k \in Calls /\ k.phase = p /\ k.req = req
<1>1. Error("nil") \in Reply
  BY ErrorType DEF Errors
<1> QED
  BY <1>1 DEF Calls, Done, Asked, Phases

LEMMA RefusesStep ==
  ASSUME TypeOK, RowInv, NEW c \in Callers, NEW e \in Errors, Refuses(c, e)
  PROVE  RowStep /\ Takes(c, Done(Error(e)))
<1>1. Error(e) \in Reply
  BY ErrorType
<1> QED
  BY <1>1, SameRows, CallTypes DEF Refuses, Takes

LEMMA GoesStep ==
  ASSUME NEW c \in Callers, call[c].req \in Requests, call[c].phase = "asked",
         NEW r \in Reply, Goes(c, "performed", r)
  PROVE  \E k : Takes(c, k)
<1> DEFINE k == [phase |-> "performed", req |-> call[c].req, reply |-> r]
<1>1. k \in Calls /\ k.phase = "performed" /\ k.req = call[c].req
  BY CallTypes DEF Phases
<1>2. Becomes(c, k)
  BY DEF Goes
<1> HIDE DEF k
<1> QED
  BY <1>1, <1>2 DEF Takes

\* A SELECT returns a row of the table.
LEMMA SelectsStep ==
  ASSUME TypeOK, RowInv, NEW c \in Callers, call[c].req \in Requests,
         call[c].phase = "asked", NEW ids \in SUBSET SessionIds,
         \A i \in ids : Exists(sessions, i), Selects(c, ids)
  PROVE  RowStep /\ \E k : Takes(c, k)
<1>1. CASE /\ UNCHANGED sessions
           /\ \E id \in ids : Goes(c, "performed", Rows(sessions, {id}))
  <2>1. PICK id \in ids : Goes(c, "performed", Rows(sessions, {id}))
    BY <1>1
  <2>2. Rows(sessions, {id}) \in Reply
    BY RowsType DEF TypeOK, Table, Exists
  <2> QED
    BY <1>1, <2>1, <2>2, GoesStep, SameRows
<1>2. CASE Refuses(c, "ErrNotFound")
  BY <1>2, RefusesStep DEF Errors
<1> QED
  BY <1>1, <1>2 DEF Selects

LEMMA GetSteps ==
  ASSUME TypeOK, RowInv, CallInv, NEW c \in Callers,
         Get(c) \/ GetByCheckoutID(c)
  PROVE  RowStep /\ \E k : Takes(c, k)
<1>1. call[c].phase = "asked" /\ call[c].req \in Requests
  BY DEF Get, GetByCheckoutID, Asks, CallInv
<1>2. CASE Get(c)
  BY <1>1, <1>2, SelectsStep DEF Get
<1>3. CASE GetByCheckoutID(c)
  BY <1>1, <1>3, SelectsStep DEF GetByCheckoutID, FoundByCheckout
<1> QED
  BY <1>2, <1>3

LEMMA CreateStep ==
  ASSUME TypeOK, RowInv, CallInv, NEW c \in Callers, Create(c)
  PROVE  RowStep /\ \E k : Takes(c, k)
<1> DEFINE id == call[c].req.id
<1>1. /\ call[c].phase = "asked" /\ call[c].req \in Requests
      /\ id \in SessionIds
  BY RequestFields DEF Create, Asks, CallInv
<1>2. CASE /\ ~Exists(sessions, id) /\ sessions' = Inserted(sessions, id)
           /\ Goes(c, "performed", Error("nil"))
  <2>1. Error("nil") \in Reply
    BY ErrorType DEF Errors
  <2>2. RowStep
    BY <1>1, <1>2
    DEF RowStep, Table, TypeOK, RowInv, Inserted, Exists, Record, States
  <2> QED
    BY <1>1, <1>2, <2>1, <2>2, GoesStep
<1>3. CASE Refuses(c, "ErrSessionExists")
  BY <1>3, RefusesStep DEF Errors
<1> QED
  BY <1>2, <1>3 DEF Create

LEMMA TransitionStep ==
  ASSUME TypeOK, RowInv, CallInv, NEW c \in Callers, Transition(c)
  PROVE  RowStep /\ \E k : Takes(c, k)
<1> DEFINE id   == call[c].req.id
           move == call[c].req.move
<1>1. /\ call[c].phase = "asked" /\ call[c].req \in Requests
      /\ id \in SessionIds /\ move \in Moves
  BY RequestFields DEF Transition, Asks, CallInv
<1>2. CASE /\ Matches(sessions, id, move.from)
           /\ sessions' = Updated(sessions, id, move.to, move.update)
           /\ Goes(c, "performed", Error("nil"))
  <2>1. Error("nil") \in Reply
    BY ErrorType DEF Errors
  <2>2. /\ move.from \in States /\ move.to \in States \ {"CREATED"}
        /\ move.update \in Updates
        /\ ManagerOnly => ~IsTerminal(move.from)
        /\ move.to = "CONFIRMED" /\ ManagerOnly =>
             move.from \in {"STK_PUSHED", "AWAITING_PIN"}
    BY <1>1, MoveTypes
  <2>3. /\ \A i \in SessionIds \ {id} : sessions'[i] = sessions[i]
        /\ sessions' \in Table /\ sessions'[id].state = move.to
    BY <1>1, <1>2, <2>2
    DEF Updated, TypeOK, Table, Record, Updates, Checkouts
  <2>4. move.to # "ABSENT" /\ sessions[id].state = move.from
    BY <1>2, <2>2 DEF States, Matches
  <2>5. ASSUME NEW i \in SessionIds
        PROVE  /\ Exists(sessions, i) => Exists(sessions', i)
               /\ sessions'[i].checkout # NoCheckout =>
                    sessions'[i].state \notin {"ABSENT", "CREATED"}
               /\ ManagerOnly /\ sessions[i].state = "CONSUMED" =>
                    sessions'[i] = sessions[i]
               /\ ManagerOnly /\ sessions'[i].state = "CONFIRMED" =>
                    sessions[i].state \in {"CONFIRMED", "STK_PUSHED",
                                           "AWAITING_PIN"}
    <3>1. CASE i = id
      BY <2>2, <2>3, <2>4, <3>1 DEF Exists, IsTerminal, Terminal
    <3>2. CASE i # id
      BY <2>3, <3>2 DEF Exists, RowInv
    <3> QED
      BY <3>1, <3>2
  <2> QED
    BY <1>1, <1>2, <2>1, <2>3, <2>5, GoesStep DEF RowStep
<1>3. CASE Refuses(c, "ErrInvalidTransition")
  BY <1>3, RefusesStep DEF Errors
<1> QED
  BY <1>2, <1>3 DEF Transition

LEMMA ConsumeStep ==
  ASSUME TypeOK, RowInv, CallInv, NEW c \in Callers, ConsumeIfConfirmed(c)
  PROVE  RowStep /\ \E k : Takes(c, k)
<1> DEFINE id == call[c].req.id
           K(p) == [phase |-> p, req |-> call[c].req, reply |-> Error("nil")]
<1>1. /\ call[c].phase = "asked" /\ call[c].req \in Requests
      /\ call[c].req.op = "ConsumeIfConfirmed" /\ id \in SessionIds
  BY RequestFields DEF ConsumeIfConfirmed, Asks, CallInv
<1>2. ASSUME NEW p \in Phases
      PROVE  K(p) \in Calls /\ K(p).phase = p /\ K(p).req = call[c].req
  <2>1. Error("nil") \in Reply
    BY ErrorType DEF Errors
  <2> QED
    BY <1>1, <2>1, CallTypes
<1>3. CASE /\ Matches(sessions, id, "CONFIRMED")
           /\ sessions' = [sessions EXCEPT ![id].state = "CONSUMED"]
           /\ Goes(c, "consumed", Error("nil"))
  <2>1. sessions'[id].state = "CONSUMED"
    BY <1>1, <1>3 DEF TypeOK, Record
  <2>2. RowStep
    BY <1>1, <1>3
    DEF RowStep, Table, TypeOK, RowInv, Exists, Record, States, Matches
  <2>3. Takes(c, K("consumed"))
    <3>1. K("consumed") \in Calls /\ K("consumed").phase = "consumed"
          /\ K("consumed").req = call[c].req
      BY <1>2 DEF Phases
    <3>2. Becomes(c, K("consumed"))
      BY <1>3 DEF Goes
    <3> HIDE DEF K
    <3> QED
      BY <1>1, <2>1, <3>1, <3>2 DEF Takes
  <2> QED
    BY <2>2, <2>3
<1>4. CASE /\ ~Matches(sessions, id, "CONFIRMED")
           /\ UNCHANGED sessions
           /\ Goes(c, "missed", Error("nil"))
  <2>1. Takes(c, K("missed"))
    <3>1. K("missed") \in Calls /\ K("missed").phase = "missed"
          /\ K("missed").req = call[c].req
      BY <1>2 DEF Phases
    <3>2. Becomes(c, K("missed"))
      BY <1>4 DEF Goes
    <3> HIDE DEF K
    <3> QED
      BY <1>1, <1>4, <3>1, <3>2 DEF Takes, Matches
  <2> QED
    BY <1>4, <2>1, SameRows
<1> QED
  BY <1>3, <1>4 DEF ConsumeIfConfirmed

LEMMA ReplyStep ==
  ASSUME TypeOK, RowInv, CallInv, NEW c \in Callers,
         GetConsumed(c) \/ GetMissed(c) \/ Return(c) \/ Fail(c)
           \/ Interrupted(c)
  PROVE  RowStep /\ \E k : Takes(c, k)
<1>1. ASSUME NEW r \in Reply, UNCHANGED sessions, Becomes(c, Done(r))
      PROVE  RowStep /\ \E k : Takes(c, k)
  BY <1>1, SameRows, CallTypes DEF Takes
<1>2. CASE GetConsumed(c)
  <2>1. /\ call[c].phase = "consumed" /\ Exists(sessions, call[c].req.id)
        /\ call[c].req.id \in SessionIds
    BY <1>2, RequestFields DEF GetConsumed, CallInv
  <2>2. Rows(sessions, {call[c].req.id}) \in Reply
    BY <2>1, RowsType DEF TypeOK, Table, Exists
  <2> QED
    BY <1>1, <1>2, <2>2 DEF GetConsumed
<1>3. CASE GetMissed(c)
  <2>1. PICK e \in Errors : Refuses(c, e)
    BY <1>3 DEF GetMissed, Errors
  <2> QED
    BY <2>1, RefusesStep
<1>4. CASE Return(c)
  BY <1>1, <1>4 DEF Return, TypeOK
<1>5. CASE Fail(c)
  <2>1. Error("failed") \in Reply
    BY ErrorType DEF Errors
  <2> QED
    BY <1>1, <1>5, <2>1 DEF Fail
<1>6. CASE Interrupted(c)
  BY <1>6, RefusesStep DEF Interrupted, Errors
<1> QED
  BY <1>2, <1>3, <1>4, <1>5, <1>6

LEMMA BulkStep ==
  ASSUME TypeOK, RowInv, CallInv, NEW c \in Callers, Expire(c) \/ List(c)
  PROVE  RowStep /\ \E k : Takes(c, k)
<1>1. /\ call[c].phase = "asked" /\ call[c].req \in Requests
      /\ call[c].req.old \subseteq SessionIds
  BY RequestFields DEF Expire, List, Asks, CallInv
<1>2. CASE Expire(c)
  <2> DEFINE old == call[c].req.old
             due == {i \in SessionIds :
                       ExpireStale(sessions, old)[i] # sessions[i]}
  <2>1. sessions' = ExpireStale(sessions, old)
    BY <1>2 DEF Expire
  <2>2. RowStep
    BY <2>1
    DEF RowStep, Table, TypeOK, RowInv, Exists, Record, States, ExpireStale,
        NonTerminal, Terminal
  <2>3. \A i \in due : sessions'[i].state # "ABSENT"
    BY <2>1 DEF ExpireStale, TypeOK, Record
  <2>4. Rows(sessions', due) \in Reply
    BY <2>2, <2>3, RowsType DEF RowStep
  <2>5. Goes(c, "performed", Rows(sessions', due))
    BY <1>2 DEF Expire
  <2> QED
    BY <1>1, <2>2, <2>4, <2>5, GoesStep
<1>3. CASE List(c)
  <2> DEFINE ids == {r.id : r \in ListPending(sessions, call[c].req.old)}
  <2>1. ASSUME NEW i \in ids
        PROVE  i \in call[c].req.old /\ sessions[i].state \in Pending
    <3>1. PICK r \in ListPending(sessions, call[c].req.old) : i = r.id
      BY DEF ids
    <3>2. PICK j \in call[c].req.old :
            /\ sessions[j].state \in Pending
            /\ r = [id |-> j, from |-> sessions[j].state,
                    checkout |-> sessions[j].checkout]
      BY <3>1 DEF ListPending
    <3> QED
      BY <3>1, <3>2
  <2>2. ids \in SUBSET SessionIds
        /\ \A i \in ids : sessions[i].state # "ABSENT"
    BY <1>1, <2>1 DEF Pending
  <2> HIDE DEF ids
  <2>3. Rows(sessions, ids) \in Reply
    BY <2>2, RowsType DEF TypeOK, Table
  <2>4. Goes(c, "performed", Rows(sessions, ids)) /\ UNCHANGED sessions
    BY <1>3 DEF List, ids
  <2> QED
    BY <1>1, <2>3, <2>4, GoesStep, SameRows
<1> QED
  BY <1>2, <1>3

\* Every step of a caller is one of those.
LEMMA CallerStep ==
  ASSUME TypeOK, RowInv, CallInv, Next
  PROVE  RowStep /\ \E c \in Callers : \E k : Takes(c, k)
<1>1. ASSUME NEW c \in Callers, NEW req \in Requests, Ask(c, req)
      PROVE  RowStep /\ Takes(c, Asked(req))
  BY <1>1, SameRows, CallTypes DEF Ask, Takes
<1> QED
  BY <1>1, CreateStep, GetSteps, TransitionStep, ConsumeStep, ReplyStep,
     BulkStep DEF Next

-----------------------------------------------------------------------------
(* The invariant is inductive.                                             *)

LEMMA InitInv == Init => IInv
<1> SUFFICES ASSUME Init PROVE IInv
  OBVIOUS
<1> DEFINE d == Done(Error("nil"))
<1>1. d \in Calls /\ d.phase = "idle"
  BY ErrorType, CallTypes DEF Errors
<1> HIDE DEF d
<1>2. \A c \in Callers : call[c] = d
  BY DEF Init, d
<1>3. call \in [Callers -> Calls]
  BY <1>1, <1>2 DEF Init, d
<1>4. sessions \in Table /\ \A i \in SessionIds : sessions[i] = NoRecord
  BY DEF Init, Table, Record, NoRecord, States
<1>5. TypeOK
  BY <1>3, <1>4 DEF TypeOK, Calls, Table, Init
<1>6. CallInv /\ MayInv /\ ManagerInv
  BY <1>1, <1>2 DEF CallInv, MayInv, ManagerInv, Waiting, Init
<1>7. RowInv
  BY <1>4 DEF RowInv, NoRecord
<1> QED
  BY <1>5, <1>6, <1>7 DEF IInv

LEMMA StepInv ==
  ASSUME IInv, RowStep, NEW c \in Callers, NEW k, Takes(c, k)
  PROVE  IInv'
<1>1. /\ call \in [Callers -> Calls] /\ may \in [Callers -> SUBSET Errors]
      /\ call' = [call EXCEPT ![c] = k] /\ k \in Calls
      /\ may' = Justified(may, call', sessions')
  BY DEF IInv, TypeOK, Calls, Takes, Becomes
<1>2. call' \in [Callers -> Calls] /\ call'[c] = k
      /\ \A d \in Callers \ {c} : call'[d] = call[d]
  BY <1>1
<1>3. TypeOK'
  BY <1>1, <1>2, JustifiedType DEF TypeOK, Calls, RowStep, Table
<1>4. CallInv'
  <2>1. \A d \in Callers \ {c} : call[d].phase = "consumed" =>
          call[d].req \in Requests /\ call[d].req.id \in SessionIds
    BY RequestFields DEF IInv, CallInv
  <2>2. k.phase \in {"missed", "consumed"} => k.req.op = "ConsumeIfConfirmed"
    BY DEF Takes
  <2>3. /\ k.phase # "idle" => k.req \in Requests
        /\ k.phase = "asked" => k.reply = Error("nil")
    BY DEF Takes, IInv, CallInv
  <2>4. k.phase = "consumed" => Exists(sessions', k.req.id)
    BY DEF Takes, Exists
  <2>5. ASSUME NEW d \in Callers \ {c}, call[d].phase = "consumed"
        PROVE  Exists(sessions', call[d].req.id)
    BY <2>1, <2>5 DEF IInv, CallInv, RowStep
  <2> QED
    BY <1>2, <2>2, <2>3, <2>4, <2>5 DEF IInv, CallInv
<1>5. MayInv'
  BY <1>1, JustifiedNow DEF MayInv
<1>6. RowInv'
  BY DEF RowStep, RowInv
<1>7. ManagerInv'
  <2> SUFFICES ASSUME ManagerOnly PROVE ManagerInv'
    BY DEF ManagerInv
  <2>1. ASSUME NEW d \in Callers, call'[d].phase = "consumed"
        PROVE  sessions'[call'[d].req.id].state = "CONSUMED"
    <3>1. CASE d = c
      BY <1>2, <2>1, <3>1 DEF Takes
    <3>2. CASE d # c
      <4>1. call[d].req.id \in SessionIds
            /\ sessions[call[d].req.id].state = "CONSUMED"
        BY <1>2, <2>1, <3>2, RequestFields DEF IInv, CallInv, ManagerInv
      <4> QED
        BY <1>2, <3>2, <4>1 DEF RowStep
    <3> QED
      BY <3>1, <3>2
  <2>2. ASSUME NEW d \in Callers, call'[d].phase = "missed",
               sessions'[call'[d].req.id].state = "CONFIRMED"
        PROVE  "ErrInvalidTransition" \in may'[d]
    <3>1. may[d] \subseteq may'[d]
      <4>1. call'[d].phase \in Waiting
        BY <2>2 DEF Waiting
      <4> QED
        BY <1>1, <4>1, JustifiedNow
    <3> DEFINE req == call'[d].req
    <3>2. /\ req = call[d].req /\ call[d].phase \in {"asked", "missed"}
          /\ req.op = "ConsumeIfConfirmed" /\ req \in Requests
          /\ call[d].phase = "asked" =>
               sessions[req.id].state # "CONFIRMED" /\ UNCHANGED sessions
      BY <1>2, <2>2 DEF Takes, IInv, CallInv
    <3>3. req.id \in SessionIds
      BY <3>2, RequestFields
    <3>4. sessions[req.id].state
            \in {"CONFIRMED", "STK_PUSHED", "AWAITING_PIN"}
      BY <2>2, <3>3 DEF RowStep
    <3>5. CASE sessions[req.id].state = "CONFIRMED"
      <4>1. call[d].phase = "missed"
        BY <3>2, <3>5
      <4>2. "ErrInvalidTransition" \in may[d]
        BY <3>2, <3>5, <4>1 DEF IInv, ManagerInv
      <4> QED
        BY <3>1, <4>2
    <3>6. CASE sessions[req.id].state \in {"STK_PUSHED", "AWAITING_PIN"}
      <4>1. "ErrInvalidTransition" \in Refusals(sessions, req)
        BY <3>2, <3>6 DEF Refusals
      <4>2. Refusals(sessions, req) \subseteq may[d]
        BY <3>2 DEF IInv, MayInv, Waiting
      <4> QED
        BY <3>1, <4>1, <4>2
    <3> QED
      BY <3>4, <3>5, <3>6
  <2>3. ASSUME NEW d \in Callers, call'[d].phase = "asked",
               call'[d].req.op = "Transition"
        PROVE  Exists(sessions', call'[d].req.id)
    <3>1. CASE d = c
      BY <1>2, <2>3, <3>1 DEF Takes, MayAsk, Exists
    <3>2. CASE d # c
      <4>1. call[d].req.id \in SessionIds /\ Exists(sessions, call[d].req.id)
        BY <1>2, <2>3, <3>2, RequestFields DEF IInv, CallInv, ManagerInv
      <4> QED
        BY <1>2, <3>2, <4>1 DEF RowStep
    <3> QED
      BY <3>1, <3>2
  <2> QED
    BY <2>1, <2>2, <2>3 DEF ManagerInv
<1> QED
  BY <1>3, <1>4, <1>5, <1>6, <1>7 DEF IInv

LEMMA NextInv == IInv /\ [Next]_vars => IInv'
<1> SUFFICES ASSUME IInv, [Next]_vars PROVE IInv'
  OBVIOUS
<1>1. CASE Next
  <2>1. RowStep /\ \E c \in Callers : \E k : Takes(c, k)
    BY <1>1, CallerStep DEF IInv
  <2> QED
    BY <2>1, StepInv
<1>2. CASE UNCHANGED vars
  BY <1>2 DEF vars, IInv, TypeOK, CallInv, MayInv, RowInv, ManagerInv
<1> QED
  BY <1>1, <1>2

LEMMA Invariance == Spec => []IInv
  BY InitInv, NextInv, PTL DEF Spec

\* Replies are errors of the adapter's interface or rows that exist, and the
\* table holds records.
THEOREM AdapterTypes == Spec => []TypeOK
<1>1. IInv => TypeOK
  BY DEF IInv
<1> QED
  BY <1>1, Invariance, PTL

-----------------------------------------------------------------------------
(* The refinement, for the manager and the callback handler.               *)

\* Promised, with the table as a parameter.
Promise(k, db) ==
  CASE k.phase = "missed"   -> [k EXCEPT !.phase = "asked"]
    [] k.phase = "consumed" -> [k EXCEPT !.phase = "performed",
                                         !.reply = Rows(db, {k.req.id})]
    [] OTHER -> k

View == [c \in Callers |-> Promised(call[c])]

\* The contract's notions are the adapter's.
LEMMA SameNotions ==
  /\ \A e : Contract!Error(e) = Error(e)
  /\ \A r : Contract!Done(r) = Done(r)
  /\ \A req : Contract!Asked(req) = Asked(req)
  /\ \A db, ids : Contract!Rows(db, ids) = Rows(db, ids)
  /\ \A s : Contract!IsTerminal(s) <=> IsTerminal(s)
  /\ Contract!NoRecord = NoRecord
  /\ Contract!NonTerminal = NonTerminal /\ Contract!Pending = Pending
  /\ \A db, c : Contract!Indexed(db, c) = Indexed(db, c)
<1>1. \A e : Contract!Error(e) = Error(e)
  BY DEF Error, Contract!Error
<1>2. Contract!NoRecord = NoRecord
  BY DEF NoRecord, Contract!NoRecord
<1>3. Contract!NonTerminal = NonTerminal /\ Contract!Pending = Pending
      /\ \A s : Contract!IsTerminal(s) <=> IsTerminal(s)
  BY DEF NonTerminal, Contract!NonTerminal, Pending, Contract!Pending,
         IsTerminal, Contract!IsTerminal, Terminal, Contract!Terminal,
         States, Contract!States
<1>4. \A r : Contract!Done(r) = Done(r)
  BY DEF Done, Contract!Done, NoRequest, Contract!NoRequest
<1>5. \A req : Contract!Asked(req) = Asked(req)
  BY <1>1 DEF Asked, Contract!Asked
<1>6. \A db, ids : Contract!Rows(db, ids) = Rows(db, ids)
  BY DEF Rows, Contract!Rows
<1>7. \A db, c : Contract!Indexed(db, c) = Indexed(db, c)
  BY DEF Indexed, Contract!Indexed
<1> QED
  BY <1>1, <1>2, <1>3, <1>4, <1>5, <1>6, <1>7

LEMMA SameRequests == Contract!Requests = Requests
<1>1. Contract!Checkouts = Checkouts
  BY DEF Checkouts, Contract!Checkouts
<1>2. Contract!Terminal = Terminal
  BY DEF Terminal, Contract!Terminal
<1>3. Contract!NoUpdate = NoUpdate
  BY DEF NoUpdate, Contract!NoUpdate
<1>4. \A e : Contract!UpdatesFor(e) = UpdatesFor(e)
  BY <1>1, <1>3 DEF UpdatesFor, Contract!UpdatesFor, CorrelationUpdate,
     Contract!CorrelationUpdate, ReceiptUpdate, Contract!ReceiptUpdate
<1>5. Contract!validTransitions = validTransitions
  BY DEF validTransitions, Contract!validTransitions
<1>6. Contract!TableMoves = TableMoves
  BY <1>4, <1>5 DEF TableMoves, Contract!TableMoves
<1>7. Contract!Moves = Moves
  BY <1>2, <1>3, <1>6 DEF Moves, Contract!Moves
<1> QED
  BY <1>1, <1>7 DEF Requests, Contract!Requests

LEMMA SameJustified ==
  ASSUME NEW m, NEW calls, NEW db
  PROVE  Contract!Justified(m, calls, db) = Justified(m, calls, db)
<1>1. ASSUME NEW req PROVE Contract!Refusals(db, req) = Refusals(db, req)
  BY SameNotions DEF Refusals, Contract!Refusals
<1> QED
  BY <1>1 DEF Justified, Contract!Justified, Waiting, Contract!Waiting

\* What the contract sees of a call.
LEMMA PromiseFields ==
  ASSUME NEW k \in Calls, NEW db
  PROVE  /\ Promise(k, db).req = k.req
         /\ Promise(k, db).phase \in Waiting <=> k.phase \in Waiting
         /\ k.phase \in {"idle", "asked", "performed"} => Promise(k, db) = k
         /\ k.phase = "missed" => Promise(k, db).phase = "asked"
         /\ k.phase = "consumed" =>
              Promise(k, db) = [phase |-> "performed", req |-> k.req,
                                reply |-> Rows(db, {k.req.id})]
  BY DEF Promise, Calls, Waiting, Phases

\* A step of one caller is seen as a step of that caller: what a call that
\* has consumed will return is not changed by others.
LEMMA ViewStep ==
  ASSUME IInv, IInv', RowStep, ManagerOnly, NEW c \in Callers, NEW k,
         Becomes(c, k)
  PROVE  Contract!Becomes(c, Promise(k, sessions'))
<1>1. /\ call \in [Callers -> Calls] /\ call' \in [Callers -> Calls]
      /\ call' = [call EXCEPT ![c] = k]
      /\ may' = Justified(may, call', sessions')
  BY DEF IInv, TypeOK, Calls, Becomes
<1> DEFINE views == [d \in Callers |-> Promise(call'[d], sessions')]
<1>2. View = [d \in Callers |-> Promise(call[d], sessions)]
  BY DEF View, Promised, Promise
<1>3. View' = views
  BY DEF View, Promised, Promise
<1>4. ASSUME NEW d \in Callers \ {c}
      PROVE  Promise(call'[d], sessions') = Promise(call[d], sessions)
  <2>1. call'[d] = call[d] /\ call[d] \in Calls
    BY <1>1
  <2>2. CASE call[d].phase = "consumed"
    <3>1. call[d].req.id \in SessionIds
          /\ sessions[call[d].req.id].state = "CONSUMED"
      BY <2>2, RequestFields DEF IInv, CallInv, ManagerInv
    <3>2. sessions'[call[d].req.id] = sessions[call[d].req.id]
      BY <3>1 DEF RowStep
    <3>3. Rows(sessions', {call[d].req.id}) = Rows(sessions, {call[d].req.id})
      BY <3>2 DEF Rows
    <3> QED
      BY <2>1, <3>3 DEF Promise
  <2>3. CASE call[d].phase # "consumed"
    BY <2>1, <2>3 DEF Promise
  <2> QED
    BY <2>2, <2>3
<1>5. View' = [View EXCEPT ![c] = Promise(k, sessions')]
  BY <1>1, <1>2, <1>3, <1>4
<1>6. \A d \in Callers : /\ call'[d].phase \in Waiting
                            <=> views[d].phase \in Waiting
                         /\ call'[d].req = views[d].req
  BY <1>1, PromiseFields
<1>7. Justified(may, call', sessions') = Justified(may, views, sessions')
  BY <1>6, JustifiedAgrees
<1>8. may' = Contract!Justified(may, View', sessions')
  BY <1>1, <1>3, <1>7, SameJustified
<1> QED
  BY <1>5, <1>8 DEF Contract!Becomes, View

\* What a caller that waits sees in the contract, and when it may be refused.
LEMMA AskedView ==
  ASSUME IInv, NEW c \in Callers
  PROVE  /\ call[c].phase \in {"idle", "asked", "performed"} =>
              View[c] = call[c]
         /\ View[c].req = call[c].req
         /\ call[c].phase = "missed" => View[c].phase = "asked"
         /\ call[c].phase = "consumed" =>
              /\ View[c].phase = "performed"
              /\ View[c].reply = Rows(sessions, {call[c].req.id})
         /\ call[c].phase # "idle" => View[c].phase # "idle"
         /\ call[c].phase \in Waiting <=> View[c].phase \in Waiting
<1>1. call[c] \in Calls
  BY DEF IInv, TypeOK, Calls
<1>2. View[c] = Promise(call[c], sessions)
  BY DEF View, Promised, Promise
<1>3. call[c].phase = "consumed" =>
        View[c] = [phase |-> "performed", req |-> call[c].req,
                   reply |-> Rows(sessions, {call[c].req.id})]
  BY <1>1, <1>2, PromiseFields
<1>4. call[c].phase \in Phases
  BY <1>1 DEF Calls
<1> QED
  BY <1>1, <1>2, <1>3, <1>4, PromiseFields DEF Phases

\* The table and replies that exist before and after a step.
LEMMA GoesView ==
  ASSUME IInv, IInv', RowStep, ManagerOnly, NEW c \in Callers, NEW r,
         call[c].phase = "asked", Goes(c, "performed", r)
  PROVE  Contract!Goes(c, "performed", r)
<1> DEFINE k == [phase |-> "performed", req |-> call[c].req, reply |-> r]
<1>1. Becomes(c, k)
  BY DEF Goes
<1>2. Promise(k, sessions') = k
  BY DEF Promise
<1>3. Contract!Becomes(c, k)
  <2> HIDE DEF k
  <2> QED
    BY <1>1, <1>2, ViewStep
<1>4. View[c].req = call[c].req
  BY AskedView
<1> QED
  BY <1>3, <1>4 DEF Contract!Goes, View

\* A refusal that is true when it is given, or was before, is one of the
\* contract's.
LEMMA RefusesView ==
  ASSUME IInv, IInv', RowStep, ManagerOnly, NEW c \in Callers, NEW e,
         call[c].phase \in {"asked", "missed"}, Refuses(c, e),
         e \in Refusals(sessions, call[c].req) \/ e \in may[c]
  PROVE  Contract!Refuses(c)
<1> DEFINE k == Done(Error(e))
<1>1. Becomes(c, k) /\ UNCHANGED sessions
  BY DEF Refuses
<1>2. Promise(k, sessions') = k
  BY DEF Promise, Done
<1>3. Contract!Becomes(c, k)
  <2> HIDE DEF k
  <2> QED
    BY <1>1, <1>2, ViewStep
<1>4. e \in may[c]
  BY DEF IInv, MayInv, Waiting
<1>5. Contract!Done(Contract!Error(e)) = k
  BY SameNotions
<1>6. View[c].phase = "asked"
  BY AskedView
<1> QED
  BY <1>1, <1>3, <1>4, <1>5, <1>6 DEF Contract!Refuses, View

LEMMA AskView ==
  ASSUME IInv, IInv', RowStep, ManagerOnly, NEW c \in Callers,
         NEW req \in Requests, Ask(c, req)
  PROVE  Contract!Ask(c, req)
<1>1. Becomes(c, Asked(req)) /\ UNCHANGED sessions /\ call[c].phase = "idle"
      /\ MayAsk(sessions, call, req)
  BY DEF Ask
<1>2. Promise(Asked(req), sessions') = Asked(req)
  BY DEF Promise, Asked
<1>3. Contract!Becomes(c, Asked(req))
  BY <1>1, <1>2, ViewStep
<1>4. Contract!Becomes(c, Contract!Asked(req))
  BY <1>3, SameNotions
<1>5. View[c].phase = "idle"
  BY <1>1, AskedView
<1>6. Contract!MayAsk(sessions, View, req)
  <2>1. \A d \in Callers : View[d].req = call[d].req
    BY AskedView
  <2>2. \A q : Contract!Correlates(q) <=> Correlates(q)
    BY DEF Correlates, Contract!Correlates
  <2>3. \A i : Contract!Exists(sessions, i) <=> Exists(sessions, i)
    BY DEF Exists, Contract!Exists
  <2> HIDE DEF View
  <2> QED
    BY <1>1, <2>1, <2>2, <2>3 DEF MayAsk, Contract!MayAsk
<1> QED
  BY <1>1, <1>4, <1>5, <1>6 DEF Contract!Ask, View

LEMMA CreateView ==
  ASSUME IInv, IInv', RowStep, ManagerOnly, NEW c \in Callers, Create(c)
  PROVE  Contract!Creates(c) \/ Contract!Refuses(c)
<1> DEFINE id == call[c].req.id
<1>1. call[c].phase = "asked" /\ call[c].req.op = "Create"
  BY DEF Create, Asks
<1>2. CASE /\ ~Exists(sessions, id) /\ sessions' = Inserted(sessions, id)
           /\ Goes(c, "performed", Error("nil"))
  <2>1. Contract!Goes(c, "performed", Contract!Error("nil"))
    BY <1>1, <1>2, GoesView, SameNotions
  <2>2. [NoRecord EXCEPT !.state = "CREATED"] =
          [state |-> "CREATED", checkout |-> NoCheckout, receipt |-> FALSE]
    <3>1. ASSUME NEW r \in Record
          PROVE  [r EXCEPT !.state = "CREATED"] =
                   [state |-> "CREATED", checkout |-> r.checkout,
                    receipt |-> r.receipt]
      BY DEF Record
    <3>2. NoRecord \in Record /\ NoRecord.checkout = NoCheckout
          /\ NoRecord.receipt = FALSE
      BY DEF NoRecord, Record
    <3> QED
      BY <3>1, <3>2
  <2>3. View[c] = call[c]
    BY <1>1, AskedView
  <2> QED
    BY <1>1, <1>2, <2>1, <2>2, <2>3, SameNotions
    DEF Contract!Creates, Contract!Asks, View, Exists, Inserted
<1>3. CASE Exists(sessions, id) /\ Refuses(c, "ErrSessionExists")
  <2>1. "ErrSessionExists" \in Refusals(sessions, call[c].req)
    BY <1>1, <1>3 DEF Refusals, Exists
  <2> QED
    BY <1>1, <1>3, <2>1, RefusesView
<1> QED
  BY <1>2, <1>3 DEF Create

LEMMA GetView ==
  ASSUME IInv, IInv', RowStep, ManagerOnly, NEW c \in Callers, Get(c)
  PROVE  Contract!Gets(c) \/ Contract!Refuses(c)
<1> DEFINE id == call[c].req.id
           ids == {id} \cap {i \in SessionIds : Exists(sessions, i)}
<1>1. /\ call[c].phase = "asked" /\ call[c].req.op = "Get"
      /\ id \in SessionIds /\ Selects(c, ids)
  BY RequestFields DEF Get, Asks, IInv, CallInv
<1>2. CASE /\ UNCHANGED sessions /\ Exists(sessions, id)
           /\ Goes(c, "performed", Rows(sessions, {id}))
  <2>1. Contract!Goes(c, "performed", Contract!Rows(sessions, {id}))
    BY <1>1, <1>2, GoesView, SameNotions
  <2>2. View[c] = call[c]
    BY <1>1, AskedView
  <2> QED
    BY <1>1, <1>2, <2>1, <2>2
    DEF Contract!Gets, Contract!Asks, View, Exists
<1>3. CASE ids = {} /\ Refuses(c, "ErrNotFound")
  <2>1. "ErrNotFound" \in Refusals(sessions, call[c].req)
    BY <1>1, <1>3 DEF Refusals, Exists
  <2> QED
    BY <1>1, <1>3, <2>1, RefusesView
<1> QED
  BY <1>1, <1>2, <1>3 DEF Selects

LEMMA LookUpView ==
  ASSUME IInv, IInv', RowStep, ManagerOnly, NEW c \in Callers,
         GetByCheckoutID(c)
  PROVE  Contract!LooksUp(c) \/ Contract!Refuses(c)
<1> DEFINE co  == call[c].req.checkout
           ids == FoundByCheckout(sessions, co)
<1>1. /\ call[c].phase = "asked" /\ call[c].req.op = "GetByCheckoutID"
      /\ co \in CheckoutIds /\ Selects(c, ids)
  BY RequestFields DEF GetByCheckoutID, Asks, IInv, CallInv
<1>2. ids = Indexed(sessions, co)
  BY <1>1, NoCheckoutAssumption
  DEF FoundByCheckout, Indexed, IInv, RowInv, Exists
<1>3. CASE /\ UNCHANGED sessions
           /\ \E id \in ids : Goes(c, "performed", Rows(sessions, {id}))
  <2>1. PICK id \in ids : Goes(c, "performed", Rows(sessions, {id}))
    BY <1>3
  <2>2. Contract!Goes(c, "performed", Contract!Rows(sessions, {id}))
    BY <1>1, <2>1, GoesView, SameNotions
  <2>3. View[c] = call[c]
    BY <1>1, AskedView
  <2>4. id \in Contract!Indexed(sessions, co)
    BY <1>2, SameNotions
  <2> QED
    BY <1>1, <1>3, <2>2, <2>3, <2>4
    DEF Contract!LooksUp, Contract!Asks, View
<1>4. CASE ids = {} /\ Refuses(c, "ErrNotFound")
  <2>1. "ErrNotFound" \in Refusals(sessions, call[c].req)
    BY <1>1, <1>2, <1>4 DEF Refusals
  <2> QED
    BY <1>1, <1>4, <2>1, RefusesView
<1> QED
  BY <1>1, <1>3, <1>4 DEF Selects

LEMMA TransitionView ==
  ASSUME IInv, IInv', RowStep, ManagerOnly, NEW c \in Callers, Transition(c)
  PROVE  Contract!Transitions(c) \/ Contract!Refuses(c)
<1> DEFINE id   == call[c].req.id
           move == call[c].req.move
<1>1. /\ call[c].phase = "asked" /\ call[c].req.op = "Transition"
      /\ id \in SessionIds /\ move \in Moves /\ Exists(sessions, id)
  BY RequestFields DEF Transition, Asks, IInv, CallInv, ManagerInv
<1>2. ~IsTerminal(move.from)
  BY <1>1, MoveTypes
<1>3. CASE /\ Matches(sessions, id, move.from)
           /\ sessions' = Updated(sessions, id, move.to, move.update)
           /\ Goes(c, "performed", Error("nil"))
  <2>1. Contract!Goes(c, "performed", Contract!Error("nil"))
    BY <1>1, <1>3, GoesView, SameNotions
  <2>2. View[c] = call[c]
    BY <1>1, AskedView
  <2>3. sessions' = [sessions EXCEPT
          ![id].state    = move.to,
          ![id].checkout = IF move.update.checkout = NoCheckout THEN @
                           ELSE move.update.checkout,
          ![id].receipt  = @ \/ move.update.receipt]
    <3>1. sessions[id] \in Record /\ sessions \in [SessionIds -> Record]
      BY <1>1 DEF IInv, TypeOK
    <3> QED
      BY <1>1, <1>3, <3>1 DEF Updated, Record
  <2> QED
    BY <1>1, <1>2, <1>3, <2>1, <2>2, <2>3, SameNotions
    DEF Contract!Transitions, Contract!Asks, View, Matches
<1>4. CASE /\ ~Matches(sessions, id, move.from)
           /\ Refuses(c, "ErrInvalidTransition")
  <2>1. "ErrInvalidTransition" \in Refusals(sessions, call[c].req)
    BY <1>1, <1>4 DEF Refusals, Exists, Matches
  <2> QED
    BY <1>1, <1>4, <2>1, RefusesView
<1> QED
  BY <1>3, <1>4 DEF Transition

\* The UPDATE that finds the session is the moment of the contract; the one
\* that does not is invisible.
LEMMA ConsumeView ==
  ASSUME IInv, IInv', RowStep, ManagerOnly, NEW c \in Callers,
         ConsumeIfConfirmed(c)
  PROVE  Contract!Consumes(c) \/ UNCHANGED <<sessions, View, may>>
<1> DEFINE id   == call[c].req.id
           K(p) == [phase |-> p, req |-> call[c].req, reply |-> Error("nil")]
<1>1. /\ call[c].phase = "asked" /\ call[c].req.op = "ConsumeIfConfirmed"
      /\ id \in SessionIds /\ call[c].reply = Error("nil")
      /\ call[c] \in Calls
  BY RequestFields DEF ConsumeIfConfirmed, Asks, IInv, CallInv, TypeOK, Calls
<1>2. View[c] = call[c] /\ View = [d \in Callers |-> View[d]]
  BY <1>1, AskedView DEF View
<1>3. CASE /\ Matches(sessions, id, "CONFIRMED")
           /\ sessions' = [sessions EXCEPT ![id].state = "CONSUMED"]
           /\ Goes(c, "consumed", Error("nil"))
  <2>1. Becomes(c, K("consumed"))
    BY <1>3 DEF Goes
  <2>2. Promise(K("consumed"), sessions') =
          [phase |-> "performed", req |-> call[c].req,
           reply |-> Rows(sessions', {id})]
    BY DEF Promise
  <2>3. Contract!Becomes(c, Promise(K("consumed"), sessions'))
    <3> HIDE DEF K
    <3> QED
      BY <2>1, ViewStep
  <2>4. Contract!Goes(c, "performed", Contract!Rows(sessions', {id}))
    BY <1>2, <2>2, <2>3, SameNotions DEF Contract!Goes, View
  <2> QED
    BY <1>1, <1>2, <1>3, <2>4 DEF Contract!Consumes, Contract!Asks, View,
       Matches
<1>4. CASE /\ ~Matches(sessions, id, "CONFIRMED")
           /\ UNCHANGED sessions
           /\ Goes(c, "missed", Error("nil"))
  <2>1. Becomes(c, K("missed"))
    BY <1>4 DEF Goes
  <2>2. Promise(K("missed"), sessions') = call[c]
    BY <1>1 DEF Promise, Calls
  <2>3. Contract!Becomes(c, Promise(K("missed"), sessions'))
    <3> HIDE DEF K
    <3> QED
      BY <2>1, ViewStep
  <2>4. /\ View' = [View EXCEPT ![c] = call[c]]
        /\ may' = Justified(may, View', sessions')
    BY <2>2, <2>3, SameJustified DEF Contract!Becomes, View
  <2>5. View' = View
    BY <1>2, <2>4
  <2>6. may' = Justified(may, View, sessions)
    BY <1>4, <2>4, <2>5
  <2>7. Justified(may, View, sessions) = may
    <3>1. \A d \in Callers : /\ call[d].phase \in Waiting
                                <=> View[d].phase \in Waiting
                             /\ call[d].req = View[d].req
      BY AskedView
    <3>2. may \in [Callers -> SUBSET Errors]
      BY DEF IInv, TypeOK
    <3> HIDE DEF View
    <3> QED
      BY <3>1, <3>2 DEF Justified, IInv, MayInv
  <2> QED
    BY <1>4, <2>5, <2>6, <2>7
<1> QED
  BY <1>3, <1>4 DEF ConsumeIfConfirmed

LEMMA ReplyView ==
  ASSUME IInv, IInv', RowStep, ManagerOnly, NEW c \in Callers,
         GetConsumed(c) \/ GetMissed(c) \/ Return(c) \/ Fail(c)
           \/ Interrupted(c)
  PROVE  Contract!Returns(c) \/ Contract!Refuses(c) \/ Contract!Fails(c)
<1>1. ASSUME NEW r, Becomes(c, Done(r))
      PROVE  Contract!Becomes(c, Contract!Done(r))
  <2>1. Promise(Done(r), sessions') = Done(r)
    BY DEF Promise, Done
  <2> QED
    BY <1>1, <2>1, ViewStep, SameNotions
<1>2. CASE GetConsumed(c)
  <2>1. View[c].phase = "performed"
        /\ View[c].reply = Rows(sessions, {call[c].req.id})
    BY <1>2, AskedView DEF GetConsumed
  <2>2. Contract!Becomes(c, Contract!Done(View[c].reply))
    BY <1>1, <1>2, <2>1 DEF GetConsumed
  <2> QED
    BY <1>2, <2>1, <2>2 DEF GetConsumed, Contract!Returns, View
<1>3. CASE GetMissed(c)
  <2> DEFINE state == sessions[call[c].req.id].state
             e == CASE state = "ABSENT"   -> "ErrNotFound"
                    [] state = "CONSUMED" -> "ErrAlreadyConsumed"
                    [] OTHER              -> "ErrInvalidTransition"
  <2>1. call[c].phase = "missed" /\ Refuses(c, e)
    BY <1>3 DEF GetMissed
  <2>2. call[c].req.op = "ConsumeIfConfirmed"
    BY <2>1 DEF IInv, CallInv
  <2>3. CASE state = "CONFIRMED"
    <3>1. e = "ErrInvalidTransition" /\ e \in may[c]
      BY <2>1, <2>3 DEF IInv, ManagerInv
    <3> QED
      BY <2>1, <3>1, RefusesView
  <2>4. CASE state # "CONFIRMED"
    <3>1. e \in Refusals(sessions, call[c].req)
      BY <2>2, <2>4 DEF Refusals
    <3> QED
      BY <2>1, <3>1, RefusesView
  <2> QED
    BY <2>3, <2>4
<1>4. CASE Return(c)
  <2>1. View[c] = call[c]
    BY <1>4, AskedView DEF Return
  <2>2. Contract!Becomes(c, Contract!Done(View[c].reply))
    BY <1>1, <1>4, <2>1 DEF Return
  <2> QED
    BY <1>4, <2>1, <2>2 DEF Return, Contract!Returns, View
<1>5. CASE Fail(c)
  <2>1. Contract!Becomes(c, Contract!Done(Contract!Error("failed")))
    BY <1>1, <1>5, SameNotions DEF Fail
  <2>2. View[c].phase # "idle"
    BY <1>5, AskedView DEF Fail
  <2> QED
    BY <1>5, <2>1, <2>2 DEF Fail, Contract!Fails, View
<1>6. CASE Interrupted(c)
  <2>1. Contract!Becomes(c, Contract!Done(Contract!Error("ErrNotFound")))
    BY <1>1, <1>6, SameNotions DEF Interrupted, Refuses
  <2>2. /\ call[c].phase # "idle"
        /\ call[c].req.op \in {"Get", "GetByCheckoutID",
                               "ConsumeIfConfirmed"}
    BY <1>6 DEF Interrupted, Asks, IInv, CallInv
  <2>3. View[c].phase # "idle" /\ View[c].req = call[c].req
    BY <2>2, AskedView
  <2> QED
    BY <1>6, <2>1, <2>2, <2>3 DEF Interrupted, Refuses, Contract!Fails, View
<1> QED
  BY <1>2, <1>3, <1>4, <1>5, <1>6

LEMMA BulkView ==
  ASSUME IInv, IInv', RowStep, ManagerOnly, NEW c \in Callers,
         Expire(c) \/ List(c)
  PROVE  Contract!Expires(c) \/ Contract!Lists(c)
<1> DEFINE old == call[c].req.old
<1>1. call[c].phase = "asked" /\ old \subseteq SessionIds
  BY RequestFields DEF Expire, List, Asks, IInv, CallInv
<1>2. View[c] = call[c]
  BY <1>1, AskedView
<1>3. CASE Expire(c)
  <2> DEFINE due == {i \in SessionIds :
                       ExpireStale(sessions, old)[i] # sessions[i]}
             stale == {i \in old : sessions[i].state \in NonTerminal}
  <2>1. due = stale
    <3>1. ASSUME NEW i \in SessionIds
          PROVE  i \in due <=> i \in stale
      <4>1. sessions[i] \in Record
        BY DEF IInv, TypeOK
      <4>2. sessions[i].state = "TIMEOUT" =>
              sessions[i].state \notin NonTerminal
        BY DEF NonTerminal, Terminal
      <4>3. [sessions[i] EXCEPT !.state = "TIMEOUT"].state = "TIMEOUT"
        BY <4>1 DEF Record
      <4> QED
        BY <4>1, <4>2, <4>3 DEF ExpireStale
    <3> QED
      BY <1>1, <3>1
  <2>2. sessions' = [i \in SessionIds |->
          IF i \in stale THEN [sessions[i] EXCEPT !.state = "TIMEOUT"]
                         ELSE sessions[i]]
    BY <1>3 DEF Expire, ExpireStale
  <2>3. Contract!Goes(c, "performed", Contract!Rows(sessions', stale))
    <3>1. Goes(c, "performed", Rows(sessions', due))
      BY <1>3 DEF Expire
    <3> HIDE DEF due, stale
    <3> QED
      BY <1>1, <2>1, <3>1, GoesView, SameNotions
  <2>4. stale = {i \in old : sessions[i].state \in Contract!NonTerminal}
    BY SameNotions
  <2> HIDE DEF stale
  <2> QED
    BY <1>1, <1>2, <1>3, <2>2, <2>3, <2>4
    DEF Contract!Expires, Contract!Asks, View, Expire, Asks
<1>4. CASE List(c)
  <2> DEFINE ids  == {r.id : r \in ListPending(sessions, old)}
             open == {i \in old : sessions[i].state \in Pending}
  <2>1. ids = open
    <3>1. ASSUME NEW i \in ids PROVE i \in open
      <4>1. PICK r \in ListPending(sessions, old) : i = r.id
        BY DEF ids
      <4> QED
        BY <4>1 DEF ListPending
    <3>2. ASSUME NEW i \in open PROVE i \in ids
      <4> DEFINE r == [id |-> i, from |-> sessions[i].state,
                       checkout |-> sessions[i].checkout]
      <4>1. r \in ListPending(sessions, old) /\ r.id = i
        BY DEF ListPending
      <4> QED
        BY <4>1
    <3> QED
      BY <3>1, <3>2
  <2>2. Contract!Goes(c, "performed", Contract!Rows(sessions, open))
    <3>1. Goes(c, "performed", Rows(sessions, ids))
      BY <1>4 DEF List
    <3> HIDE DEF ids, open
    <3> QED
      BY <1>1, <2>1, <3>1, GoesView, SameNotions
  <2>3. open = {i \in old : sessions[i].state \in Contract!Pending}
    BY SameNotions
  <2> HIDE DEF open
  <2> QED
    BY <1>1, <1>2, <1>4, <2>2, <2>3
    DEF Contract!Lists, Contract!Asks, View, List, Asks
<1> QED
  BY <1>3, <1>4

-----------------------------------------------------------------------------

LEMMA InitView == Init => Contract!Init
<1> SUFFICES ASSUME Init PROVE Contract!Init
  OBVIOUS
<1>1. View = [c \in Callers |-> Contract!Done(Contract!Error("nil"))]
  <2>1. \A c \in Callers : Promised(call[c]) = Done(Error("nil"))
    BY DEF Init, Promised, Done
  <2> QED
    BY <2>1, SameNotions DEF View
<1> QED
  BY <1>1, SameNotions DEF Init, Contract!Init, View

LEMMA NextView ==
  ASSUME IInv, IInv', ManagerOnly, [Next]_vars
  PROVE  [Contract!Next]_<<sessions, View, may>>
<1>1. CASE Next
  <2>1. RowStep
    BY <1>1, CallerStep DEF IInv
  <2>2. PICK c \in Callers :
          \/ \E req \in Requests : Ask(c, req)
          \/ Create(c) \/ Get(c) \/ GetByCheckoutID(c) \/ Transition(c)
          \/ ConsumeIfConfirmed(c) \/ GetConsumed(c) \/ GetMissed(c)
          \/ Expire(c) \/ List(c) \/ Return(c) \/ Fail(c)
          \/ Interrupted(c)
    BY <1>1 DEF Next
  <2>3. ASSUME NEW req \in Requests, Ask(c, req)
        PROVE  \E q \in Contract!Requests : Contract!Ask(c, q)
    BY <2>1, <2>3, AskView, SameRequests
  <2>4. \/ \E q \in Contract!Requests : Contract!Ask(c, q)
        \/ Contract!Creates(c) \/ Contract!Gets(c) \/ Contract!LooksUp(c)
        \/ Contract!Transitions(c) \/ Contract!Consumes(c)
        \/ Contract!Expires(c) \/ Contract!Lists(c) \/ Contract!Returns(c)
        \/ Contract!Refuses(c) \/ Contract!Fails(c)
        \/ UNCHANGED <<sessions, View, may>>
    BY <2>1, <2>2, <2>3, CreateView, GetView, LookUpView, TransitionView,
       ConsumeView, ReplyView, BulkView
  <2> QED
    BY <2>4 DEF Contract!Next
<1>2. CASE UNCHANGED vars
  BY <1>2 DEF vars, View, Promised, Rows
<1> QED
  BY <1>1, <1>2

\* For the session manager and the callback handler every method of the
\* SQLite adapter takes effect at one moment, and each refusal was true
\* during the call, but for the ErrNotFound of a read that failed.
THEOREM AdapterImplementsContract ==
  ASSUME ManagerOnly PROVE Spec => ImplementsContract
<1>1. IInv /\ IInv' /\ [Next]_vars => [Contract!Next]_<<sessions, View, may>>
  BY NextView
<1> QED
  BY <1>1, InitView, Invariance, PTL
  DEF Spec, ImplementsContract, Contract!Spec, View
=============================================================================

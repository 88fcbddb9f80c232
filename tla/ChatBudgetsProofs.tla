--------------------------- MODULE ChatBudgetsProofs ---------------------------
(***************************************************************************)
(* What ChatBudgets guarantees for every number of tenants and turns, all  *)
(* limits, every calendar and every weight of a request.                   *)
(***************************************************************************)
EXTENDS ChatBudgets, FiniteSetTheorems, TLAPS

USE DEF Loaded, Checks

-----------------------------------------------------------------------------
(* Types and limits, in parts                                              *)

StartsType ==
  /\ starts \in [StartKeys -> Nat]
  /\ \A k \in StartKeys : starts[k] <= StartLimit[k[2]] \/ starts[k] <= MaxLegacy
UsageType == usage \in [UsageKeys -> Nat] /\ \A k \in UsageKeys : usage[k] <= MeterLimit[k[2]]
HistoryType == admitted \in [StartKeys -> Nat] /\ sent \in [UsageKeys -> Nat]
WorldType ==
  /\ now \in Times /\ active \subseteq Tenants
  /\ legacy \in [Tenants -> Counts \cup {None}] /\ before \in [Tenants -> Counts]
  /\ eraser \in [Tenants -> [step: {"idle", "seedDay", "destroy"}, at: Times]]

(* A turn names its tenant, and carries a request from its reservation to  *)
(* its dispatch.                                                           *)
Complete(r) ==
  /\ r.step # "idle" <=> r.tenant # None
  /\ r.request # None <=> r.step \in Loaded
Turned == {r \in TurnStates : Complete(r)}
TurnType == turn \in [Turns -> Turned]

LEMMA Parts ==
  TypeOK <=> StartsType /\ UsageType /\ HistoryType /\ WorldType /\ TurnType
  <1>1. TurnType <=> turn \in [Turns -> TurnStates] /\ \A u \in Turns : Complete(turn[u])
    BY DEF TurnType, Turned
  <1> QED
    BY <1>1 DEF TypeOK, StartsType, UsageType, HistoryType, WorldType, Complete

LEMMA Keys ==
  /\ \A t \in Tenants, s \in Spans, time \in Times :
       StartKey(t, s, time) \in StartKeys /\ StartKey(t, s, time)[2] = s
  /\ \A t \in Tenants, m \in Meters, time \in Times :
       UsageKey(t, m, time) \in UsageKeys /\ UsageKey(t, m, time)[2] = m
  /\ \A k \in UsageKeys : k[2] \in Meters
  /\ \A k \in StartKeys : k[2] \in Spans
  BY DEF StartKeys, UsageKeys, StartKey, UsageKey

(* What a request weighs on a meter is a number.                           *)
LEMMA Weights ==
  ASSUME NEW r \in Requests, NEW m \in Meters
  PROVE  Weight(r, m) \in Nat
  <1>1. m[2] \in {"request", "token", "cost"}
    BY DEF Meters, Spans
  <1> QED
    BY <1>1, LimitAssumption DEF Weight

LEMMA Limits ==
  /\ \A s \in Spans : StartLimit[s] \in Nat /\ StartLimit[s] >= 1
  /\ \A m \in Meters : MeterLimit[m] \in Nat
  /\ MaxLegacy \in Nat /\ MaxTime \in Nat /\ 0 \in Times
  BY LimitAssumption DEF Times

LEMMA NoTurnFits == NoTurn \in Turned /\ NoTurn.step = "idle"
  BY Limits DEF NoTurn, Turned, TurnStates, Complete, Steps

-----------------------------------------------------------------------------
(* Starting a turn                                                         *)

(* A seed takes a counter no further than to a count of the older version. *)
LEMMA SeedKeeps ==
  ASSUME StartsType, NEW counts \in Counts \cup {None}, NEW t \in Tenants,
         NEW span \in {"minute", "day"}, NEW time \in Times,
         starts' = Seeded(counts, t, span, time)
  PROVE  StartsType'
  <1>1. CASE starts' = starts
    BY <1>1 DEF StartsType
  <1>2. CASE starts' # starts
    <2> DEFINE k == <<t, span, 0>>
               n == IF counts[span] > starts[k] THEN counts[span] ELSE starts[k]
    <2>1. counts # None /\ PeriodOf(span, time) = 0 /\ starts' = [starts EXCEPT ![k] = n]
      BY <1>2 DEF Seeded
    <2>2. k = StartKey(t, span, time) /\ span \in Spans
      BY <2>1 DEF StartKey, Spans
    <2>3. k \in StartKeys /\ k[2] = span
      BY <2>2, Keys
    <2>4. counts[span] \in 0 .. MaxLegacy
      BY <2>1 DEF Counts
    <2>5. n \in Nat /\ (n <= StartLimit[span] \/ n <= MaxLegacy)
      BY <2>2, <2>3, <2>4, Limits DEF StartsType
    <2> HIDE DEF k, n
    <2> QED
      BY <2>1, <2>3, <2>5 DEF StartsType
  <1> QED
    BY <1>1, <1>2

LEMMA CountKeeps ==
  ASSUME StartsType, NEW t \in Tenants, NEW span \in Spans, NEW time \in Times,
         NEW n \in Nat, n <= StartLimit[span] \/ n <= MaxLegacy,
         starts' = [starts EXCEPT ![StartKey(t, span, time)] = n]
  PROVE  StartsType'
  BY Keys DEF StartsType

LEMMA TurnKeeps ==
  ASSUME TurnType, NEW u \in Turns, NEW r \in Turned, turn' = [turn EXCEPT ![u] = r]
  PROVE  TurnType'
  BY DEF TurnType

LEMMA StartSteps ==
  ASSUME TypeOK, NEW u \in Turns,
         \/ \E t \in Tenants : ReadLegacy(u, t)
         \/ Seed(u) \/ ReadClock(u) \/ CarryDay(u) \/ Increment(u)
  PROVE  TypeOK'
  <1>0. StartsType /\ UsageType /\ HistoryType /\ WorldType /\ TurnType
    BY Parts
  <1>1. UsageType' /\ WorldType'
    BY <1>0 DEF ReadLegacy, Seed, ReadClock, CarryDay, Increment, UsageType, WorldType
  <1>2. turn[u] \in TurnStates /\ Complete(turn[u]) /\ now \in Times
    BY <1>0 DEF TurnType, Turned, WorldType
  <1>3. ASSUME NEW t \in Tenants, ReadLegacy(u, t)
        PROVE  StartsType' /\ HistoryType' /\ TurnType'
    <2> DEFINE r == [NoTurn EXCEPT !.step = "seedMinute", !.tenant = t, !.at = now, !.legacy = legacy[t]]
    <2>1. legacy[t] \in Counts \cup {None}
      BY <1>0 DEF WorldType
    <2>2. r \in Turned
      BY <1>2, <2>1, NoTurnFits, ScopeAssumption DEF Turned, TurnStates, Complete, Steps, NoTurn
    <2>3. turn' = [turn EXCEPT ![u] = r] /\ UNCHANGED <<starts, admitted, sent>>
      BY <1>3 DEF ReadLegacy
    <2> HIDE DEF r
    <2> QED
      BY <1>0, <2>2, <2>3, TurnKeeps DEF StartsType, HistoryType
  <1>4. ASSUME Seed(u)
        PROVE  StartsType' /\ HistoryType' /\ TurnType'
    <2> DEFINE s == turn[u]
               span == IF s.step = "seedMinute" THEN "minute" ELSE "day"
               r == [s EXCEPT !.step = IF @ = "seedMinute" THEN "seedDay" ELSE "clock",
                              !.legacy = IF s.step = "seedDay" THEN None ELSE @,
                              !.at = IF s.step = "seedDay" THEN 0 ELSE @]
    <2>1. /\ s.step \in {"seedMinute", "seedDay"} /\ s.tenant \in Tenants
          /\ s.legacy \in Counts \cup {None} /\ s.at \in Times
      BY <1>2, <1>4 DEF Seed, TurnStates, Complete
    <2>2. starts' = Seeded(s.legacy, s.tenant, span, s.at) /\ UNCHANGED <<admitted, sent>>
      BY <1>4 DEF Seed
    <2>3. turn' = [turn EXCEPT ![u] = r]
      BY <1>0, <1>4 DEF Seed, TurnType
    <2>4. r \in Turned
      BY <1>2, <2>1, Limits DEF Turned, TurnStates, Complete, Steps
    <2>5. span \in {"minute", "day"}
      OBVIOUS
    <2> HIDE DEF r, span
    <2> QED
      BY <1>0, <2>1, <2>2, <2>3, <2>4, <2>5, TurnKeeps, SeedKeeps DEF HistoryType
  <1>5. ASSUME CarryDay(u)
        PROVE  StartsType' /\ HistoryType' /\ TurnType'
    <2> DEFINE s == turn[u]
               t == s.tenant
               day == starts[StartKey(t, "day", s.at)]
               month == starts[StartKey(t, "month", s.at)]
               n == IF day > month THEN day ELSE month
               r == [s EXCEPT !.step = "minute"]
    <2>1. s.step = "carry" /\ t \in Tenants /\ s.at \in Times
      BY <1>2, <1>5 DEF CarryDay, TurnStates, Complete
    <2>2. /\ starts' = [starts EXCEPT ![StartKey(t, "month", s.at)] = n]
          /\ turn' = [turn EXCEPT ![u] = r] /\ UNCHANGED <<admitted, sent>>
      BY <1>0, <1>5 DEF CarryDay, Goto, TurnType
    <2>3. /\ day \in Nat /\ (day <= StartLimit["day"] \/ day <= MaxLegacy)
          /\ month \in Nat /\ (month <= StartLimit["month"] \/ month <= MaxLegacy)
      BY <1>0, <1>2, <2>1, Keys DEF StartsType, Spans
    <2>4. n \in Nat /\ (n <= StartLimit["month"] \/ n <= MaxLegacy)
      BY <2>3, LimitAssumption DEF Spans
    <2>5. r \in Turned
      BY <1>2, <2>1 DEF Turned, TurnStates, Complete, Steps
    <2> HIDE DEF r, n
    <2> QED
      BY <1>0, <2>1, <2>2, <2>4, <2>5, TurnKeeps, CountKeeps DEF HistoryType, Spans
  <1>8. ASSUME ReadClock(u)
        PROVE  StartsType' /\ HistoryType' /\ TurnType'
    <2> DEFINE r == [turn[u] EXCEPT !.step = "carry", !.at = now]
    <2>1. turn' = [turn EXCEPT ![u] = r] /\ UNCHANGED <<starts, admitted, sent>>
      BY <1>0, <1>8 DEF ReadClock, TurnType
    <2>2. r \in Turned
      BY <1>2, <1>8 DEF ReadClock, Turned, TurnStates, Complete, Steps
    <2> HIDE DEF r
    <2> QED
      BY <1>0, <2>1, <2>2, TurnKeeps DEF StartsType, HistoryType
  <1>6. ASSUME Increment(u)
        PROVE  StartsType' /\ HistoryType' /\ TurnType'
    <2> DEFINE s == turn[u]
               span == s.step
               key == StartKey(s.tenant, span, s.at)
               r == [s EXCEPT !.step = NextSpan[span], !.at = IF span = "month" THEN 0 ELSE @]
    <2>1. span \in Spans /\ s.tenant \in Tenants /\ s.at \in Times
      BY <1>2, <1>6 DEF Increment, TurnStates, Complete, Spans
    <2>2. key \in StartKeys /\ key[2] = span /\ starts[key] \in Nat
      BY <1>0, <2>1, Keys DEF StartsType
    <2>3. r \in Turned
      <3>1. NextSpan[span] \in {"day", "month", "ready"}
        BY <2>1 DEF NextSpan, Spans
      <3>2. s \in TurnStates /\ Complete(s) /\ s.step \in {"minute", "day", "month"} /\ 0 \in Times
        BY <1>2, <2>1, Limits DEF Spans
      <3> HIDE DEF span, s
      <3> QED
        BY <3>1, <3>2 DEF Turned, TurnStates, Complete, Steps
    <2>4. CASE Fits(starts[key], 1, StartLimit[span])
      <3>1. starts' = [starts EXCEPT ![key] = starts[key] + 1] /\ turn' = [turn EXCEPT ![u] = r]
        BY <1>0, <1>6, <2>2, <2>4 DEF Increment, StartsType, TurnType
      <3>2. starts[key] + 1 \in Nat /\ starts[key] + 1 <= StartLimit[span]
        BY <2>2, <2>4 DEF Fits
      <3>3. admitted' \in [StartKeys -> Nat] /\ sent' = sent
        BY <1>0, <1>6, <2>4 DEF Increment, HistoryType
      <3> HIDE DEF r, span
      <3>4. StartsType'
        BY <1>0, <2>1, <3>1, <3>2, CountKeeps
      <3> QED
        BY <1>0, <2>3, <3>1, <3>3, <3>4, TurnKeeps DEF HistoryType
    <2>5. CASE ~ Fits(starts[key], 1, StartLimit[span])
      <3>1. turn' = [turn EXCEPT ![u] = NoTurn] /\ UNCHANGED <<starts, admitted, sent>>
        BY <1>6, <2>5 DEF Increment, Refused
      <3> QED
        BY <1>0, <3>1, NoTurnFits, TurnKeeps DEF StartsType, HistoryType
    <2> QED
      BY <2>4, <2>5
  <1>7. StartsType' /\ HistoryType' /\ TurnType'
    BY <1>3, <1>4, <1>5, <1>6, <1>8
  <1> QED
    BY <1>1, <1>7, Parts DEF TypeOK, StartsType, UsageType, HistoryType, WorldType, TurnType, Turned, Complete

-----------------------------------------------------------------------------
(* Requests to the model, and the rest of the world                        *)

LEMMA ReserveKeeps ==
  ASSUME TypeOK, NEW u \in Turns, Reserve(u)
  PROVE  UsageType'
  <1> DEFINE s == turn[u]
             r == s.request
             Key(m) == UsageKey(s.tenant, m, now)
             Ok(m) == Fits(usage[Key(m)], Weight(r, m), MeterLimit[m])
  <1>1. UsageType /\ s \in TurnStates /\ Complete(s)
    BY Parts DEF TurnType, Turned
  <1>2. r \in Requests
    BY <1>1 DEF Reserve, TurnStates, Complete
  <1>3. usage' = [k \in UsageKeys |->
                    IF k[2] \in Charged(r) /\ k = Key(k[2]) /\ Ok(k[2])
                    THEN usage[k] + Weight(r, k[2]) ELSE usage[k]]
    BY DEF Reserve
  <1> HIDE DEF r, s
  <1>4. ASSUME NEW k \in UsageKeys
        PROVE  usage'[k] \in Nat /\ usage'[k] <= MeterLimit[k[2]]
    <2>1. /\ k[2] \in Meters /\ usage[k] \in Nat /\ usage[k] <= MeterLimit[k[2]]
          /\ Weight(r, k[2]) \in Nat /\ MeterLimit[k[2]] \in Nat
      BY <1>1, <1>2, Keys, Weights, Limits DEF UsageType
    <2>2. CASE k = Key(k[2]) /\ Ok(k[2])
      BY <1>3, <2>1, <2>2 DEF Fits
    <2>3. CASE ~ (k = Key(k[2]) /\ Ok(k[2]))
      BY <1>3, <2>1, <2>3
    <2> QED
      BY <2>2, <2>3
  <1>5. usage' \in [UsageKeys -> Nat]
    BY <1>3, <1>4
  <1> QED
    BY <1>4, <1>5 DEF UsageType

LEMMA RequestSteps ==
  ASSUME TypeOK, NEW u \in Turns,
         \/ \E r \in Requests : CallModel(u, r)
         \/ Compare(u) \/ Reserve(u) \/ Recheck(u) \/ Dispatch(u) \/ End(u) \/ SelectModel(u)
  PROVE  TypeOK'
  <1>0. StartsType /\ UsageType /\ HistoryType /\ WorldType /\ TurnType
    BY Parts
  <1>1. turn[u] \in TurnStates /\ Complete(turn[u]) /\ now \in Times
    BY <1>0 DEF TurnType, Turned, WorldType
  <1>2. StartsType' /\ WorldType' /\ admitted' = admitted
    BY <1>0 DEF CallModel, Compare, Reserve, Recheck, Dispatch, End, SelectModel, StartsType, WorldType
  <1>3. UsageType'
    BY <1>0, ReserveKeeps DEF CallModel, Compare, Recheck, Dispatch, End, SelectModel, UsageType
  <1>4. HistoryType'
    <2>1. CASE sent' = sent
      BY <1>0, <1>2, <2>1 DEF HistoryType
    <2>2. CASE Dispatch(u)
      <3>1. turn[u].request \in Requests
        BY <1>1, <2>2 DEF Dispatch, TurnStates, Complete
      <3>2. \A k \in UsageKeys : sent[k] \in Nat /\ Weight(turn[u].request, k[2]) \in Nat
        BY <1>0, <3>1, Keys, Weights DEF HistoryType
      <3>3. sent' \in [UsageKeys -> Nat]
        BY <2>2, <3>2 DEF Dispatch
      <3> QED
        BY <1>0, <1>2, <3>3 DEF HistoryType
    <2> QED
      BY <2>1, <2>2 DEF CallModel, Compare, Reserve, Recheck, End, SelectModel
  <1>5. ASSUME NEW r \in Turned, turn' = [turn EXCEPT ![u] = r]
        PROVE  TypeOK'
    <2>1. TurnType'
      BY <1>0, <1>5, TurnKeeps
    <2> QED
      BY <1>2, <1>3, <1>4, <2>1, Parts
         DEF TypeOK, StartsType, UsageType, HistoryType, WorldType, TurnType, Turned, Complete
  <1>6. CASE turn' = [turn EXCEPT ![u] = NoTurn]
    BY <1>5, <1>6, NoTurnFits
  <1>7. ASSUME NEW q \in Requests, CallModel(u, q), ~ Refused(u)
        PROVE  TypeOK'
    <2> DEFINE r == [turn[u] EXCEPT !.step = "select", !.request = q]
    <2>1. turn' = [turn EXCEPT ![u] = r]
      BY <1>0, <1>7 DEF CallModel, TurnType
    <2>2. r \in Turned
      BY <1>1, <1>7, ScopeAssumption DEF CallModel, Turned, TurnStates, Complete, Steps
    <2> QED
      BY <1>5, <2>1, <2>2
  <1>8. ASSUME Reserve(u), ~ Refused(u)
        PROVE  TypeOK'
    <2> DEFINE r == [turn[u] EXCEPT !.step = "recheck", !.at = now, !.fresh = Good(u)]
    <2>1. turn' = [turn EXCEPT ![u] = r] /\ turn[u].step = "reserve"
      BY <1>0, <1>8 DEF Reserve, TurnType
    <2>2. Good(u) \in SUBSET Checks
      BY DEF Good
    <2>3. r \in Turned
      BY <1>1, <2>1, <2>2 DEF Turned, TurnStates, Complete, Steps
    <2> QED
      BY <1>5, <2>1, <2>3
  <1>9. ASSUME Recheck(u), ~ Refused(u)
        PROVE  TypeOK'
    <2> DEFINE r == [turn[u] EXCEPT !.step = "compare"]
    <2>1. turn' = [turn EXCEPT ![u] = r] /\ turn[u].step = "recheck"
      BY <1>0, <1>9 DEF Recheck, Goto, TurnType
    <2>2. r \in Turned
      BY <1>1, <2>1 DEF Turned, TurnStates, Complete, Steps
    <2> QED
      BY <1>5, <2>1, <2>2
  <1>10. ASSUME Dispatch(u)
         PROVE  TypeOK'
    <2> DEFINE r == [turn[u] EXCEPT !.step = "ready", !.at = 0, !.request = None, !.fresh = {}]
    <2>1. turn' = [turn EXCEPT ![u] = r] /\ turn[u].step = "dispatch"
      BY <1>0, <1>10 DEF Dispatch, TurnType
    <2>2. r \in Turned
      BY <1>1, <2>1, Limits DEF Turned, TurnStates, Complete, Steps
    <2> QED
      BY <1>5, <2>1, <2>2
  <1>11. ASSUME SelectModel(u)
         PROVE  TypeOK'
    <2> DEFINE f == IF turn[u].step \in {"recheck", "compare"} /\ ~ turn[u].current
                    THEN turn[u].fresh \cup {"selection"} ELSE turn[u].fresh
               r == [turn[u] EXCEPT !.current = ~ @, !.fresh = f]
    <2>1. turn' = [turn EXCEPT ![u] = r]
      BY <1>0, <1>11 DEF SelectModel, TurnType
    <2>2. turn[u].fresh \in SUBSET Checks /\ turn[u].current \in BOOLEAN
      BY <1>1 DEF TurnStates
    <2>4. f \in SUBSET Checks
      BY <2>2
    <2> HIDE DEF f
    <2>3. r \in Turned
      BY <1>1, <2>2, <2>4 DEF Turned, TurnStates, Complete
    <2> QED
      BY <1>5, <2>1, <2>3
  <1>12. CASE End(u)
    BY <1>6, <1>12 DEF End, Refused
  <1>13. ASSUME Compare(u), ~ Refused(u)
         PROVE  TypeOK'
    <2> DEFINE r == [turn[u] EXCEPT !.step = IF @ = "select" THEN "reserve" ELSE "dispatch"]
    <2>1. turn' = [turn EXCEPT ![u] = r] /\ turn[u].step \in {"select", "compare"}
      BY <1>0, <1>13 DEF Compare, Goto, TurnType
    <2>2. r \in Turned
      BY <1>1, <2>1 DEF Turned, TurnStates, Complete, Steps
    <2> QED
      BY <1>5, <2>1, <2>2
  <1> QED
    BY <1>6, <1>7, <1>8, <1>9, <1>10, <1>11, <1>12, <1>13 DEF Refused

LEMMA WorldSteps ==
  ASSUME TypeOK,
         \/ \E t \in Tenants : EraseOriginal(t) \/ Revoke(t)
         \/ Tick \/ UNCHANGED vars
  PROVE  TypeOK'
  <1>0. StartsType /\ UsageType /\ HistoryType /\ WorldType /\ TurnType
    BY Parts
  <1>1. UNCHANGED <<usage, turn, before, admitted, sent>>
    BY DEF EraseOriginal, Revoke, Tick, vars
  <1>2. ASSUME StartsType', WorldType'
        PROVE  TypeOK'
    BY <1>0, <1>1, <1>2, Parts
       DEF TypeOK, StartsType, UsageType, HistoryType, WorldType, TurnType, Turned, Complete
  <1>3. ASSUME NEW t \in Tenants, EraseOriginal(t)
        PROVE  StartsType' /\ WorldType'
    <2> DEFINE step == eraser[t].step
               span == IF step = "seedDay" THEN "day" ELSE "minute"
               at == IF step = "idle" THEN now ELSE eraser[t].at
               e == [step |-> CASE step = "idle" -> "seedDay" [] step = "seedDay" -> "destroy"
                                [] step = "destroy" -> "idle",
                     at |-> IF step = "destroy" THEN 0 ELSE at]
    <2>1. /\ step \in {"idle", "seedDay", "destroy"} /\ at \in Times
          /\ legacy[t] \in Counts \cup {None}
      BY <1>0 DEF WorldType
    <2>2. StartsType'
      <3>1. CASE step = "destroy"
        BY <1>0, <1>3, <3>1 DEF EraseOriginal, StartsType
      <3>2. CASE step # "destroy"
        <4>1. starts' = Seeded(legacy[t], t, span, at) /\ span \in {"minute", "day"}
          BY <1>3, <3>2 DEF EraseOriginal
        <4> HIDE DEF span, at
        <4> QED
          BY <1>0, <2>1, <4>1, SeedKeeps
      <3> QED
        BY <3>1, <3>2
    <2>3. eraser' = [eraser EXCEPT ![t] = e]
      BY <1>3 DEF EraseOriginal
    <2>4. e \in [step: {"idle", "seedDay", "destroy"}, at: Times]
      BY <2>1, Limits
    <2>5. legacy' \in [Tenants -> Counts \cup {None}]
      BY <1>0, <1>3 DEF EraseOriginal, WorldType
    <2>6. UNCHANGED <<now, active, before>>
      BY <1>3 DEF EraseOriginal
    <2> HIDE DEF e
    <2> QED
      BY <1>0, <2>2, <2>3, <2>4, <2>5, <2>6 DEF WorldType
  <1>4. ASSUME NEW t \in Tenants, Revoke(t)
        PROVE  StartsType' /\ WorldType'
    BY <1>0, <1>4 DEF Revoke, StartsType, WorldType
  <1>5. CASE Tick
    <2>1. now + 1 \in Times
      BY <1>0, <1>5, Limits DEF Tick, WorldType, Times
    <2> QED
      BY <1>0, <1>2, <1>5, <2>1 DEF Tick, StartsType, WorldType
  <1>6. CASE UNCHANGED vars
    BY <1>0, <1>2, <1>6 DEF vars, StartsType, WorldType
  <1> QED
    BY <1>2, <1>3, <1>4, <1>5, <1>6

LEMMA TypeInit == Init => TypeOK
  <1> SUFFICES ASSUME Init
               PROVE  TypeOK
    OBVIOUS
  <1>1. StartsType /\ UsageType /\ HistoryType
    BY Keys, Limits DEF Init, Zero, StartsType, UsageType, HistoryType
  <1>2. WorldType
    BY Limits DEF Init, WorldType
  <1>3. TurnType
    BY NoTurnFits DEF Init, TurnType
  <1> QED
    BY <1>1, <1>2, <1>3, Parts

LEMMA TypeStep == TypeOK /\ [Next]_vars => TypeOK'
  BY StartSteps, RequestSteps, WorldSteps DEF Next, TurnStep

(* Counters never pass their limits, unless a count of the older version   *)
(* had, and turns and history keep their types (threads.ts,                *)
(* model-budgets.ts).                                                      *)
THEOREM TypeCorrect == Spec => []TypeOK
  BY TypeInit, TypeStep, PTL DEF Spec

-----------------------------------------------------------------------------
(* Authorisation after the reservation                                     *)

(* Of a reserved request, what is good now was good at some moment since   *)
(* the reservation: a session does not come back, and a selection that     *)
(* does counts from then.                                                  *)
Fresh(r, signedIn) ==
  /\ r.step = "recheck" /\ signedIn => "session" \in r.fresh
  /\ r.step \in {"compare", "dispatch"} => "session" \in r.fresh
  /\ r.step \in {"recheck", "compare"} /\ r.current => "selection" \in r.fresh
  /\ r.step = "dispatch" => "selection" \in r.fresh
FreshInv == \A u \in Turns : Fresh(turn[u], turn[u].tenant \in active)

(* A turn's step leaves the other turns and the sessions alone.            *)
LEMMA OthersStay ==
  ASSUME TypeOK, NEW u \in Turns, TurnStep(u)
  PROVE  (\A v \in Turns \ {u} : turn'[v] = turn[v]) /\ active' = active
  <1>0. turn \in [Turns -> Turned]
    BY Parts DEF TurnType
  <1>1. ASSUME NEW r, turn' = [turn EXCEPT ![u] = r]
        PROVE  \A v \in Turns \ {u} : turn'[v] = turn[v]
    BY <1>0, <1>1
  <1>2. CASE \E t \in Tenants : ReadLegacy(u, t)
    BY <1>1, <1>2 DEF ReadLegacy
  <1>3. CASE Seed(u) \/ ReadClock(u) \/ CarryDay(u) \/ End(u) \/ SelectModel(u)
    BY <1>0, <1>3 DEF Seed, ReadClock, CarryDay, End, SelectModel, Goto, Refused
  <1>4. CASE Increment(u) \/ Compare(u) \/ Reserve(u) \/ Recheck(u) \/ Dispatch(u)
    BY <1>0, <1>4 DEF Increment, Compare, Reserve, Recheck, Dispatch, Goto, Refused
  <1>5. CASE \E r \in Requests : CallModel(u, r)
    BY <1>0, <1>5 DEF CallModel, Refused
  <1> QED
    BY <1>2, <1>3, <1>4, <1>5 DEF TurnStep

LEMMA FreshStep == TypeOK /\ FreshInv /\ [Next]_vars => FreshInv'
  <1> SUFFICES ASSUME TypeOK, FreshInv, [Next]_vars
               PROVE  FreshInv'
    OBVIOUS
  <1>0. turn \in [Turns -> Turned]
    BY Parts DEF TurnType
  <1>1. ASSUME turn' = turn, active' \subseteq active
        PROVE  FreshInv'
    BY <1>1 DEF FreshInv, Fresh
  <1>2. ASSUME NEW u \in Turns, TurnStep(u)
        PROVE  FreshInv'
    <2>1. active' = active
      BY <1>2, OthersStay
    <2>2. \A v \in Turns \ {u} : turn'[v] = turn[v]
      BY <1>2, OthersStay
    <2>3. Fresh(turn'[u], turn'[u].tenant \in active)
      <3>1. CASE turn'[u].step \notin {"recheck", "compare", "dispatch"}
        BY <3>1 DEF Fresh
      <3>2. CASE Reserve(u)
        BY <1>0, <3>2 DEF Reserve, Refused, NoTurn, Good, Fresh, Turned, TurnStates
      <3>3. CASE Recheck(u)
        BY <1>0, <3>3 DEF Recheck, Refused, Goto, NoTurn, Good, FreshInv, Fresh, Turned, TurnStates
      <3>6. CASE Compare(u)
        BY <1>0, <3>6 DEF Compare, Selected, Refused, Goto, NoTurn, Good, FreshInv, Fresh, Turned, TurnStates
      <3>4. CASE SelectModel(u)
        BY <1>0, <3>4 DEF SelectModel, FreshInv, Fresh, Turned, TurnStates
      <3>5. ASSUME \/ \E t \in Tenants : ReadLegacy(u, t)
                   \/ Seed(u) \/ ReadClock(u) \/ CarryDay(u) \/ Increment(u)
                   \/ \E r \in Requests : CallModel(u, r)
                   \/ Dispatch(u) \/ End(u)
            PROVE  turn'[u].step \notin {"recheck", "compare", "dispatch"}
        <4>1. CASE (\E t \in Tenants : ReadLegacy(u, t)) \/ End(u)
          <5>1. CASE End(u)
            BY <1>0, <5>1 DEF End, Refused, NoTurn
          <5>2. ASSUME NEW t \in Tenants, ReadLegacy(u, t)
                PROVE  turn'[u].step = "seedMinute"
            BY <1>0, <5>2 DEF ReadLegacy, NoTurn
          <5> QED
            BY <4>1, <5>1, <5>2
        <4>2. CASE Seed(u) \/ ReadClock(u) \/ CarryDay(u) \/ Dispatch(u)
          BY <1>0, <4>2 DEF Seed, ReadClock, CarryDay, Dispatch, Goto, Turned, TurnStates
        <4>3. CASE Increment(u)
          <5>1. turn[u].step \in Spans
            BY <4>3 DEF Increment
          <5>2. NextSpan[turn[u].step] \in {"day", "month", "ready"}
            BY <5>1 DEF NextSpan, Spans
          <5>3. turn'[u].step \in {NextSpan[turn[u].step], "idle"}
            BY <1>0, <4>3 DEF Increment, Refused, NoTurn, Turned, TurnStates
          <5> QED
            BY <5>2, <5>3
        <4>4. CASE \E r \in Requests : CallModel(u, r)
          BY <1>0, <4>4 DEF CallModel, Refused, NoTurn, Turned, TurnStates
        <4> QED
          BY <3>5, <4>1, <4>2, <4>3, <4>4
      <3> QED
        BY <1>2, <3>1, <3>2, <3>3, <3>4, <3>5, <3>6 DEF TurnStep
    <2> QED
      BY <2>1, <2>2, <2>3 DEF FreshInv
  <1>3. CASE \E t \in Tenants : EraseOriginal(t) \/ Revoke(t)
    BY <1>1, <1>3 DEF EraseOriginal, Revoke
  <1>4. CASE Tick \/ UNCHANGED vars
    BY <1>1, <1>4 DEF Tick, vars
  <1> QED
    BY <1>2, <1>3, <1>4 DEF Next

(* Nothing is sent to the provider on an authorisation or a selection that *)
(* was withdrawn before the request was reserved (model-fetch.ts).         *)
THEOREM DispatchedFresh == Spec => []DispatchIsFresh
  <1>1. Init => FreshInv
    BY DEF Init, FreshInv, Fresh, NoTurn
  <1>2. Spec => []FreshInv
    BY <1>1, FreshStep, TypeCorrect, PTL DEF Spec
  <1>3. TypeOK /\ FreshInv => DispatchIsFresh
    <2> SUFFICES ASSUME TypeOK, FreshInv, NEW u \in Turns, turn[u].step = "dispatch"
                 PROVE  turn[u].fresh = Checks
      BY DEF DispatchIsFresh
    <2>1. turn[u].fresh \in SUBSET Checks
      BY Parts DEF TurnType, Turned, TurnStates
    <2> QED
      BY <2>1 DEF FreshInv, Fresh
  <1> QED
    BY <1>2, <1>3, TypeCorrect, PTL

-----------------------------------------------------------------------------
(* What one turn does                                                      *)

(* The turn that moves, before and after, when it is still being admitted. *)
LEMMA Admitting ==
  ASSUME TypeOK, NEW u \in Turns
  PROVE  /\ \A t \in Tenants : ReadLegacy(u, t) =>
              /\ turn'[u].step = "seedMinute" /\ turn'[u].tenant = t /\ turn'[u].at = now
              /\ turn'[u].legacy = legacy[t] /\ starts' = starts
         /\ Seed(u) =>
              /\ turn'[u].tenant = turn[u].tenant
              /\ \/ /\ turn[u].step = "seedMinute" /\ turn'[u].step = "seedDay"
                    /\ turn'[u].at = turn[u].at /\ turn'[u].legacy = turn[u].legacy
                    /\ starts' = Seeded(turn[u].legacy, turn[u].tenant, "minute", turn[u].at)
                 \/ /\ turn[u].step = "seedDay" /\ turn'[u].step = "clock" /\ turn'[u].at = 0
                    /\ starts' = Seeded(turn[u].legacy, turn[u].tenant, "day", turn[u].at)
         /\ ReadClock(u) =>
              /\ turn[u].step = "clock" /\ turn'[u].step = "carry" /\ turn'[u].at = now
              /\ turn'[u].tenant = turn[u].tenant /\ starts' = starts
         /\ CarryDay(u) =>
              /\ turn[u].step = "carry" /\ turn'[u].step = "minute" /\ turn'[u].at = turn[u].at
              /\ turn'[u].tenant = turn[u].tenant
         /\ Increment(u) =>
              \/ turn'[u] = NoTurn /\ UNCHANGED <<starts, admitted>>
              \/ /\ turn[u].step \in Spans /\ turn'[u].step = NextSpan[turn[u].step]
                 /\ turn'[u].tenant = turn[u].tenant
                 /\ turn'[u].at = IF turn[u].step = "month" THEN 0 ELSE turn[u].at
  <1>0. turn \in [Turns -> Turned] /\ turn[u] \in TurnStates /\ now \in Times
    BY Parts DEF TurnType, WorldType, Turned
  <1>1. ASSUME NEW t \in Tenants, ReadLegacy(u, t)
        PROVE  /\ turn'[u].step = "seedMinute" /\ turn'[u].tenant = t /\ turn'[u].at = now
               /\ turn'[u].legacy = legacy[t] /\ starts' = starts
    BY <1>0, <1>1 DEF ReadLegacy, NoTurn
  <1>2. ASSUME Seed(u)
        PROVE  /\ turn'[u].tenant = turn[u].tenant
               /\ \/ /\ turn[u].step = "seedMinute" /\ turn'[u].step = "seedDay"
                     /\ turn'[u].at = turn[u].at /\ turn'[u].legacy = turn[u].legacy
                     /\ starts' = Seeded(turn[u].legacy, turn[u].tenant, "minute", turn[u].at)
                  \/ /\ turn[u].step = "seedDay" /\ turn'[u].step = "clock" /\ turn'[u].at = 0
                     /\ starts' = Seeded(turn[u].legacy, turn[u].tenant, "day", turn[u].at)
    <2>1. CASE turn[u].step = "seedMinute"
      BY <1>0, <1>2, <2>1 DEF Seed, TurnStates
    <2>2. CASE turn[u].step = "seedDay"
      BY <1>0, <1>2, <2>2 DEF Seed, TurnStates
    <2> QED
      BY <1>2, <2>1, <2>2 DEF Seed
  <1>3. ASSUME ReadClock(u)
        PROVE  /\ turn[u].step = "clock" /\ turn'[u].step = "carry" /\ turn'[u].at = now
               /\ turn'[u].tenant = turn[u].tenant /\ starts' = starts
    BY <1>0, <1>3 DEF ReadClock, TurnStates
  <1>4. ASSUME CarryDay(u)
        PROVE  /\ turn[u].step = "carry" /\ turn'[u].step = "minute" /\ turn'[u].at = turn[u].at
               /\ turn'[u].tenant = turn[u].tenant
    BY <1>0, <1>4 DEF CarryDay, Goto, TurnStates
  <1>5. ASSUME Increment(u)
        PROVE  \/ turn'[u] = NoTurn /\ UNCHANGED <<starts, admitted>>
               \/ /\ turn[u].step \in Spans /\ turn'[u].step = NextSpan[turn[u].step]
                  /\ turn'[u].tenant = turn[u].tenant
                  /\ turn'[u].at = IF turn[u].step = "month" THEN 0 ELSE turn[u].at
    BY <1>0, <1>5 DEF Increment, Refused, TurnStates
  <1> QED
    BY <1>1, <1>2, <1>3, <1>4, <1>5

(* And once it has been admitted.                                          *)
LEMMA Answering ==
  ASSUME TypeOK, NEW u \in Turns
  PROVE  /\ (\E r \in Requests : CallModel(u, r)) =>
              /\ turn[u].step = "ready"
              /\ turn'[u] = NoTurn \/ (turn'[u].step = "select" /\ turn'[u].at = turn[u].at)
         /\ Compare(u) =>
              /\ turn[u].step \in {"select", "compare"}
              /\ \/ turn'[u] = NoTurn
                 \/ /\ turn'[u].step = IF turn[u].step = "select" THEN "reserve" ELSE "dispatch"
                    /\ turn'[u].at = turn[u].at
                    /\ turn'[u].tenant = turn[u].tenant /\ turn'[u].request = turn[u].request
         /\ Reserve(u) =>
              /\ turn[u].step = "reserve"
              /\ \/ turn'[u] = NoTurn
                 \/ /\ turn'[u].step = "recheck" /\ turn'[u].at = now
                    /\ turn'[u].tenant = turn[u].tenant /\ turn'[u].request = turn[u].request
         /\ Recheck(u) =>
              /\ turn[u].step = "recheck"
              /\ \/ turn'[u] = NoTurn
                 \/ /\ turn'[u].step = "compare" /\ turn'[u].at = turn[u].at
                    /\ turn'[u].tenant = turn[u].tenant /\ turn'[u].request = turn[u].request
         /\ Dispatch(u) =>
              turn[u].step = "dispatch" /\ turn'[u].step = "ready" /\ turn'[u].at = 0
         /\ End(u) => turn'[u] = NoTurn
         /\ SelectModel(u) =>
              /\ turn[u].step \in {"ready"} \cup Loaded
              /\ turn'[u].step = turn[u].step /\ turn'[u].at = turn[u].at
              /\ turn'[u].tenant = turn[u].tenant /\ turn'[u].request = turn[u].request
  <1>0. turn \in [Turns -> Turned] /\ turn[u] \in TurnStates /\ now \in Times
    BY Parts DEF TurnType, WorldType, Turned
  <1>1. ASSUME NEW r \in Requests, CallModel(u, r)
        PROVE  /\ turn[u].step = "ready"
               /\ turn'[u] = NoTurn \/ (turn'[u].step = "select" /\ turn'[u].at = turn[u].at)
    BY <1>0, <1>1 DEF CallModel, Refused, TurnStates
  <1>2. ASSUME Reserve(u)
        PROVE  /\ turn[u].step = "reserve"
               /\ \/ turn'[u] = NoTurn
                  \/ /\ turn'[u].step = "recheck" /\ turn'[u].at = now
                     /\ turn'[u].tenant = turn[u].tenant /\ turn'[u].request = turn[u].request
    BY <1>0, <1>2 DEF Reserve, Refused, TurnStates
  <1>3. ASSUME Recheck(u)
        PROVE  /\ turn[u].step = "recheck"
               /\ \/ turn'[u] = NoTurn
                  \/ /\ turn'[u].step = "compare" /\ turn'[u].at = turn[u].at
                     /\ turn'[u].tenant = turn[u].tenant /\ turn'[u].request = turn[u].request
    BY <1>0, <1>3 DEF Recheck, Goto, Refused, TurnStates
  <1>4. ASSUME Dispatch(u)
        PROVE  turn[u].step = "dispatch" /\ turn'[u].step = "ready" /\ turn'[u].at = 0
    BY <1>0, <1>4 DEF Dispatch, TurnStates
  <1>5. ASSUME End(u)
        PROVE  turn'[u] = NoTurn
    BY <1>0, <1>5 DEF End, Refused
  <1>6. ASSUME SelectModel(u)
        PROVE  /\ turn[u].step \in {"ready"} \cup Loaded
               /\ turn'[u].step = turn[u].step /\ turn'[u].at = turn[u].at
               /\ turn'[u].tenant = turn[u].tenant /\ turn'[u].request = turn[u].request
    BY <1>0, <1>6 DEF SelectModel, TurnStates
  <1>7. ASSUME Compare(u)
        PROVE  /\ turn[u].step \in {"select", "compare"}
               /\ \/ turn'[u] = NoTurn
                  \/ /\ turn'[u].step = IF turn[u].step = "select" THEN "reserve" ELSE "dispatch"
                     /\ turn'[u].at = turn[u].at
                     /\ turn'[u].tenant = turn[u].tenant /\ turn'[u].request = turn[u].request
    BY <1>0, <1>7 DEF Compare, Goto, Refused, TurnStates
  <1> QED
    BY <1>1, <1>2, <1>3, <1>4, <1>5, <1>6, <1>7

-----------------------------------------------------------------------------
(* The older version's counts                                              *)

(* A seed raises one counter to the count it carries, if that is of the    *)
(* period it falls in.                                                     *)
LEMMA SeedRaises ==
  ASSUME StartsType, NEW counts \in Counts \cup {None}, NEW t \in Tenants,
         NEW span \in {"minute", "day"}, NEW time \in Times,
         starts' = Seeded(counts, t, span, time)
  PROVE  /\ \A k \in StartKeys : starts[k] <= starts'[k]
         /\ counts # None /\ PeriodOf(span, time) = 0 =>
              <<t, span, 0>> \in StartKeys /\ counts[span] <= starts'[<<t, span, 0>>]
  <1>1. \A k \in StartKeys : starts[k] \in Nat
    BY DEF StartsType
  <1>2. CASE counts = None \/ PeriodOf(span, time) # 0
    BY <1>1, <1>2 DEF Seeded
  <1>3. CASE ~ (counts = None \/ PeriodOf(span, time) # 0)
    <2> DEFINE k == <<t, span, 0>>
               n == IF counts[span] > starts[k] THEN counts[span] ELSE starts[k]
    <2>1. k = StartKey(t, span, time) /\ span \in Spans
      BY <1>3 DEF StartKey, Spans
    <2>2. k \in StartKeys
      BY <2>1, Keys
    <2>3. starts' = [starts EXCEPT ![k] = n]
      BY <1>3 DEF Seeded
    <2>4. counts[span] \in Nat /\ starts[k] \in Nat
      BY <1>1, <1>3, <2>2, Limits DEF Counts
    <2>5. starts[k] <= n /\ counts[span] <= n
      BY <2>4
    <2> HIDE DEF k, n
    <2>6. starts'[k] = n /\ \A j \in StartKeys \ {k} : starts'[j] = starts[j]
      BY <2>2, <2>3 DEF StartsType
    <2> QED
      BY <1>1, <1>3, <2>2, <2>5, <2>6 DEF k
  <1> QED
    BY <1>2, <1>3

LEMMA CountersGrow ==
  ASSUME TypeOK, [Next]_vars
  PROVE  /\ \A k \in StartKeys : starts[k] <= starts'[k]
         /\ before' = before /\ now \in Times /\ now' \in Times /\ now <= now'
  <1>0. StartsType /\ WorldType /\ \A u \in Turns : turn[u] \in TurnStates /\ Complete(turn[u])
    BY Parts DEF TurnType, Turned
  <1>1. now \in Times /\ \A k \in StartKeys : starts[k] \in Nat
    BY <1>0 DEF WorldType, StartsType
  <1>2. ASSUME NEW t \in Tenants, NEW span \in Spans, NEW time \in Times, NEW n \in Nat,
               starts[StartKey(t, span, time)] <= n,
               starts' = [starts EXCEPT ![StartKey(t, span, time)] = n]
        PROVE  \A k \in StartKeys : starts[k] <= starts'[k]
    <2>1. StartKey(t, span, time) \in StartKeys /\ starts \in [StartKeys -> Nat]
      BY <1>0, Keys DEF StartsType
    <2> QED
      BY <1>1, <1>2, <2>1
  <1>3. ASSUME starts' = starts
        PROVE  \A k \in StartKeys : starts[k] <= starts'[k]
    BY <1>1, <1>3
  <1>4. ASSUME NEW u \in Turns, TurnStep(u)
        PROVE  /\ \A k \in StartKeys : starts[k] <= starts'[k]
               /\ before' = before /\ now' = now
    <2>1. turn[u].step # "idle" => turn[u].tenant \in Tenants
      BY <1>0 DEF Complete, TurnStates
    <2>2. turn[u].at \in Times /\ turn[u].legacy \in Counts \cup {None}
      BY <1>0 DEF TurnStates
    <2>3. CASE Seed(u)
      <3>1. PICK span \in {"minute", "day"} :
              starts' = Seeded(turn[u].legacy, turn[u].tenant, span, turn[u].at)
        BY <2>3, Admitting
      <3>2. turn[u].tenant \in Tenants /\ before' = before /\ now' = now
        BY <2>1, <2>3 DEF Seed
      <3> QED
        BY <1>0, <2>2, <3>1, <3>2, SeedRaises
    <2>4. CASE CarryDay(u)
      <3> DEFINE day == starts[StartKey(turn[u].tenant, "day", turn[u].at)]
                 month == starts[StartKey(turn[u].tenant, "month", turn[u].at)]
                 n == IF day > month THEN day ELSE month
      <3>1. turn[u].tenant \in Tenants /\ before' = before /\ now' = now
            /\ starts' = [starts EXCEPT ![StartKey(turn[u].tenant, "month", turn[u].at)] = n]
        BY <2>1, <2>4 DEF CarryDay
      <3>2. day \in Nat /\ month \in Nat
        BY <1>1, <2>2, <3>1, Keys DEF Spans
      <3>3. n \in Nat /\ month <= n
        BY <3>2
      <3> HIDE DEF n
      <3> QED
        BY <1>2, <2>2, <3>1, <3>3 DEF Spans
    <2>5. CASE Increment(u)
      <3> DEFINE key == StartKey(turn[u].tenant, turn[u].step, turn[u].at)
                 n == starts[key] + 1
      <3>1. turn[u].tenant \in Tenants /\ before' = before /\ now' = now /\ turn[u].step \in Spans
        BY <2>1, <2>5 DEF Increment, Spans
      <3>2. starts' = starts \/ starts' = [starts EXCEPT ![key] = n]
        BY <1>0, <2>5, <3>1, <2>2, Keys DEF Increment, StartsType
      <3>3. n \in Nat /\ starts[key] <= n
        BY <1>1, <2>2, <3>1, Keys
      <3> HIDE DEF n
      <3> QED
        BY <1>2, <1>3, <2>2, <3>1, <3>2, <3>3
    <2>6. CASE ~ (Seed(u) \/ CarryDay(u) \/ Increment(u))
      <3>1. ASSUME NEW t \in Tenants, ReadLegacy(u, t)
            PROVE  starts' = starts /\ before' = before /\ now' = now
        BY <3>1 DEF ReadLegacy
      <3>2. ASSUME NEW r \in Requests, CallModel(u, r)
            PROVE  starts' = starts /\ before' = before /\ now' = now
        BY <3>2 DEF CallModel
      <3>3. ReadClock(u) \/ End(u) \/ SelectModel(u) => starts' = starts /\ before' = before /\ now' = now
        BY DEF ReadClock, End, SelectModel
      <3>5. Compare(u) \/ Reserve(u) \/ Recheck(u) \/ Dispatch(u) =>
              starts' = starts /\ before' = before /\ now' = now
        BY DEF Compare, Reserve, Recheck, Dispatch
      <3>4. starts' = starts /\ before' = before /\ now' = now
        BY <1>4, <2>6, <3>1, <3>2, <3>3, <3>5 DEF TurnStep
      <3> QED
        BY <1>3, <3>4
    <2> QED
      BY <2>3, <2>4, <2>5, <2>6
  <1>5. ASSUME NEW t \in Tenants, EraseOriginal(t)
        PROVE  /\ \A k \in StartKeys : starts[k] <= starts'[k]
               /\ before' = before /\ now' = now
    <2>1. starts' = starts \/ \E span \in {"minute", "day"}, time \in Times :
                                 starts' = Seeded(legacy[t], t, span, time)
      BY <1>0, <1>5 DEF EraseOriginal, WorldType
    <2>2. legacy[t] \in Counts \cup {None}
      BY <1>0 DEF WorldType
    <2>3. before' = before /\ now' = now
      BY <1>5 DEF EraseOriginal
    <2> QED
      BY <1>0, <1>3, <2>1, <2>2, <2>3, SeedRaises
  <1>6. CASE Tick
    <2>1. now' = now + 1 /\ now' \in Times
      BY <1>1, <1>6, Limits DEF Tick, Times
    <2> QED
      BY <1>1, <1>3, <1>6, <2>1 DEF Tick, Times
  <1>7. CASE UNCHANGED vars \/ \E t \in Tenants : Revoke(t)
    <2>1. starts' = starts /\ before' = before /\ now' = now
      BY <1>7 DEF vars, Revoke
    <2> QED
      BY <1>1, <1>3, <2>1 DEF Times
  <1>8. now' = now => now' \in Times /\ now <= now'
    BY <1>1 DEF Times
  <1> QED
    BY <1>1, <1>4, <1>5, <1>6, <1>7, <1>8 DEF Next

(* Once the counter has what the older version counted in its first        *)
(* period; other periods need nothing.                                     *)
SeededAt(t, span, time) == PeriodOf(span, time) = 0 => before[t][span] <= starts[<<t, span, 0>>]
BothAt(t, time) == SeededAt(t, "minute", time) /\ SeededAt(t, "day", time)

(* The counts are destroyed only after they were carried over.             *)
EraserSeeded(t) ==
  LET e == eraser[t] IN
  /\ legacy[t] \in {before[t], None}
  /\ e.at <= now
  /\ legacy[t] = None => BothAt(t, now)
  /\ e.step # "idle" => SeededAt(t, "minute", e.at)
  /\ e.step = "destroy" \/ (e.step = "seedDay" /\ legacy[t] = None) => SeededAt(t, "day", e.at)

(* A turn that increments has carried them over, or found them gone.       *)
TurnSeeded(r) ==
  /\ r.at <= now
  /\ r.step \in {"seedMinute", "seedDay"} =>
       r.legacy \in {before[r.tenant], None} /\ (r.legacy = None => BothAt(r.tenant, r.at))
  /\ r.step = "seedDay" => SeededAt(r.tenant, "minute", r.at)
  /\ r.step = "clock" => BothAt(r.tenant, now)
  /\ r.step \in {"carry", "minute", "day", "month"} => BothAt(r.tenant, r.at)

SeedInv == (\A t \in Tenants : EraserSeeded(t)) /\ (\A u \in Turns : TurnSeeded(turn[u]))

(* If a time falls in the first period, so does an earlier one.            *)
LEMMA FirstPeriod ==
  ASSUME NEW span \in {"minute", "day"}, NEW a \in Times, NEW b \in Times, a <= b,
         PeriodOf(span, b) = 0
  PROVE  PeriodOf(span, a) = 0
  <1>1. a \in Nat /\ b \in Nat
    BY Limits DEF Times
  <1>2. CASE span = "minute"
    BY <1>1, <1>2 DEF PeriodOf
  <1>3. CASE span = "day"
    <2>1. b \div MinutesPerDay = 0
      BY <1>3 DEF PeriodOf
    <2>2. a \div MinutesPerDay = 0
      BY <1>1, <2>1, CalendarAssumption
    <2> QED
      BY <1>3, <2>2 DEF PeriodOf
  <1> QED
    BY <1>2, <1>3

LEMMA SeededLater ==
  ASSUME NEW t \in Tenants, NEW span \in {"minute", "day"}, NEW a \in Times, NEW b \in Times, a <= b,
         SeededAt(t, span, a)
  PROVE  SeededAt(t, span, b)
  BY FirstPeriod DEF SeededAt

(* The same after a step.                                                  *)
SeededThen(t, span, time) == PeriodOf(span, time) = 0 => before'[t][span] <= starts'[<<t, span, 0>>]
BothThen(t, time) == SeededThen(t, "minute", time) /\ SeededThen(t, "day", time)

LEMMA SeededStays ==
  ASSUME TypeOK, [Next]_vars, NEW t \in Tenants, NEW span \in {"minute", "day"}, NEW time \in Times,
         SeededAt(t, span, time)
  PROVE  SeededThen(t, span, time)
  <1> SUFFICES ASSUME PeriodOf(span, time) = 0
               PROVE  before'[t][span] <= starts'[<<t, span, 0>>]
    BY DEF SeededThen
  <1>1. <<t, span, 0>> = StartKey(t, span, time) /\ span \in Spans
    BY DEF StartKey, Spans
  <1>2. <<t, span, 0>> \in StartKeys
    BY <1>1, Keys
  <1>3. starts[<<t, span, 0>>] <= starts'[<<t, span, 0>>] /\ before' = before
    BY <1>2, CountersGrow
  <1>4. starts[<<t, span, 0>>] \in Nat /\ starts'[<<t, span, 0>>] \in Nat
    <2>1. TypeOK'
      BY TypeStep
    <2> QED
      BY <1>2, <2>1 DEF TypeOK
  <1>5. before[t][span] \in Nat /\ before[t][span] <= starts[<<t, span, 0>>]
    <2>1. before[t] \in Counts
      BY DEF TypeOK
    <2> QED
      BY <2>1, Limits DEF SeededAt, Counts, SeededThen
  <1> QED
    BY <1>3, <1>4, <1>5

(* What is carried over now stays carried over as the clock moves.         *)
LEMMA SeededNow ==
  ASSUME TypeOK, [Next]_vars, NEW t \in Tenants, NEW span \in {"minute", "day"}, SeededAt(t, span, now)
  PROVE  SeededThen(t, span, now')
  <1>1. now \in Times /\ now' \in Times /\ now <= now'
    BY CountersGrow
  <1> DEFINE time == now'
  <1>2. SeededAt(t, span, time)
    BY <1>1, SeededLater
  <1> SUFFICES ASSUME PeriodOf(span, time) = 0
               PROVE  before'[t][span] <= starts'[<<t, span, 0>>]
    BY DEF SeededThen
  <1>3. PeriodOf(span, now) = 0
    BY <1>1, FirstPeriod
  <1>4. SeededAt(t, span, 0)
    BY <1>3 DEF SeededAt, SeededThen
  <1>5. SeededThen(t, span, 0)
    BY <1>4, SeededStays, Limits
  <1>6. PeriodOf(span, 0) = 0
    BY <1>1, <1>3, FirstPeriod, Limits DEF Times
  <1> QED
    BY <1>5, <1>6 DEF SeededAt, SeededThen

(* A seed of the counts that are kept, or of counts found gone.            *)
LEMMA SeedSeeds ==
  ASSUME TypeOK, [Next]_vars, NEW t \in Tenants, NEW span \in {"minute", "day"}, NEW time \in Times,
         NEW counts \in {before[t], None}, counts = None => SeededAt(t, span, time),
         starts' = Seeded(counts, t, span, time)
  PROVE  SeededThen(t, span, time)
  <1>1. CASE counts = None
    BY <1>1, SeededStays
  <1>2. CASE counts # None
    <2>1. counts = before[t] /\ counts \in Counts \cup {None} /\ StartsType
      BY <1>2, Parts DEF WorldType
    <2>2. before' = before
      BY CountersGrow
    <2>3. PeriodOf(span, time) = 0 => counts[span] <= starts'[<<t, span, 0>>]
      BY <1>2, <2>1, SeedRaises
    <2> QED
      BY <2>1, <2>2, <2>3 DEF SeededAt, SeededThen
  <1> QED
    BY <1>1, <1>2

(* What a turn that waits has carried over stays carried over.             *)
LEMMA TurnsStaySeeded ==
  ASSUME TypeOK, [Next]_vars, NEW r \in Turned, TurnSeeded(r)
  PROVE  TurnSeeded(r)'
  <1>1. now \in Times /\ now' \in Times /\ now <= now' /\ before' = before /\ r.at \in Times
    BY CountersGrow DEF Turned, TurnStates
  <1>2. r.at <= now'
    BY <1>1 DEF TurnSeeded, Times
  <1>3. r.step # "idle" => r.tenant \in Tenants
    BY DEF Turned, Complete, TurnStates
  <1>4. ASSUME NEW span \in {"minute", "day"}, r.tenant \in Tenants, SeededAt(r.tenant, span, r.at)
        PROVE  SeededThen(r.tenant, span, r.at)
    BY <1>1, <1>4, SeededStays
  <1>5. ASSUME NEW span \in {"minute", "day"}, r.tenant \in Tenants, SeededAt(r.tenant, span, now)
        PROVE  SeededThen(r.tenant, span, now')
    BY <1>5, SeededNow
  <1>6. r.step \in {"seedMinute", "seedDay"} =>
          r.legacy \in {before'[r.tenant], None} /\ (r.legacy = None => BothThen(r.tenant, r.at))
    BY <1>1, <1>3, <1>4 DEF TurnSeeded, BothAt, BothThen
  <1>7. r.step = "seedDay" => SeededThen(r.tenant, "minute", r.at)
    BY <1>3, <1>4 DEF TurnSeeded
  <1>8. r.step = "clock" => BothThen(r.tenant, now')
    BY <1>3, <1>5 DEF TurnSeeded, BothAt, BothThen
  <1>9. r.step \in {"carry", "minute", "day", "month"} => BothThen(r.tenant, r.at)
    BY <1>3, <1>4 DEF TurnSeeded, BothAt, BothThen
  <1> QED
    BY <1>2, <1>6, <1>7, <1>8, <1>9 DEF TurnSeeded, BothAt, SeededAt, BothThen, SeededThen

LEMMA ErasersStaySeeded ==
  ASSUME TypeOK, SeedInv, [Next]_vars, NEW t \in Tenants
  PROVE  EraserSeeded(t)'
  <1>0. /\ EraserSeeded(t) /\ now \in Times /\ now' \in Times /\ now <= now' /\ before' = before
        /\ eraser \in [Tenants -> [step: {"idle", "seedDay", "destroy"}, at: Times]]
        /\ legacy \in [Tenants -> Counts \cup {None}] /\ before[t] \in Counts
    BY CountersGrow DEF SeedInv, TypeOK
  <1>1. /\ eraser[t].at \in Times /\ eraser[t].step \in {"idle", "seedDay", "destroy"}
        /\ legacy[t] \in {before[t], None} /\ eraser[t].at <= now /\ eraser[t].at <= now'
    BY <1>0 DEF EraserSeeded, Times
  <1>2. BothAt(t, now) => BothThen(t, now')
    BY SeededNow DEF BothAt, BothThen
  <1>3. ASSUME NEW span \in {"minute", "day"}, NEW time \in Times, SeededAt(t, span, time)
        PROVE  SeededThen(t, span, time)
    BY <1>3, SeededStays
  <1>4. ASSUME legacy'[t] = legacy[t], eraser'[t] = eraser[t]
        PROVE  EraserSeeded(t)'
    <2>1. eraser[t].step # "idle" => SeededThen(t, "minute", eraser[t].at)
      BY <1>0, <1>1, <1>3 DEF EraserSeeded
    <2>2. eraser[t].step = "destroy" \/ (eraser[t].step = "seedDay" /\ legacy[t] = None) =>
            SeededThen(t, "day", eraser[t].at)
      BY <1>0, <1>1, <1>3 DEF EraserSeeded
    <2>3. legacy[t] = None => BothThen(t, now')
      BY <1>0, <1>2 DEF EraserSeeded
    <2> QED
      BY <1>0, <1>1, <1>4, <2>1, <2>2, <2>3 DEF EraserSeeded, BothAt, SeededAt, BothThen, SeededThen
  <1>5. ASSUME EraseOriginal(t)
        PROVE  EraserSeeded(t)'
    <2> DEFINE e == eraser[t]
    <2>1. now' = now
      BY <1>5 DEF EraseOriginal
    <2>2. CASE e.step = "idle"
      <3>1. /\ starts' = Seeded(legacy[t], t, "minute", now) /\ legacy' = legacy
            /\ eraser'[t] = [step |-> "seedDay", at |-> now]
        BY <1>0, <1>5, <2>2 DEF EraseOriginal
      <3>2. SeededThen(t, "minute", now')
        <4> DEFINE time == now
                   counts == legacy[t]
        <4>1. counts \in {before[t], None} /\ time \in Times /\ starts' = Seeded(counts, t, "minute", time)
          BY <1>0, <1>1, <3>1
        <4>2. counts = None => SeededAt(t, "minute", time)
          BY <1>0 DEF EraserSeeded, BothAt, BothThen
        <4> HIDE DEF time, counts
        <4>3. SeededThen(t, "minute", time)
          BY <4>1, <4>2, SeedSeeds
        <4> QED
          BY <2>1, <4>3 DEF time, SeededAt, SeededThen
      <3>3. legacy[t] = None => BothThen(t, now')
        BY <1>0, <1>2 DEF EraserSeeded
      <3> QED
        BY <1>0, <1>1, <2>1, <3>1, <3>2, <3>3 DEF EraserSeeded, BothAt, SeededAt, SeededThen, BothThen
    <2>3. CASE e.step = "seedDay"
      <3>1. /\ starts' = Seeded(legacy[t], t, "day", e.at) /\ legacy' = legacy
            /\ eraser'[t] = [step |-> "destroy", at |-> e.at]
        BY <1>0, <1>5, <2>3 DEF EraseOriginal
      <3>2. SeededThen(t, "day", e.at)
        <4> DEFINE time == e.at
                   counts == legacy[t]
        <4>1. counts \in {before[t], None} /\ time \in Times /\ starts' = Seeded(counts, t, "day", time)
          BY <1>0, <1>1, <3>1
        <4>2. counts = None => SeededAt(t, "day", time)
          BY <1>0, <2>3 DEF EraserSeeded
        <4> HIDE DEF time, counts
        <4>3. SeededThen(t, "day", time)
          BY <4>1, <4>2, SeedSeeds
        <4> QED
          BY <3>1, <4>3 DEF time, SeededAt, SeededThen
      <3>3. SeededThen(t, "minute", e.at)
        BY <1>0, <1>1, <1>3, <2>3 DEF EraserSeeded
      <3>4. legacy[t] = None => BothThen(t, now')
        BY <1>0, <1>2 DEF EraserSeeded
      <3> QED
        BY <1>0, <1>1, <2>1, <3>1, <3>2, <3>3, <3>4 DEF EraserSeeded, BothAt, SeededAt, BothThen, SeededThen
    <2>4. CASE e.step = "destroy"
      <3>1. legacy'[t] = None /\ eraser'[t] = [step |-> "idle", at |-> 0]
        BY <1>0, <1>5, <2>4 DEF EraseOriginal
      <3>2. SeededAt(t, "minute", e.at) /\ SeededAt(t, "day", e.at)
        BY <1>0, <2>4 DEF EraserSeeded
      <3>3. BothAt(t, now)
        BY <1>0, <1>1, <3>2, SeededLater DEF BothAt, BothThen
      <3>4. 0 <= now'
        BY <1>0 DEF Times
      <3> QED
        BY <1>2, <3>1, <3>3, <3>4 DEF EraserSeeded, BothAt, SeededAt, BothThen, SeededThen
    <2> QED
      BY <1>1, <2>2, <2>3, <2>4
  <1>6. ASSUME NEW x \in Tenants, x # t, EraseOriginal(x)
        PROVE  legacy'[t] = legacy[t] /\ eraser'[t] = eraser[t]
    BY <1>0, <1>6 DEF EraseOriginal
  <1>7. ASSUME NEW u \in Turns, TurnStep(u)
        PROVE  legacy' = legacy /\ eraser' = eraser
    <2>1. ASSUME NEW x \in Tenants, ReadLegacy(u, x)
          PROVE  legacy' = legacy /\ eraser' = eraser
      BY <2>1 DEF ReadLegacy
    <2>2. ASSUME NEW r \in Requests, CallModel(u, r)
          PROVE  legacy' = legacy /\ eraser' = eraser
      BY <2>2 DEF CallModel
    <2>3. CASE Seed(u) \/ ReadClock(u) \/ CarryDay(u) \/ Increment(u)
      BY <2>3 DEF Seed, ReadClock, CarryDay, Increment
    <2>4. CASE Compare(u) \/ Reserve(u) \/ Recheck(u) \/ Dispatch(u) \/ End(u) \/ SelectModel(u)
      BY <2>4 DEF Compare, Reserve, Recheck, Dispatch, End, SelectModel
    <2> QED
      BY <1>7, <2>1, <2>2, <2>3, <2>4 DEF TurnStep
  <1>8. CASE Tick \/ UNCHANGED vars \/ \E x \in Tenants : Revoke(x)
    BY <1>4, <1>8 DEF Tick, vars, Revoke
  <1> QED
    BY <1>4, <1>5, <1>6, <1>7, <1>8 DEF Next

LEMMA MovingTurnSeeded ==
  ASSUME TypeOK, SeedInv, NEW u \in Turns, TurnStep(u)
  PROVE  TurnSeeded(turn[u])'
  <1> DEFINE r == turn[u]
             q == turn'[u]
  <1>0. [Next]_vars /\ TurnSeeded(r) /\ r \in Turned /\ now \in Times
    BY Parts DEF Next, SeedInv, TurnType, WorldType
  <1>1. now' = now /\ before' = before
    <2>1. ASSUME NEW x \in Tenants, ReadLegacy(u, x)
          PROVE  now' = now /\ before' = before
      BY <2>1 DEF ReadLegacy
    <2>2. ASSUME NEW z \in Requests, CallModel(u, z)
          PROVE  now' = now /\ before' = before
      BY <2>2 DEF CallModel
    <2>3. CASE Seed(u) \/ ReadClock(u) \/ CarryDay(u) \/ Increment(u)
      BY <2>3 DEF Seed, ReadClock, CarryDay, Increment
    <2>4. CASE Compare(u) \/ Reserve(u) \/ Recheck(u) \/ Dispatch(u) \/ End(u) \/ SelectModel(u)
      BY <2>4 DEF Compare, Reserve, Recheck, Dispatch, End, SelectModel
    <2> QED
      BY <2>1, <2>2, <2>3, <2>4 DEF TurnStep
  <1>2. r.at \in Times /\ r.at <= now /\ 0 <= now /\ (r.step # "idle" => r.tenant \in Tenants)
    BY <1>0 DEF Turned, TurnStates, Complete, TurnSeeded, Times
  <1>3. ASSUME NEW x \in Tenants, NEW span \in {"minute", "day"}, NEW time \in Times,
               SeededAt(x, span, time)
        PROVE  SeededThen(x, span, time)
    BY <1>0, <1>3, SeededStays
  <1>4. ASSUME q.step \notin {"seedMinute", "seedDay", "clock", "carry", "minute", "day", "month"},
               q.at <= now
        PROVE  TurnSeeded(turn[u])'
    BY <1>1, <1>4 DEF TurnSeeded
  <1>5. CASE q = NoTurn
    BY <1>2, <1>4, <1>5 DEF NoTurn
  <1>6. ASSUME NEW t \in Tenants, ReadLegacy(u, t)
        PROVE  TurnSeeded(turn[u])'
    <2>1. q.step = "seedMinute" /\ q.tenant = t /\ q.at = now /\ q.legacy = legacy[t]
      BY <1>6, Admitting
    <2>2. legacy[t] \in {before[t], None} /\ (legacy[t] = None => BothAt(t, now))
      BY DEF SeedInv, EraserSeeded
    <2>3. BothAt(t, now) => BothThen(t, now')
      BY <1>0, SeededNow DEF BothAt, BothThen
    <2>4. now <= now'
      BY <1>0, <1>1 DEF Times
    <2> QED
      BY <1>1, <2>1, <2>2, <2>3, <2>4 DEF TurnSeeded, BothAt, SeededAt, SeededThen, BothThen
  <1>7. ASSUME Seed(u)
        PROVE  TurnSeeded(turn[u])'
    <2>1. r.tenant \in Tenants /\ q.tenant = r.tenant /\ r.step \in {"seedMinute", "seedDay"}
      BY <1>2, <1>7, Admitting
    <2>2. r.legacy \in {before[r.tenant], None} /\ (r.legacy = None => BothAt(r.tenant, r.at))
      BY <1>0, <2>1 DEF TurnSeeded
    <2>3. CASE r.step = "seedMinute"
      <3>1. /\ q.step = "seedDay" /\ q.at = r.at /\ q.legacy = r.legacy
            /\ starts' = Seeded(r.legacy, r.tenant, "minute", r.at)
        BY <1>7, <2>3, Admitting
      <3>2. SeededThen(r.tenant, "minute", r.at)
        BY <1>0, <1>2, <2>1, <2>2, <3>1, SeedSeeds DEF BothAt, BothThen
      <3>3. r.legacy = None => BothThen(r.tenant, r.at)
        BY <1>2, <1>3, <2>1, <2>2 DEF BothAt, BothThen
      <3> QED
        BY <1>1, <1>2, <2>1, <2>2, <3>1, <3>2, <3>3 DEF TurnSeeded, BothAt, SeededAt, SeededThen, BothThen
    <2>4. CASE r.step = "seedDay"
      <3>1. /\ q.step = "clock" /\ q.at = 0
            /\ starts' = Seeded(r.legacy, r.tenant, "day", r.at)
        BY <1>7, <2>4, Admitting
      <3>2. SeededThen(r.tenant, "day", r.at)
        BY <1>0, <1>2, <2>1, <2>2, <3>1, SeedSeeds DEF BothAt, BothThen
      <3>3. SeededThen(r.tenant, "minute", r.at)
        BY <1>0, <1>2, <1>3, <2>1, <2>4 DEF TurnSeeded
      <3>4. ASSUME NEW span \in {"minute", "day"}, SeededThen(r.tenant, span, r.at)
            PROVE  SeededThen(r.tenant, span, now')
        BY <1>0, <1>1, <1>2, <3>4, FirstPeriod DEF SeededAt, SeededThen
      <3>5. BothThen(r.tenant, now')
        BY <3>2, <3>3, <3>4 DEF BothAt, BothThen
      <3> QED
        BY <1>1, <1>2, <2>1, <3>1, <3>5 DEF TurnSeeded, BothAt, SeededAt, SeededThen, BothThen
    <2> QED
      BY <2>1, <2>3, <2>4
  <1>8. ASSUME ReadClock(u)
        PROVE  TurnSeeded(turn[u])'
    <2>1. r.step = "clock" /\ q.step = "carry" /\ q.at = now /\ q.tenant = r.tenant
      BY <1>8, Admitting
    <2>2. BothThen(r.tenant, now')
      BY <1>0, <1>2, <2>1, SeededNow DEF TurnSeeded, BothAt, BothThen
    <2>3. now <= now'
      BY <1>0, <1>1 DEF Times
    <2> QED
      BY <1>1, <2>1, <2>2, <2>3 DEF TurnSeeded, BothAt, SeededAt, SeededThen, BothThen
  <1>9. ASSUME r.step \in {"carry", "minute", "day", "month"}, q.tenant = r.tenant, q.at = r.at,
               q.step \in {"minute", "day", "month"}
        PROVE  TurnSeeded(turn[u])'
    <2>1. BothThen(r.tenant, r.at)
      BY <1>0, <1>2, <1>3, <1>9 DEF TurnSeeded, BothAt, BothThen
    <2> QED
      BY <1>1, <1>2, <1>9, <2>1 DEF TurnSeeded, BothAt, SeededAt, SeededThen, BothThen
  <1>10. CASE CarryDay(u)
    BY <1>9, <1>10, Admitting
  <1>11. ASSUME Increment(u)
         PROVE  TurnSeeded(turn[u])'
    <2>1. CASE r.step = "month" /\ q # NoTurn
      <3>1. q.step = "ready" /\ q.at = 0
        BY <1>11, <2>1, Admitting DEF NextSpan
      <3> QED
        BY <1>2, <1>4, <3>1
    <2>2. CASE r.step # "month" /\ q # NoTurn
      <3>1. r.step \in {"minute", "day"} /\ q.step = NextSpan[r.step] /\ q.tenant = r.tenant /\ q.at = r.at
        BY <1>11, <2>2, Admitting DEF Spans
      <3>2. q.step \in {"day", "month"}
        BY <3>1 DEF NextSpan
      <3> QED
        BY <1>9, <3>1, <3>2
    <2> QED
      BY <1>5, <2>1, <2>2
  <1>12. ASSUME \/ \E z \in Requests : CallModel(u, z)
                \/ Compare(u) \/ Reserve(u) \/ Recheck(u) \/ Dispatch(u) \/ End(u) \/ SelectModel(u)
         PROVE  TurnSeeded(turn[u])'
    <2>1. \/ q = NoTurn
          \/ q.step \in {"ready"} \cup Loaded /\ q.at \in {0, now, r.at}
      BY <1>12, Answering
    <2>2. q.at \in {0, now, r.at} => q.at <= now
      BY <1>0, <1>2 DEF Times
    <2> QED
      BY <1>4, <1>5, <2>1, <2>2
  <1> QED
    BY <1>6, <1>7, <1>8, <1>10, <1>11, <1>12 DEF TurnStep

LEMMA SeedInit == Init => SeedInv
  <1> SUFFICES ASSUME Init
               PROVE  SeedInv
    OBVIOUS
  <1>1. now = 0 /\ legacy = before /\ before \in [Tenants -> Counts] /\ 0 \in Times
    BY Limits DEF Init
  <1>2. ASSUME NEW t \in Tenants
        PROVE  EraserSeeded(t)
    <2>1. before[t] # None /\ eraser[t] = [step |-> "idle", at |-> 0]
      BY <1>1, ScopeAssumption DEF Init
    <2> QED
      BY <1>1, <2>1 DEF EraserSeeded
  <1>3. ASSUME NEW u \in Turns
        PROVE  TurnSeeded(turn[u])
    BY <1>1 DEF Init, NoTurn, TurnSeeded
  <1> QED
    BY <1>2, <1>3 DEF SeedInv

LEMMA SeedStep == TypeOK /\ SeedInv /\ [Next]_vars => SeedInv'
  <1> SUFFICES ASSUME TypeOK, SeedInv, [Next]_vars
               PROVE  SeedInv'
    OBVIOUS
  <1>1. \A t \in Tenants : EraserSeeded(t)'
    BY ErasersStaySeeded
  <1>2. ASSUME NEW u \in Turns
        PROVE  TurnSeeded(turn[u])'
    <2>1. CASE turn'[u] = turn[u]
      <3>1. turn[u] \in Turned /\ TurnSeeded(turn[u])
        BY Parts DEF TurnType, SeedInv
      <3> DEFINE r == turn[u]
      <3>2. TurnSeeded(r)'
        BY <2>1, <3>1, TurnsStaySeeded
      <3> QED
        BY <2>1, <3>2 DEF TurnSeeded, BothAt, SeededAt, SeededThen, BothThen
    <2>2. CASE turn'[u] # turn[u]
      <3>1. TurnStep(u)
        BY <2>2, OthersStay DEF Next, EraseOriginal, Revoke, Tick, vars
      <3> QED
        BY <3>1, MovingTurnSeeded
    <2> QED
      BY <2>1, <2>2
  <1> QED
    BY <1>1, <1>2 DEF SeedInv

-----------------------------------------------------------------------------
(* Starts that are counted                                                 *)

(* Steps after which a turn has passed the counter of a span.              *)
After(span) == CASE span = "minute" -> {"day", "month"} [] span = "day" -> {"month"} [] span = "month" -> {}

(* Turns that have incremented a counter and are not admitted yet.         *)
Passing(k) == {u \in Turns : turn[u].step \in After(k[2])
                             /\ k = StartKey(turn[u].tenant, k[2], turn[u].at)}
Taken(k) == admitted[k] + Cardinality(Passing(k))

(* A counter that any turn has incremented holds the starts of the older   *)
(* version, those admitted since and the turns on their way; a turn that   *)
(* is refused later leaves it higher, never lower.  As an increment ends   *)
(* at the limit, they are within it even where the counter is not.         *)
CountedIn(k) == Taken(k) > 0 =>
  Taken(k) + Earlier(k) <= starts[k] /\ Taken(k) + Earlier(k) <= StartLimit[k[2]]
CountInv == \A k \in StartKeys : CountedIn(k)

LEMMA Sizes ==
  ASSUME NEW S \in SUBSET Turns
  PROVE  /\ Cardinality(S) \in Nat
         /\ \A R \in SUBSET S : Cardinality(R) <= Cardinality(S)
         /\ \A u \in Turns \ S : Cardinality(S \cup {u}) = Cardinality(S) + 1
         /\ \A u \in S : Cardinality(S \ {u}) + 1 = Cardinality(S)
  <1>1. IsFiniteSet(S)
    BY TurnsAssumption, FS_Subset
  <1>2. Cardinality(S) \in Nat
    BY <1>1, FS_CardinalityType
  <1>3. \A R \in SUBSET S : Cardinality(R) <= Cardinality(S)
    BY <1>1, FS_Subset
  <1>4. \A u \in Turns \ S : Cardinality(S \cup {u}) = Cardinality(S) + 1
    BY <1>1, FS_AddElement
  <1>5. \A u \in S : Cardinality(S \ {u}) = Cardinality(S) - 1
    BY <1>1, FS_RemoveElement
  <1> QED
    BY <1>2, <1>3, <1>4, <1>5

LEMMA EarlierType == TypeOK => \A k \in StartKeys : Earlier(k) \in Nat
  <1> SUFFICES ASSUME TypeOK, NEW k \in StartKeys, k[2] # "month"
               PROVE  before[k[1]][k[2]] \in Nat
    BY DEF Earlier
  <1>1. k[1] \in Tenants /\ k[2] \in {"minute", "day"}
    BY DEF StartKeys, StartKey, Spans
  <1>2. before[k[1]] \in Counts
    BY <1>1 DEF TypeOK
  <1> QED
    BY <1>1, <1>2, Limits DEF Counts

(* Where no more is taken, the counter needs no rise.                      *)
LEMMA CountStays ==
  ASSUME TypeOK, TypeOK', [Next]_vars, NEW k \in StartKeys, CountedIn(k),
         admitted'[k] + Cardinality(Passing(k))' <= admitted[k] + Cardinality(Passing(k))
  PROVE  CountedIn(k)'
  <1>1. starts[k] <= starts'[k] /\ before' = before
    BY CountersGrow
  <1>2. starts[k] \in Nat /\ starts'[k] \in Nat /\ admitted[k] \in Nat /\ admitted'[k] \in Nat
    BY DEF TypeOK
  <1>3. Cardinality(Passing(k)) \in Nat /\ Cardinality(Passing(k))' \in Nat
    <2>1. Passing(k) \in SUBSET Turns /\ Passing(k)' \in SUBSET Turns
      BY DEF Passing
    <2> DEFINE S == Passing(k)'
    <2>2. Cardinality(S) \in Nat
      BY <2>1, Sizes
    <2> QED
      BY <2>1, <2>2, Sizes
  <1>4. Earlier(k) \in Nat /\ Earlier(k)' = Earlier(k)
    BY <1>1, EarlierType DEF Earlier
  <1>5. StartLimit[k[2]] \in Nat
    BY Keys, Limits
  <1> QED
    BY <1>1, <1>2, <1>3, <1>4, <1>5 DEF CountedIn, Taken

(* Where one more is taken, the counter rises too.                         *)
LEMMA CountRises ==
  ASSUME TypeOK, TypeOK', [Next]_vars, NEW k \in StartKeys, CountedIn(k),
         Earlier(k) <= starts[k], starts'[k] = starts[k] + 1, starts[k] + 1 <= StartLimit[k[2]],
         admitted'[k] + Cardinality(Passing(k))' <= admitted[k] + Cardinality(Passing(k)) + 1
  PROVE  CountedIn(k)'
  <1>1. before' = before
    BY CountersGrow
  <1>2. starts[k] \in Nat /\ admitted[k] \in Nat /\ admitted'[k] \in Nat
    BY DEF TypeOK
  <1>3. Cardinality(Passing(k)) \in Nat /\ Cardinality(Passing(k))' \in Nat
    <2>1. Passing(k) \in SUBSET Turns /\ Passing(k)' \in SUBSET Turns
      BY DEF Passing
    <2> DEFINE S == Passing(k)'
    <2>2. Cardinality(S) \in Nat
      BY <2>1, Sizes
    <2> QED
      BY <2>1, <2>2, Sizes
  <1>4. Earlier(k) \in Nat /\ Earlier(k)' = Earlier(k)
    BY <1>1, EarlierType DEF Earlier
  <1>5. StartLimit[k[2]] \in Nat
    BY Keys, Limits
  <1> QED
    BY <1>1, <1>2, <1>3, <1>4, <1>5 DEF CountedIn, Taken

(* A turn's step moves no other turn past a counter.                       *)
LEMMA OthersPass ==
  ASSUME TypeOK, NEW u \in Turns, TurnStep(u), NEW k \in StartKeys
  PROVE  /\ Passing(k)' \ {u} = Passing(k) \ {u}
         /\ u \notin Passing(k)' \/ u \in Passing(k) => Cardinality(Passing(k))' <= Cardinality(Passing(k))
         /\ Cardinality(Passing(k))' <= Cardinality(Passing(k)) + 1
         /\ u \in Passing(k) /\ u \notin Passing(k)' =>
              Cardinality(Passing(k))' + 1 = Cardinality(Passing(k))
  <1>1. \A v \in Turns \ {u} : turn'[v] = turn[v]
    BY OthersStay
  <1>2. Passing(k)' \ {u} = Passing(k) \ {u}
    BY <1>1 DEF Passing
  <1> DEFINE S == Passing(k)
             T == Passing(k)'
  <1>3. S \in SUBSET Turns /\ T \in SUBSET Turns /\ Cardinality(S)' = Cardinality(T)
    BY DEF Passing
  <1>4. T \ {u} = S \ {u}
    BY <1>2
  <1> SUFFICES /\ u \notin T \/ u \in S => Cardinality(T) <= Cardinality(S)
               /\ Cardinality(T) <= Cardinality(S) + 1
               /\ u \in S /\ u \notin T => Cardinality(T) + 1 = Cardinality(S)
    BY <1>2, <1>3
  <1> HIDE DEF S, T
  <1>5. Cardinality(S) \in Nat /\ Cardinality(T) \in Nat
    BY <1>3, Sizes
  <1>6. CASE u \notin T
    <2>1. T = S \ {u} /\ T \in SUBSET S
      BY <1>4, <1>6
    <2> QED
      BY <1>3, <1>5, <2>1, Sizes
  <1>7. CASE u \in T /\ u \in S
    BY <1>4, <1>5, <1>7
  <1>8. CASE u \in T /\ u \notin S
    <2>1. T = S \cup {u}
      BY <1>4, <1>8
    <2> QED
      BY <1>3, <1>5, <1>8, <2>1, Sizes
  <1> QED
    BY <1>6, <1>7, <1>8

(* Only an increment moves a turn past a counter.                          *)
LEMMA OnlyIncrements ==
  ASSUME TypeOK, NEW u \in Turns, TurnStep(u), ~ Increment(u)
  PROVE  admitted' = admitted /\ turn'[u].step \notin {"day", "month"}
  <1>1. ASSUME NEW t \in Tenants, ReadLegacy(u, t)
        PROVE  admitted' = admitted /\ turn'[u].step \notin {"day", "month"}
    <2>1. admitted' = admitted
      BY <1>1 DEF ReadLegacy
    <2>2. turn'[u].step = "seedMinute"
      BY <1>1, Admitting
    <2> QED
      BY <2>1, <2>2
  <1>2. CASE Seed(u) \/ ReadClock(u) \/ CarryDay(u)
    <2>1. admitted' = admitted
      BY <1>2 DEF Seed, ReadClock, CarryDay
    <2>2. turn'[u].step \in {"seedDay", "clock", "carry", "minute"}
      BY <1>2, Admitting
    <2> QED
      BY <2>1, <2>2
  <1>3. ASSUME NEW r \in Requests, CallModel(u, r)
        PROVE  admitted' = admitted
    BY <1>3 DEF CallModel
  <1>4. Compare(u) \/ Reserve(u) \/ Recheck(u) \/ Dispatch(u) => admitted' = admitted
    BY DEF Compare, Reserve, Recheck, Dispatch
  <1>5. End(u) \/ SelectModel(u) => admitted' = admitted
    BY DEF End, SelectModel
  <1>6. (\E r \in Requests : CallModel(u, r)) \/ Compare(u) \/ Reserve(u) \/ Recheck(u) \/ Dispatch(u)
          \/ End(u) \/ SelectModel(u) => turn'[u].step \notin {"day", "month"}
    BY Answering DEF NoTurn
  <1> QED
    BY <1>1, <1>2, <1>3, <1>4, <1>5, <1>6 DEF TurnStep

LEMMA IncrementCounts ==
  ASSUME TypeOK, TypeOK', SeedInv, CountInv, NEW u \in Turns, Increment(u), NEW k \in StartKeys
  PROVE  CountedIn(k)'
  <1> DEFINE s == turn[u]
             q == turn'[u]
             key == StartKey(s.tenant, s.step, s.at)
  <1>0. /\ TurnStep(u) /\ [Next]_vars /\ CountedIn(k)
        /\ s \in TurnStates /\ Complete(s) /\ TurnSeeded(s)
    BY Parts DEF TurnStep, Next, CountInv, SeedInv, TurnType, Turned
  <1>1. /\ s.step \in Spans /\ s.tenant \in Tenants /\ s.at \in Times
        /\ s.step \in {"minute", "day", "month"} /\ k[2] \in {"minute", "day", "month"}
    BY <1>0, Keys DEF Increment, TurnStates, Complete, Spans
  <1>2. key \in StartKeys /\ key[2] = s.step
    BY <1>1, Keys
  <1>3. /\ admitted \in [StartKeys -> Nat] /\ starts \in [StartKeys -> Nat]
        /\ Cardinality(Passing(k)) \in Nat /\ Earlier(k) \in Nat
    BY Sizes, EarlierType DEF TypeOK, Passing
  <1>4. Cardinality(Passing(k))' \in Nat
    <2> DEFINE S == Passing(k)'
    <2>1. S \in SUBSET Turns
      BY DEF Passing
    <2>2. Cardinality(S) \in Nat
      BY <2>1, Sizes
    <2> QED
      BY <2>2
  <1>5. u \in Passing(k) <=> s.step \in After(k[2]) /\ k = StartKey(s.tenant, k[2], s.at)
    BY DEF Passing
  <1>6. u \in Passing(k)' <=> q.step \in After(k[2]) /\ k = StartKey(q.tenant, k[2], q.at)
    BY DEF Passing
  <1>7. CASE q = NoTurn
    <2>1. admitted' = admitted
      BY <1>7, <1>0, <1>1, Admitting DEF NoTurn, NextSpan
    <2>2. u \notin Passing(k)'
      BY <1>1, <1>6, <1>7 DEF NoTurn, After
    <2> QED
      BY <1>0, <1>3, <1>4, <2>1, <2>2, OthersPass, CountStays
  <1>8. CASE q # NoTurn
    <2>1. /\ starts' = [starts EXCEPT ![key] = @ + 1]
          /\ admitted' = IF s.step # "month" THEN admitted
                         ELSE [j \in StartKeys |-> IF \E x \in Spans : j = StartKey(s.tenant, x, s.at)
                                                   THEN admitted[j] + 1 ELSE admitted[j]]
          /\ starts[key] + 1 <= StartLimit[s.step]
      <3>1. turn \in [Turns -> Turned]
        BY Parts DEF TurnType
      <3>2. ~ Refused(u)
        BY <1>8, <3>1 DEF Refused
      <3> QED
        BY <3>2 DEF Increment, Fits
    <2>2. /\ q.step = NextSpan[s.step] /\ q.tenant = s.tenant
          /\ q.at = IF s.step = "month" THEN 0 ELSE s.at
      BY <1>8, Admitting
    <2>3. starts'[key] = starts[key] + 1 /\ starts[key] + 1 <= StartLimit[key[2]]
      BY <1>2, <1>3, <2>1
    <2>4. CASE s.step = "month"
      <3>1. u \notin Passing(k)'
        BY <1>1, <1>6, <2>2, <2>4 DEF NextSpan, After
      <3>2. CASE k # StartKey(s.tenant, k[2], s.at)
        <4>1. ~ \E x \in Spans : k = StartKey(s.tenant, x, s.at)
          BY <3>2 DEF StartKey
        <4>2. admitted'[k] = admitted[k]
          BY <2>1, <2>4, <4>1
        <4> QED
          BY <1>0, <1>3, <1>4, <3>1, <4>2, OthersPass, CountStays
      <3>3. CASE k = StartKey(s.tenant, k[2], s.at)
        <4>1. admitted'[k] = admitted[k] + 1
          BY <1>1, <2>1, <2>4, <3>3 DEF Spans
        <4>2. CASE k[2] = "month"
          <5>1. k = key /\ Earlier(k) = 0
            BY <2>4, <3>3, <4>2 DEF Earlier
          <5>2. Earlier(k) <= starts[k]
            BY <1>3, <5>1
          <5> HIDE DEF key
          <5> QED
            BY <1>0, <1>3, <1>4, <2>3, <3>1, <4>1, <5>1, <5>2, OthersPass, CountRises
        <4>3. CASE k[2] # "month"
          <5>1. u \in Passing(k)
            BY <1>1, <1>5, <2>4, <3>3, <4>3 DEF After
          <5> QED
            BY <1>0, <1>3, <1>4, <3>1, <4>1, <5>1, OthersPass, CountStays
        <4> QED
          BY <4>2, <4>3
      <3> QED
        BY <3>2, <3>3
    <2>5. CASE s.step # "month"
      <3>1. admitted' = admitted
        BY <2>1, <2>5
      <3>2. CASE k = key
        <4>1. BothAt(s.tenant, s.at)
          BY <1>0, <1>1 DEF TurnSeeded
        <4>2. Earlier(k) <= starts[k]
          <5>1. k = <<s.tenant, s.step, PeriodOf(s.step, s.at)>>
            BY <3>2 DEF StartKey
          <5>2. SeededAt(s.tenant, s.step, s.at)
            BY <1>1, <2>5, <4>1 DEF BothAt
          <5>3. starts[k] \in Nat /\ k[1] = s.tenant /\ k[2] = s.step /\ k[3] = PeriodOf(s.step, s.at)
            BY <1>3, <5>1
          <5>4. CASE k[3] = 0
            BY <5>1, <5>2, <5>3, <5>4, <2>5 DEF Earlier, SeededAt
          <5>5. CASE k[3] # 0
            BY <5>3, <5>5 DEF Earlier
          <5> QED
            BY <5>4, <5>5
        <4> HIDE DEF key
        <4> QED
          BY <1>0, <1>3, <1>4, <2>3, <3>1, <3>2, <4>2, OthersPass, CountRises
      <3>3. CASE k # key
        <4>1. u \in Passing(k)' => u \in Passing(k)
          <5>1. SUFFICES ASSUME q.step \in After(k[2]), k = StartKey(s.tenant, k[2], s.at)
                         PROVE  s.step \in After(k[2])
            BY <1>5, <1>6, <2>2, <2>5
          <5>2. k[2] # s.step
            BY <3>3, <5>1
          <5> QED
            BY <1>1, <2>2, <2>5, <5>1, <5>2 DEF NextSpan, After
        <4> QED
          BY <1>0, <1>3, <1>4, <3>1, <4>1, OthersPass, CountStays
      <3> QED
        BY <3>2, <3>3
    <2> QED
      BY <2>4, <2>5
  <1> QED
    BY <1>7, <1>8

LEMMA CountStep == TypeOK /\ TypeOK' /\ SeedInv /\ CountInv /\ [Next]_vars => CountInv'
  <1> SUFFICES ASSUME TypeOK, TypeOK', SeedInv, CountInv, [Next]_vars, NEW k \in StartKeys
               PROVE  CountedIn(k)'
    BY DEF CountInv
  <1>1. CountedIn(k) /\ admitted[k] \in Nat /\ Cardinality(Passing(k)) \in Nat
    BY Sizes DEF CountInv, TypeOK, Passing
  <1>2. ASSUME NEW u \in Turns, TurnStep(u), ~ Increment(u)
        PROVE  CountedIn(k)'
    <2>1. admitted' = admitted /\ turn'[u].step \notin {"day", "month"}
      BY <1>2, OnlyIncrements
    <2>2. k[2] \in {"minute", "day", "month"}
      BY Keys DEF Spans
    <2>3. u \notin Passing(k)'
      BY <2>1, <2>2 DEF Passing, After
    <2>4. Cardinality(Passing(k))' \in Nat
      <3> DEFINE S == Passing(k)'
      <3>1. S \in SUBSET Turns
        BY DEF Passing
      <3>2. Cardinality(S) \in Nat
        BY <3>1, Sizes
      <3> QED
        BY <3>2
    <2> QED
      BY <1>1, <1>2, <2>1, <2>3, <2>4, OthersPass, CountStays
  <1>3. ASSUME NEW u \in Turns, Increment(u)
        PROVE  CountedIn(k)'
    BY <1>3, IncrementCounts
  <1>4. ASSUME turn' = turn, admitted' = admitted
        PROVE  CountedIn(k)'
    <2>1. Passing(k)' = Passing(k)
      BY <1>4 DEF Passing
    <2>2. admitted'[k] + Cardinality(Passing(k))' <= admitted[k] + Cardinality(Passing(k))
      BY <1>1, <1>4, <2>1
    <2> QED
      BY <1>1, <2>2, CountStays
  <1>5. CASE \E t \in Tenants : EraseOriginal(t) \/ Revoke(t)
    BY <1>4, <1>5 DEF EraseOriginal, Revoke
  <1>6. CASE Tick \/ UNCHANGED vars
    BY <1>4, <1>6 DEF Tick, vars
  <1> QED
    BY <1>2, <1>3, <1>5, <1>6 DEF Next

LEMMA CountInit == Init => CountInv
  <1> SUFFICES ASSUME Init, NEW k \in StartKeys
               PROVE  Taken(k) = 0
    BY DEF CountInv, CountedIn
  <1>1. k[2] \in {"minute", "day", "month"}
    BY Keys DEF Spans
  <1>2. Passing(k) = {}
    BY <1>1 DEF Init, NoTurn, Passing, After
  <1>3. Cardinality(Passing(k)) = 0 /\ admitted[k] = 0
    BY <1>2, FS_EmptySet DEF Init, Zero
  <1> QED
    BY <1>3 DEF Taken

(* However turns overlap and whenever the original conversation is         *)
(* deleted, the starts of a minute, a day and a month stay within their    *)
(* limits, those of the older version included (threads.ts).               *)
THEOREM StartsStayWithin == Spec => []StartsWithinLimits
  <1>1. Spec => []SeedInv
    BY SeedInit, SeedStep, TypeCorrect, PTL DEF Spec
  <1>2. Spec => []CountInv
    BY <1>1, CountInit, CountStep, TypeCorrect, PTL DEF Spec
  <1>3. TypeOK /\ CountInv => StartsWithinLimits
    <2> SUFFICES ASSUME TypeOK, CountInv, NEW k \in StartKeys, admitted[k] > 0
                 PROVE  admitted[k] + Earlier(k) <= StartLimit[k[2]]
      BY DEF StartsWithinLimits
    <2>1. /\ admitted[k] \in Nat
          /\ Cardinality(Passing(k)) \in Nat /\ Earlier(k) \in Nat /\ StartLimit[k[2]] \in Nat
      BY Sizes, EarlierType, Keys, Limits DEF TypeOK, Passing
    <2> QED
      BY <2>1 DEF CountInv, CountedIn, Taken
  <1> QED
    BY <1>2, <1>3, TypeCorrect, PTL

-----------------------------------------------------------------------------
(* Requests that are reserved and not sent                                 *)

Sending(u) == turn[u].step \in {"recheck", "compare", "dispatch"}

(* What turns on their way to the provider hold of a meter: the units of   *)
(* their requests' weights, told apart so that they can be counted.        *)
Holds(u, k) == Sending(u) /\ k = UsageKey(turn[u].tenant, k[2], turn[u].at)
Held(k) == {x \in Turns \X (1 .. MeterLimit[k[2]]) :
              Holds(x[1], k) /\ x[2] <= Weight(turn[x[1]].request, k[2])}

(* Every meter was charged what was sent and what is held; a batch that    *)
(* failed leaves it higher, never lower.                                   *)
HeldIn(k) == sent[k] + Cardinality(Held(k)) <= usage[k]
Fitting(u) == Sending(u) => \A m \in Meters : Weight(turn[u].request, m) <= MeterLimit[m]
HeldInv == (\A u \in Turns : Fitting(u)) /\ (\A k \in UsageKeys : HeldIn(k))

LEMMA HeldSizes ==
  ASSUME NEW m \in Meters, NEW S \in SUBSET (Turns \X (1 .. MeterLimit[m]))
  PROVE  /\ IsFiniteSet(S) /\ Cardinality(S) \in Nat
         /\ \A R \in SUBSET S : Cardinality(R) <= Cardinality(S)
  <1>1. MeterLimit[m] \in Nat
    BY Limits
  <1>2. IsFiniteSet(1 .. MeterLimit[m])
    BY <1>1, FS_Interval
  <1>3. IsFiniteSet(Turns \X (1 .. MeterLimit[m]))
    BY <1>2, TurnsAssumption, FS_Product
  <1>4. IsFiniteSet(S)
    BY <1>3, FS_Subset
  <1> QED
    BY <1>4, FS_Subset, FS_CardinalityType

LEMMA Units ==
  ASSUME NEW u, NEW w \in Nat
  PROVE  IsFiniteSet({u} \X (1 .. w)) /\ Cardinality({u} \X (1 .. w)) = w
  <1>1. IsFiniteSet({u}) /\ Cardinality({u}) = 1
    BY FS_Singleton
  <1>2. IsFiniteSet(1 .. w) /\ Cardinality(1 .. w) = w
    BY FS_Interval
  <1>3. Cardinality({u} \X (1 .. w)) = Cardinality({u}) * Cardinality(1 .. w)
    BY <1>1, <1>2, FS_Product
  <1> QED
    BY <1>1, <1>2, <1>3, FS_Product

LEMMA HeldType ==
  ASSUME TypeOK, NEW k \in UsageKeys
  PROVE  /\ k[2] \in Meters /\ Held(k) \in SUBSET (Turns \X (1 .. MeterLimit[k[2]]))
         /\ Held(k)' \in SUBSET (Turns \X (1 .. MeterLimit[k[2]]))
         /\ IsFiniteSet(Held(k)) /\ IsFiniteSet(Held(k)')
         /\ Cardinality(Held(k)) \in Nat /\ Cardinality(Held(k))' \in Nat
         /\ Held(k)' \subseteq Held(k) => Cardinality(Held(k))' <= Cardinality(Held(k))
  <1>1. k[2] \in Meters
    BY Keys
  <1> DEFINE S == Held(k)
             T == Held(k)'
  <1>2. S \in SUBSET (Turns \X (1 .. MeterLimit[k[2]])) /\ T \in SUBSET (Turns \X (1 .. MeterLimit[k[2]]))
    BY DEF Held
  <1>3. Cardinality(Held(k))' = Cardinality(T)
    OBVIOUS
  <1> HIDE DEF S, T
  <1>4. IsFiniteSet(S) /\ IsFiniteSet(T) /\ Cardinality(S) \in Nat /\ Cardinality(T) \in Nat
        /\ (T \subseteq S => Cardinality(T) <= Cardinality(S))
    BY <1>1, <1>2, HeldSizes
  <1> QED
    BY <1>1, <1>2, <1>3, <1>4 DEF S, T

LEMMA RequestWeighs ==
  ASSUME TypeOK, NEW u \in Turns, turn[u].step \in Loaded
  PROVE  /\ turn[u].request \in Requests /\ turn[u].tenant \in Tenants /\ turn[u].at \in Times
         /\ \A m \in Meters : Weight(turn[u].request, m) \in Nat
  <1>1. turn[u] \in TurnStates /\ Complete(turn[u])
    BY Parts DEF TurnType, Turned
  <1>2. turn[u].request \in Requests /\ turn[u].tenant \in Tenants /\ turn[u].at \in Times
    BY <1>1 DEF TurnStates, Complete
  <1> QED
    BY <1>2, Weights

(* Steps that neither reserve nor send keep what every turn holds, or give *)
(* it up.                                                                  *)
LEMMA HeldStays ==
  ASSUME TypeOK, HeldInv, UNCHANGED <<usage, sent>>,
         \A v \in Turns : \/ turn'[v].step \notin {"recheck", "compare", "dispatch"}
                          \/ /\ Sending(v) /\ turn'[v].tenant = turn[v].tenant
                             /\ turn'[v].at = turn[v].at /\ turn'[v].request = turn[v].request
  PROVE  HeldInv'
  <1>1. ASSUME NEW v \in Turns
        PROVE  Fitting(v)'
    BY DEF HeldInv, Fitting, Sending
  <1>2. ASSUME NEW k \in UsageKeys
        PROVE  HeldIn(k)'
    <2>1. Held(k)' \subseteq Held(k)
      BY DEF Held, Holds, Sending
    <2>2. Cardinality(Held(k))' <= Cardinality(Held(k))
      BY <2>1, HeldType
    <2>3. HeldIn(k) /\ sent[k] \in Nat /\ usage[k] \in Nat
      BY DEF HeldInv, TypeOK
    <2> QED
      BY <2>2, <2>3, HeldType DEF HeldIn
  <1> QED
    BY <1>1, <1>2 DEF HeldInv

(* A reservation that holds has charged every meter the request weighs on; *)
(* one that fails has charged some of them.                                *)
LEMMA ReserveHolds ==
  ASSUME TypeOK, TypeOK', HeldInv, NEW u \in Turns, Reserve(u)
  PROVE  HeldInv'
  <1> DEFINE s == turn[u]
             r == s.request
             Key(m) == UsageKey(s.tenant, m, now)
             Ok(m) == Fits(usage[Key(m)], Weight(r, m), MeterLimit[m])
  <1>1. /\ s.step = "reserve" /\ r \in Requests /\ s.tenant \in Tenants /\ now \in Times
        /\ \A m \in Meters : Weight(r, m) \in Nat /\ MeterLimit[m] \in Nat
        /\ sent' = sent /\ \A v \in Turns \ {u} : turn'[v] = turn[v]
    <2>1. s.step = "reserve" /\ sent' = sent /\ TurnStep(u) /\ now \in Times
      BY DEF Reserve, TurnStep, TypeOK
    <2> QED
      BY <2>1, RequestWeighs, OthersStay, Limits
  <1>2. usage' = [k \in UsageKeys |->
                    IF k[2] \in Charged(r) /\ k = Key(k[2]) /\ Ok(k[2])
                    THEN usage[k] + Weight(r, k[2]) ELSE usage[k]]
    BY DEF Reserve
  <1>3. \A k \in UsageKeys : /\ sent[k] \in Nat /\ usage[k] \in Nat /\ usage'[k] \in Nat
                            /\ k[2] \in Meters /\ usage[k] <= usage'[k]
    <2>1. \A k \in UsageKeys : sent[k] \in Nat /\ usage[k] \in Nat /\ usage'[k] \in Nat /\ k[2] \in Meters
      BY Keys DEF TypeOK
    <2>2. ASSUME NEW k \in UsageKeys
          PROVE  usage[k] <= usage'[k]
      <3>1. usage'[k] = usage[k] \/ usage'[k] = usage[k] + Weight(r, k[2])
        BY <1>2
      <3>2. Weight(r, k[2]) \in Nat /\ usage[k] \in Nat
        BY <1>1, <2>1
      <3> HIDE DEF r
      <3> QED
        BY <3>1, <3>2
    <2> QED
      BY <2>1, <2>2
  <1>4. CASE turn'[u] = NoTurn
    <2>1. ASSUME NEW v \in Turns
          PROVE  Fitting(v)'
      BY <1>1, <1>4 DEF HeldInv, Fitting, Sending, NoTurn
    <2>2. ASSUME NEW k \in UsageKeys
          PROVE  HeldIn(k)'
      <3>1. Held(k)' \subseteq Held(k)
        BY <1>1, <1>4 DEF Held, Holds, Sending, NoTurn
      <3>2. Cardinality(Held(k))' <= Cardinality(Held(k))
        BY <3>1, HeldType
      <3> QED
        BY <1>1, <1>3, <3>2, HeldType DEF HeldIn, HeldInv
    <2> QED
      BY <2>1, <2>2 DEF HeldInv
  <1>5. CASE turn'[u] # NoTurn
    <2>1. /\ turn'[u].step = "recheck" /\ turn'[u].at = now
          /\ turn'[u].tenant = s.tenant /\ turn'[u].request = r
      BY <1>5, Answering
    <2>2. \A m \in Charged(r) : Ok(m)
      <3>1. ~ Refused(u)
        BY <1>5, Parts DEF Refused, TurnType
      <3> QED
        BY <3>1 DEF Reserve
    <2>3. ASSUME NEW m \in Meters
          PROVE  Weight(r, m) <= MeterLimit[m] /\ (m \notin Charged(r) => Weight(r, m) = 0)
      <3>1. Key(m) \in UsageKeys
        BY <1>1, Keys
      <3>2. usage[Key(m)] \in Nat /\ Weight(r, m) \in Nat /\ MeterLimit[m] \in Nat
        BY <1>1, <1>3, <3>1
      <3>3. CASE m \in Charged(r)
        <4>1. usage[Key(m)] + Weight(r, m) <= MeterLimit[m]
          BY <2>2, <3>3 DEF Fits
        <4> DEFINE w == Weight(r, m)
                   n == usage[Key(m)]
        <4> HIDE DEF w, n
        <4>2. w <= MeterLimit[m]
          BY <3>2, <4>1 DEF w, n
        <4> QED
          BY <3>3, <4>2 DEF w
      <3>4. CASE m \notin Charged(r)
        <4>1. m[2] = "cost" /\ ~ (r.cost > 0) /\ r.cost \in Nat
          BY <1>1, <3>4, LimitAssumption DEF Charged
        <4>2. Weight(r, m) = 0
          BY <4>1 DEF Weight
        <4> QED
          BY <3>2, <4>2
      <3> QED
        BY <3>3, <3>4
    <2>4. ASSUME NEW v \in Turns
          PROVE  Fitting(v)'
      <3>1. CASE v = u
        BY <2>1, <2>3, <3>1 DEF Fitting
      <3>2. CASE v # u
        BY <1>1, <3>2 DEF HeldInv, Fitting, Sending
      <3> QED
        BY <3>1, <3>2
    <2>5. ASSUME NEW k \in UsageKeys
          PROVE  HeldIn(k)'
      <3> DEFINE w == Weight(r, k[2])
                 S == Held(k)
                 T == Held(k)'
                 U == {u} \X (1 .. w)
      <3>1. k[2] \in Meters /\ w \in Nat /\ HeldIn(k)
        BY <1>1, <1>3 DEF HeldInv
      <3>2. CASE k # Key(k[2])
        <4>1. T \subseteq S
          BY <1>1, <2>1, <3>2 DEF Held, Holds, Sending
        <4>2. Cardinality(Held(k))' <= Cardinality(Held(k))
          BY <4>1, HeldType
        <4> QED
          BY <1>1, <1>3, <3>1, <4>2, HeldType DEF HeldIn
      <3>3. CASE k = Key(k[2])
        <4>1. usage'[k] = usage[k] + w
          <5>1. CASE k[2] \in Charged(r)
            BY <1>2, <2>2, <3>3, <5>1
          <5>2. CASE k[2] \notin Charged(r)
            <6>1. usage'[k] = usage[k] /\ w = 0
              BY <1>2, <2>3, <3>1, <5>2
            <6> HIDE DEF w
            <6> QED
              BY <1>3, <6>1
          <5> QED
            BY <5>1, <5>2
        <4>2. T \subseteq S \cup U
          <5> SUFFICES ASSUME NEW x \in T, x \notin S
                       PROVE  x \in U
            OBVIOUS
          <5>1. x \in Turns \X (1 .. MeterLimit[k[2]]) /\ x[1] = u /\ x[2] <= w
            BY <1>1, <2>1 DEF Held, Holds, Sending
          <5>2. x = <<u, x[2]>> /\ x[2] \in 1 .. MeterLimit[k[2]]
            BY <5>1
          <5>3. x[2] \in 1 .. w
            <6> HIDE DEF w
            <6> QED
              BY <1>1, <3>1, <5>1, <5>2
          <5> HIDE DEF w
          <5> QED
            BY <5>2, <5>3
        <4>3. IsFiniteSet(S) /\ IsFiniteSet(T) /\ Cardinality(S) \in Nat /\ Cardinality(Held(k))' = Cardinality(T)
          BY HeldType
        <4>4. IsFiniteSet(U) /\ Cardinality(U) = w
          BY <3>1, Units
        <4> HIDE DEF S, T, U, w
        <4>5. IsFiniteSet(S \cup U) /\ Cardinality(S \cup U) = Cardinality(S) + w - Cardinality(S \cap U)
          BY <4>3, <4>4, FS_Union
        <4>6. Cardinality(S \cap U) \in Nat /\ Cardinality(S \cup U) \in Nat
          BY <4>3, <4>5, FS_Intersection, FS_CardinalityType
        <4>7. Cardinality(T) <= Cardinality(S \cup U)
          BY <4>2, <4>5, FS_Subset
        <4>8. Cardinality(T) \in Nat
          BY <4>3, FS_CardinalityType
        <4>9. Cardinality(T) <= Cardinality(S) + w
          BY <3>1, <4>3, <4>5, <4>6, <4>7, <4>8
        <4>10. sent[k] + Cardinality(S) <= usage[k]
          BY <3>1 DEF HeldIn, S
        <4>11. sent'[k] + Cardinality(T) <= usage'[k]
          BY <1>1, <1>3, <3>1, <4>1, <4>3, <4>8, <4>9, <4>10
        <4> QED
          BY <4>3, <4>11 DEF HeldIn
      <3> QED
        BY <3>2, <3>3
    <2> QED
      BY <2>4, <2>5 DEF HeldInv
  <1> QED
    BY <1>4, <1>5

(* What is sent was held.                                                  *)
LEMMA DispatchReleases ==
  ASSUME TypeOK, HeldInv, NEW u \in Turns, Dispatch(u)
  PROVE  HeldInv'
  <1> DEFINE s == turn[u]
             r == s.request
  <1>1. /\ s.step = "dispatch" /\ turn'[u].step = "ready" /\ usage' = usage
        /\ \A m \in Meters : Weight(r, m) \in Nat /\ Weight(r, m) <= MeterLimit[m]
        /\ \A v \in Turns \ {u} : turn'[v] = turn[v]
    <2>1. TurnStep(u) /\ usage' = usage
      BY DEF Dispatch, TurnStep
    <2>3. s.step = "dispatch" /\ turn'[u].step = "ready"
      BY Answering
    <2>2. Fitting(u)
      BY DEF HeldInv
    <2> QED
      BY <2>1, <2>2, <2>3, RequestWeighs, OthersStay DEF Fitting, Sending
  <1>2. sent' = [k \in UsageKeys |-> IF k = UsageKey(s.tenant, k[2], s.at)
                                     THEN sent[k] + Weight(r, k[2]) ELSE sent[k]]
    BY DEF Dispatch
  <1>3. ASSUME NEW v \in Turns
        PROVE  Fitting(v)'
    BY <1>1 DEF HeldInv, Fitting, Sending
  <1>4. ASSUME NEW k \in UsageKeys
        PROVE  HeldIn(k)'
    <2> DEFINE w == Weight(r, k[2])
               S == Held(k)
               T == Held(k)'
               U == {u} \X (1 .. w)
    <2>1. /\ k[2] \in Meters /\ w \in Nat /\ w <= MeterLimit[k[2]] /\ MeterLimit[k[2]] \in Nat /\ HeldIn(k)
          /\ sent[k] \in Nat /\ usage[k] \in Nat
      BY <1>1, Keys, Limits DEF HeldInv, TypeOK
    <2>2. IsFiniteSet(S) /\ IsFiniteSet(T) /\ Cardinality(S) \in Nat /\ Cardinality(Held(k))' = Cardinality(T)
          /\ Cardinality(T) \in Nat
      BY HeldType
    <2>3. T \subseteq S
      BY <1>1 DEF Held, Holds, Sending
    <2>4. CASE k # UsageKey(s.tenant, k[2], s.at)
      <3>1. sent'[k] = sent[k]
        BY <1>2, <2>4
      <3>2. Cardinality(Held(k))' <= Cardinality(Held(k))
        BY <2>3, HeldType
      <3> QED
        BY <1>1, <2>1, <2>2, <3>1, <3>2 DEF HeldIn
    <2>5. CASE k = UsageKey(s.tenant, k[2], s.at)
      <3>1. sent'[k] = sent[k] + w
        BY <1>2, <2>5
      <3>2. U \subseteq S
        <4> SUFFICES ASSUME NEW n \in 1 .. w
                     PROVE  <<u, n>> \in S
          BY DEF U
        <4>1. n \in 1 .. MeterLimit[k[2]] /\ n <= w
          <5> HIDE DEF w
          <5> QED
            BY <2>1
        <4>2. Holds(u, k)
          BY <1>1, <2>5 DEF Holds, Sending
        <4> QED
          BY <4>1, <4>2 DEF Held
      <3>3. T \cap U = {}
        BY <1>1 DEF Held, Holds, Sending
      <3>4. IsFiniteSet(U) /\ Cardinality(U) = w
        BY <2>1, Units
      <3> HIDE DEF S, T, U, w
      <3>5. IsFiniteSet(T \cup U) /\ Cardinality(T \cup U) = Cardinality(T) + w
        <4>1. IsFiniteSet(T \cup U) /\ Cardinality(T \cup U) = Cardinality(T) + w - Cardinality(T \cap U)
          BY <2>2, <3>4, FS_Union
        <4>2. Cardinality(T \cap U) = 0
          BY <3>3, FS_EmptySet
        <4> QED
          BY <2>1, <2>2, <4>1, <4>2
      <3>6. Cardinality(T \cup U) <= Cardinality(S)
        BY <2>2, <2>3, <3>2, FS_Subset
      <3>7. Cardinality(T) + w <= Cardinality(S)
        BY <3>5, <3>6
      <3>8. sent[k] + Cardinality(S) <= usage[k]
        BY <2>1 DEF HeldIn, S
      <3>9. sent'[k] + Cardinality(T) <= usage'[k]
        BY <1>1, <2>1, <2>2, <3>1, <3>7, <3>8
      <3> QED
        BY <2>2, <3>9 DEF HeldIn
    <2> QED
      BY <2>4, <2>5
  <1> QED
    BY <1>3, <1>4 DEF HeldInv

LEMMA HeldStep == TypeOK /\ TypeOK' /\ HeldInv /\ [Next]_vars => HeldInv'
  <1> SUFFICES ASSUME TypeOK, TypeOK', HeldInv, [Next]_vars
               PROVE  HeldInv'
    OBVIOUS
  <1>1. ASSUME NEW u \in Turns, TurnStep(u), ~ Reserve(u), ~ Dispatch(u)
        PROVE  HeldInv'
    <2>1. \A v \in Turns \ {u} : turn'[v] = turn[v]
      BY <1>1, OthersStay
    <2>2. ASSUME NEW t \in Tenants, ReadLegacy(u, t)
          PROVE  UNCHANGED <<usage, sent>> /\ turn'[u].step \notin {"recheck", "compare", "dispatch"}
      <3>1. UNCHANGED <<usage, sent>>
        BY <2>2 DEF ReadLegacy
      <3>2. turn'[u].step = "seedMinute"
        BY <2>2, Admitting
      <3> QED
        BY <3>1, <3>2
    <2>3. CASE Seed(u) \/ ReadClock(u) \/ CarryDay(u)
      <3>1. UNCHANGED <<usage, sent>>
        BY <2>3 DEF Seed, ReadClock, CarryDay
      <3>2. turn'[u].step \in {"seedDay", "clock", "carry", "minute"}
        BY <2>3, Admitting
      <3> QED
        BY <2>1, <3>1, <3>2, HeldStays DEF Sending
    <2>4. CASE Increment(u)
      <3>1. UNCHANGED <<usage, sent>>
        BY <2>4 DEF Increment
      <3>2. turn'[u].step \in {"day", "month", "ready", "idle"}
        BY <2>4, Admitting DEF Spans, NextSpan, NoTurn
      <3> QED
        BY <2>1, <3>1, <3>2, HeldStays DEF Sending
    <2>5. ASSUME NEW r \in Requests, CallModel(u, r)
          PROVE  UNCHANGED <<usage, sent>> /\ turn'[u].step \notin {"recheck", "compare", "dispatch"}
      <3>1. UNCHANGED <<usage, sent>>
        BY <2>5 DEF CallModel
      <3>2. turn'[u].step \in {"select", "idle"}
        BY <2>5, Answering DEF NoTurn
      <3> QED
        BY <3>1, <3>2
    <2>6. CASE Compare(u) \/ Recheck(u) \/ End(u) \/ SelectModel(u)
      <3>1. UNCHANGED <<usage, sent>>
        BY <2>6 DEF Compare, Recheck, End, SelectModel
      <3>2. \/ turn'[u].step \notin {"recheck", "compare", "dispatch"}
            \/ /\ Sending(u) /\ turn'[u].tenant = turn[u].tenant
               /\ turn'[u].at = turn[u].at /\ turn'[u].request = turn[u].request
        BY <2>6, Answering DEF NoTurn, Sending
      <3> QED
        BY <2>1, <3>1, <3>2, HeldStays DEF Sending
    <2> QED
      BY <1>1, <2>1, <2>2, <2>3, <2>4, <2>5, <2>6, HeldStays DEF TurnStep, Sending
  <1>2. ASSUME UNCHANGED <<usage, sent, turn>>
        PROVE  HeldInv'
    BY <1>2, HeldStays DEF Sending
  <1>3. CASE \E t \in Tenants : EraseOriginal(t) \/ Revoke(t)
    BY <1>2, <1>3 DEF EraseOriginal, Revoke
  <1>4. CASE Tick \/ UNCHANGED vars
    BY <1>2, <1>4 DEF Tick, vars
  <1> QED
    BY <1>1, <1>3, <1>4, ReserveHolds, DispatchReleases DEF Next

LEMMA HeldInit == Init => HeldInv
  <1> SUFFICES ASSUME Init
               PROVE  HeldInv
    OBVIOUS
  <1>1. \A u \in Turns : ~ Sending(u)
    BY DEF Init, NoTurn, Sending
  <1>2. ASSUME NEW k \in UsageKeys
        PROVE  HeldIn(k)
    <2>1. Held(k) = {}
      BY <1>1 DEF Held, Holds
    <2>2. Cardinality(Held(k)) = 0 /\ sent[k] = 0 /\ usage[k] = 0
      BY <2>1, FS_EmptySet DEF Init, Zero
    <2> QED
      BY <2>2 DEF HeldIn
  <1> QED
    BY <1>1, <1>2 DEF HeldInv, Fitting

(* What reaches the provider was reserved in full and stays within every   *)
(* limit, a tenant's and the application's (model-budgets.ts).             *)
THEOREM SentStaysWithin == Spec => []SentWithinLimits
  <1>1. Spec => []HeldInv
    BY HeldInit, HeldStep, TypeCorrect, PTL DEF Spec
  <1>2. TypeOK /\ HeldInv => SentWithinLimits
    <2> SUFFICES ASSUME TypeOK, HeldInv, NEW k \in UsageKeys
                 PROVE  sent[k] <= usage[k] /\ usage[k] <= MeterLimit[k[2]]
      BY DEF SentWithinLimits
    <2>1. HeldIn(k) /\ sent[k] \in Nat /\ usage[k] \in Nat /\ usage[k] <= MeterLimit[k[2]]
      BY DEF HeldInv, TypeOK
    <2> QED
      BY <2>1, HeldType DEF HeldIn
  <1> QED
    BY <1>1, <1>2, TypeCorrect, PTL

=============================================================================

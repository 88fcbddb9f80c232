----------------------------- MODULE ChatBudgets -----------------------------
(***************************************************************************)
(* Budgets of the hosted chat (internal/hosted/app/src/chat): a turn first *)
(* reserves one start per minute, day and month (threads.ts), after the    *)
(* counts of an older version, kept in the original conversation's object, *)
(* have been carried over; then each request to the model reserves its     *)
(* meters in one batch (model-budgets.ts) between two authorisations       *)
(* (model-fetch.ts).                                                       *)
(*                                                                         *)
(* A turn is an invocation with its own program counter, one D1 statement  *)
(* or batch is atomic, and the clock may move between any two.  Minutes    *)
(* are the ticks of the clock.  Argument checks, which refuse before any   *)
(* statement, and the provider's own cap are left out.                     *)
(***************************************************************************)
EXTENDS Integers, FiniteSets

CONSTANTS
  Tenants, Turns,
  Global,                         \* scope of the application-wide meters
  StartLimit,                     \* per span: 10, 100, 1000
  MeterLimit,                     \* per meter: DEFAULT_MODEL_REQUEST_LIMITS
  Requests,                       \* what a model request may weigh
  MinutesPerDay, DaysPerMonth,
  MaxTime,                        \* bound of the clock
  MaxLegacy,                      \* bound of the older version's counts
  None

Spans == {"minute", "day", "month"}
Meters ==
  {<<"tenant", "request", s>> : s \in Spans} \cup {<<"global", "request", s>> : s \in Spans \ {"month"}}
    \cup {<<w, "token", "day">> : w \in {"tenant", "global"}}
    \cup {<<w, "cost", "month">> : w \in {"tenant", "global"}}

ASSUME LimitAssumption ==
  /\ StartLimit \in [Spans -> Nat \ {0}] /\ MeterLimit \in [Meters -> Nat]
  /\ Requests \subseteq [request: {1}, token: Nat, cost: Nat]
  /\ MaxLegacy \in Nat /\ MaxTime \in Nat
  /\ StartLimit["day"] <= StartLimit["month"]
ASSUME CalendarAssumption == MinutesPerDay \in Nat \ {0} /\ DaysPerMonth \in Nat \ {0}
ASSUME TurnsAssumption == IsFiniteSet(Turns)

VARIABLES
  now,       \* the clock, in minutes
  starts,    \* hosted_quota_counters: chat_model_starts per tenant, span and period
  usage,     \* hosted_rate_limit_counters per scope, meter and period
  legacy,    \* per tenant: the older version's counts of minute and day 0, or None
  eraser,    \* per tenant: deletion of the original conversation
  active,    \* tenants whose session is active
  turn,      \* per turn: where it waits and what it carries
  before,    \* history: starts the older version admitted
  admitted,  \* history: starts admitted, like starts
  sent       \* history: what was sent to the provider, like usage

vars == <<now, starts, usage, legacy, eraser, active, turn, before, admitted, sent>>

Times == 0 .. MaxTime
PeriodOf(span, time) ==
  CASE span = "minute" -> time
    [] span = "day" -> time \div MinutesPerDay
    [] span = "month" -> time \div (MinutesPerDay * DaysPerMonth)

Zero(S) == [x \in S |-> 0]
ScopeOf(meter, t) == IF meter[1] = "tenant" THEN t ELSE Global

StartKey(t, span, time) == <<t, span, PeriodOf(span, time)>>
UsageKey(t, meter, time) == <<ScopeOf(meter, t), meter, PeriodOf(meter[3], time)>>
StartKeys == {StartKey(t, s, time) : t \in Tenants, s \in Spans, time \in Times}
UsageKeys == {UsageKey(t, m, time) : t \in Tenants, m \in Meters, time \in Times}

Counts == [minute: 0 .. MaxLegacy, day: 0 .. MaxLegacy]
ASSUME ScopeAssumption == None \notin Tenants \cup Requests \cup Counts /\ Global \notin Tenants

Loaded == {"select", "reserve", "recheck", "compare", "dispatch"}  \* with a request
Steps == {"idle", "seedMinute", "seedDay", "clock", "carry", "minute", "day", "month", "ready"}
           \cup Loaded
Checks == {"session", "selection"}
TurnStates == [step: Steps, tenant: Tenants \cup {None}, at: Times,
               legacy: Counts \cup {None}, request: Requests \cup {None},
               current: BOOLEAN, fresh: SUBSET Checks]
NoTurn == [step |-> "idle", tenant |-> None, at |-> 0, legacy |-> None,
           request |-> None, current |-> TRUE, fresh |-> {}]

Init ==
  /\ now = 0
  /\ starts = Zero(StartKeys) /\ usage = Zero(UsageKeys)
  /\ before \in [Tenants -> {c \in Counts : c.minute <= c.day}]
  /\ legacy = before
  /\ eraser = [t \in Tenants |-> [step |-> "idle", at |-> 0]]
  /\ active = Tenants
  /\ turn = [u \in Turns |-> NoTurn]
  /\ admitted = Zero(StartKeys) /\ sent = Zero(UsageKeys)

-----------------------------------------------------------------------------
(* Starting a turn                                                         *)

Goto(u, step) == turn' = [turn EXCEPT ![u].step = step]
Refused(u) == turn' = [turn EXCEPT ![u] = NoTurn]

(* onChatMessage, authorised, has read the counts from the original        *)
(* conversation's object, and the clock.  A reading is forgotten where the *)
(* code reads the clock again.                                             *)
ReadLegacy(u, t) ==
  /\ turn[u].step = "idle" /\ t \in active
  /\ turn' = [turn EXCEPT ![u] = [NoTurn EXCEPT !.step = "seedMinute", !.tenant = t,
                                                !.at = now, !.legacy = legacy[t]]]
  /\ UNCHANGED <<now, starts, usage, legacy, eraser, active, before, admitted, sent>>

(* Faults: the counts are not carried over; repeated snapshots add up.     *)
Unseeded(counts, t, span, time) == starts
Added(counts, t, span, time) ==
  IF counts = None \/ PeriodOf(span, time) # 0 THEN starts
  ELSE [starts EXCEPT ![<<t, span, 0>>] = @ + counts[span]]

(* seedLegacyChatBudget: counts of the current minute and day, by maximum. *)
Seeded(counts, t, span, time) ==
  IF counts = None \/ PeriodOf(span, time) # 0 THEN starts
  ELSE [starts EXCEPT ![<<t, span, 0>>] = IF counts[span] > @ THEN counts[span] ELSE @]

Seed(u) ==
  /\ turn[u].step \in {"seedMinute", "seedDay"}
  /\ LET span == IF turn[u].step = "seedMinute" THEN "minute" ELSE "day"
     IN starts' = Seeded(turn[u].legacy, turn[u].tenant, span, turn[u].at)
  /\ turn' = [turn EXCEPT ![u].step = IF @ = "seedMinute" THEN "seedDay" ELSE "clock",
                          ![u].legacy = IF turn[u].step = "seedDay" THEN None ELSE @,
                          ![u].at = IF turn[u].step = "seedDay" THEN 0 ELSE @]
  /\ UNCHANGED <<now, usage, legacy, eraser, active, before, admitted, sent>>

(* reserveChatBudget reads the clock again.                                *)
ReadClock(u) ==
  /\ turn[u].step = "clock"
  /\ turn' = [turn EXCEPT ![u].step = "carry", ![u].at = now]
  /\ UNCHANGED <<now, starts, usage, legacy, eraser, active, before, admitted, sent>>

(* The month is raised to what the day already counts.                     *)
CarryDay(u) ==
  LET t == turn[u].tenant
      day == starts[StartKey(t, "day", turn[u].at)]
  IN /\ turn[u].step = "carry"
     /\ starts' = [starts EXCEPT ![StartKey(t, "month", turn[u].at)] = IF day > @ THEN day ELSE @]
     /\ Goto(u, "minute")
     /\ UNCHANGED <<now, usage, legacy, eraser, active, before, admitted, sent>>

Fits(value, delta, limit) == value + delta <= limit

(* incrementQuotaWithinLimit, for the minute, the day, the month.          *)
NextSpan == [minute |-> "day", day |-> "month", month |-> "ready"]

Increment(u) ==
  LET span == turn[u].step
      key == StartKey(turn[u].tenant, span, turn[u].at)
  IN /\ span \in Spans
     /\ IF Fits(starts[key], 1, StartLimit[span])
        THEN /\ starts' = [starts EXCEPT ![key] = @ + 1]
             /\ turn' = [turn EXCEPT ![u].step = NextSpan[span],
                                     ![u].at = IF span = "month" THEN 0 ELSE @]
             /\ admitted' = IF span # "month" THEN admitted
                            ELSE [k \in StartKeys |->
                                    IF \E s \in Spans : k = StartKey(turn[u].tenant, s, turn[u].at)
                                    THEN admitted[k] + 1 ELSE admitted[k]]
        ELSE /\ Refused(u)
             /\ UNCHANGED <<starts, admitted>>
     /\ UNCHANGED <<now, usage, legacy, eraser, active, before, sent>>

-----------------------------------------------------------------------------
(* Requests to the model                                                   *)

(* What would be found good now.                                           *)
Good(u) == {c \in Checks : IF c = "session" THEN turn[u].tenant \in active ELSE turn[u].current}

(* The SDK calls budgetedModelFetch, which authorises,                     *)
CallModel(u, r) ==
  /\ turn[u].step = "ready"
  /\ IF "session" \in Good(u)
     THEN turn' = [turn EXCEPT ![u].step = "select", ![u].request = r]
     ELSE Refused(u)
  /\ UNCHANGED <<now, starts, usage, legacy, eraser, active, before, admitted, sent>>

(* Fault: the selection is compared before the reservation only.           *)
ComparedBefore(u) == turn[u].step = "compare" \/ turn[u].current

(* and then reads the model selected now, to compare it with the turn's.   *)
Selected(u) == "selection" \in Good(u)

Compare(u) ==
  /\ turn[u].step \in {"select", "compare"}
  /\ IF Selected(u)
     THEN Goto(u, IF turn[u].step = "select" THEN "reserve" ELSE "dispatch")
     ELSE Refused(u)
  /\ UNCHANGED <<now, starts, usage, legacy, eraser, active, before, admitted, sent>>

(* Fault: paid requests leave the cost meters alone, too.                  *)
NeverCost(r) == {m \in Meters : m[2] # "cost"}

(* Free requests leave the cost meters alone.                              *)
Charged(r) == {m \in Meters : m[2] = "cost" => r.cost > 0}
Weight(r, m) == r[m[2]]

(* reserveModelRequest: a batch of conditional upserts, each of which      *)
(* takes effect where it fits; the reservation holds if all of them did.   *)
Reserve(u) ==
  LET r == turn[u].request
      Key(m) == UsageKey(turn[u].tenant, m, now)
      Ok(m) == Fits(usage[Key(m)], Weight(r, m), MeterLimit[m])
  IN /\ turn[u].step = "reserve"
     /\ usage' = [k \in UsageKeys |->
                    LET m == k[2]
                    IN IF m \in Charged(r) /\ k = Key(m) /\ Ok(m)
                       THEN usage[k] + Weight(r, m) ELSE usage[k]]
     /\ IF \A m \in Charged(r) : Ok(m)
        THEN turn' = [turn EXCEPT ![u].step = "recheck", ![u].at = now, ![u].fresh = Good(u)]
        ELSE Refused(u)
     /\ UNCHANGED <<now, starts, legacy, eraser, active, before, admitted, sent>>

(* The second authorisation.                                               *)
Recheck(u) ==
  /\ turn[u].step = "recheck"
  /\ IF "session" \in Good(u) THEN Goto(u, "compare") ELSE Refused(u)
  /\ UNCHANGED <<now, starts, usage, legacy, eraser, active, before, admitted, sent>>

Dispatch(u) ==
  /\ turn[u].step = "dispatch"
  /\ sent' = [k \in UsageKeys |->
                IF k = UsageKey(turn[u].tenant, k[2], turn[u].at)
                THEN sent[k] + Weight(turn[u].request, k[2]) ELSE sent[k]]
  /\ turn' = [turn EXCEPT ![u].step = "ready", ![u].at = 0, ![u].request = None,
                          ![u].fresh = {}]
  /\ UNCHANGED <<now, starts, usage, legacy, eraser, active, before, admitted>>

(* The answer is complete, the turn is stopped, or the Worker ends.        *)
End(u) ==
  /\ turn[u].step # "idle"
  /\ Refused(u)
  /\ UNCHANGED <<now, starts, usage, legacy, eraser, active, before, admitted, sent>>

-----------------------------------------------------------------------------
(* The original conversation, sessions, selections and the clock           *)

(* Its deletion seeds the counters before it destroys the counts.          *)
EraseOriginal(t) ==
  LET step == eraser[t].step
      span == IF step = "seedDay" THEN "day" ELSE "minute"
      at == IF step = "idle" THEN now ELSE eraser[t].at
  IN /\ IF step = "destroy"
        THEN legacy' = [legacy EXCEPT ![t] = None] /\ UNCHANGED starts
        ELSE starts' = Seeded(legacy[t], t, span, at) /\ UNCHANGED legacy
     /\ eraser' = [eraser EXCEPT ![t] =
          [step |-> CASE step = "idle" -> "seedDay" [] step = "seedDay" -> "destroy"
                      [] step = "destroy" -> "idle",
           at |-> IF step = "destroy" THEN 0 ELSE at]]
     /\ UNCHANGED <<now, usage, active, turn, before, admitted, sent>>

Revoke(t) ==
  /\ t \in active
  /\ active' = active \ {t}
  /\ UNCHANGED <<now, starts, usage, legacy, eraser, turn, before, admitted, sent>>

(* Another model is selected, or again the one the turn began with.  A     *)
(* selection made before the turn's first request counts as made then.     *)
SelectModel(u) ==
  /\ turn[u].step \in {"ready"} \cup Loaded
  /\ turn[u].tenant \in active
  /\ turn' = [turn EXCEPT ![u].current = ~ @,
                          ![u].fresh = IF turn[u].step \in {"recheck", "compare"} /\ ~ turn[u].current
                                       THEN @ \cup {"selection"} ELSE @]
  /\ UNCHANGED <<now, starts, usage, legacy, eraser, active, before, admitted, sent>>

Tick ==
  /\ now < MaxTime
  /\ now' = now + 1
  /\ UNCHANGED <<starts, usage, legacy, eraser, active, turn, before, admitted, sent>>

TurnStep(u) ==
  \/ \E t \in Tenants : ReadLegacy(u, t)
  \/ Seed(u) \/ ReadClock(u) \/ CarryDay(u) \/ Increment(u)
  \/ \E r \in Requests : CallModel(u, r)
  \/ Compare(u) \/ Reserve(u) \/ Recheck(u) \/ Dispatch(u) \/ End(u) \/ SelectModel(u)

Next ==
  \/ \E u \in Turns : TurnStep(u)
  \/ \E t \in Tenants : EraseOriginal(t) \/ Revoke(t)
  \/ Tick

Spec == Init /\ [][Next]_vars

-----------------------------------------------------------------------------
(* Properties                                                              *)

(* Counters, turns and history have their types.  No counter passes its    *)
(* limit, by an increment, a seed or the carried day, unless a count of    *)
(* the older version had: increments stop there, snapshots do not add up.  *)
TypeOK ==
  /\ now \in Times
  /\ starts \in [StartKeys -> Nat]
  /\ \A k \in StartKeys : starts[k] <= StartLimit[k[2]] \/ starts[k] <= MaxLegacy
  /\ usage \in [UsageKeys -> Nat] /\ \A k \in UsageKeys : usage[k] <= MeterLimit[k[2]]
  /\ legacy \in [Tenants -> Counts \cup {None}]
  /\ eraser \in [Tenants -> [step: {"idle", "seedDay", "destroy"}, at: Times]]
  /\ active \subseteq Tenants
  /\ turn \in [Turns -> TurnStates]
  /\ before \in [Tenants -> Counts]
  /\ admitted \in [StartKeys -> Nat] /\ sent \in [UsageKeys -> Nat]
  /\ \A u \in Turns :
       /\ turn[u].step # "idle" <=> turn[u].tenant # None
       /\ turn[u].request # None <=> turn[u].step \in Loaded

(* The starts the older version admitted in a minute or a day.             *)
Earlier(k) == IF k[3] # 0 \/ k[2] = "month" THEN 0 ELSE before[k[1]][k[2]]

(* However turns of one tenant overlap, and whenever its original          *)
(* conversation is deleted, no more of them start in a minute or a day     *)
(* than the limit, the older version's included, nor in a month, which it  *)
(* did not count.                                                          *)
StartsWithinLimits == \A k \in StartKeys :
  admitted[k] > 0 => admitted[k] + Earlier(k) <= StartLimit[k[2]]

(* What reaches the provider, summed over all tenants where the meter is   *)
(* global, was reserved in full although a batch reserves piecemeal, and   *)
(* so stays within every limit.                                            *)
SentWithinLimits == \A k \in UsageKeys :
  sent[k] <= usage[k] /\ usage[k] <= MeterLimit[k[2]]

(* "A revocation or model switch during a D1/provider preflight still      *)
(* prevents dispatch": a request is sent only if after its reservation the *)
(* session was good at some moment, and the selection at some moment.      *)
DispatchIsFresh == \A u \in Turns : turn[u].step = "dispatch" => turn[u].fresh = Checks

=============================================================================

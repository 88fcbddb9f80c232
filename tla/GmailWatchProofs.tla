--------------------------- MODULE GmailWatchProofs ---------------------------
(***************************************************************************)
(* Theorems about GmailWatch for every mailbox, page size and number of    *)
(* handlers.  TypeCorrect has no hypothesis; ServeSkipsNothing is about    *)
(* any number of concurrent handlers whose hook never fails, and           *)
(* PullForgetsNothing about one handler at a time, whose hook, OAuth       *)
(* credentials and quota may fail in every way.  Both need a listing that  *)
(* reaches the end of the mailbox, a consumer that is not killed and a     *)
(* watch that nobody registers or stops meanwhile: without any of these    *)
(* the violation runs of MCGmailWatch show a message lost.                 *)
(***************************************************************************)
EXTENDS GmailWatch, TLAPS

(* A saved state that is valid leaves file and cache valid; a failed write *)
(* leaves them alone.                                                      *)
LEMMA SaveTypes ==
  ASSUME NEW state, StateIsValid(state), Save(state) \/ (StoreTypes /\ SaveFails), mailbox' = mailbox
  PROVE  StoreTypes'
  BY DEF StoreTypes, Save, SaveFails, storeVars, StateIsValid, WatchStates

(* A handler that is done is in its types again.                           *)
LEMMA FinishTypes ==
  ASSUME WorldTypes, LocalTypes, NEW h \in Handlers, Finish(h), mailbox' = mailbox, published' = published
  PROVE  LocalTypes'
  <1>1. Blank \in WatchStates /\ Blank.history = 0
    BY BoundsAssumption DEF Blank, WatchStates
  <1> QED
    BY <1>1, BoundsAssumption DEF WorldTypes, LocalTypes, Finish, Goto, Labels, Messages

(* A handler that only goes on to its next label stays in its types.       *)
LEMMA GotoTypes ==
  ASSUME LocalTypes, NEW h \in Handlers, NEW label \in Labels, Goto(h, label), pc[h] # "idle",
         UNCHANGED localVars, mailbox' = mailbox, published' = published
  PROVE  LocalTypes'
  BY DEF LocalTypes, Goto, localVars

(* Acknowledging or refusing the notification is type correct.             *)
LEMMA OutcomeTypes ==
  ASSUME WorldTypes, LocalTypes, NEW h \in Handlers, pc[h] # "idle", Ack(h) \/ Nack(h),
         UNCHANGED <<gmailVars, renewal, delivered>>
  PROVE  WorldTypes' /\ LocalTypes'
  <1>1. Finish(h) /\ published' = published /\ mailbox' = mailbox
    BY DEF Ack, Nack, pubsubVars, gmailVars
  <1>2. LocalTypes'
    BY <1>1, FinishTypes
  <1>3. WorldTypes'
    BY DEF WorldTypes, LocalTypes, Ack, Nack, pubsubVars, gmailVars
  <1> QED
    BY <1>2, <1>3

(* Every transition of the watch state (transitions.go, state.go) keeps    *)
(* the cursor within the mailbox.                                          *)
LEMMA UpdatedStates ==
  ASSUME WorldTypes, NEW state, StateIsValid(state), NEW flag \in BOOLEAN
  PROVE  /\ StateIsValid([state EXCEPT !.limited = flag])
         /\ StateIsValid([state EXCEPT !.authPending = flag])
         /\ \A id \in 0 .. mailbox, n \in Notifications : StateIsValid(Advanced(state, id, n))
         /\ \A id \in 0 .. mailbox, n \in Notifications, progress \in WatchStates :
              progress.history <= mailbox => StateIsValid(Restored(state, progress, id, n))
         /\ \A id \in 0 .. mailbox : /\ StateIsValid([state EXCEPT !.history = id])
                                     /\ StateIsValid(Registered(state, id))
         /\ StateIsValid(Blank)
  <1> USE BoundsAssumption DEF StateIsValid, WatchStates, WorldTypes
  <1>1. /\ StateIsValid([state EXCEPT !.limited = flag])
        /\ StateIsValid([state EXCEPT !.authPending = flag])
    OBVIOUS
  <1>2. ASSUME NEW id \in 0 .. mailbox, NEW n \in Notifications
        PROVE  StateIsValid(Advanced(state, id, n))
    <2> DEFINE cursor == IF id >= state.history THEN id ELSE state.history
    <2>1. cursor \in 0 .. MaxHistory /\ cursor <= mailbox
      OBVIOUS
    <2> HIDE DEF cursor
    <2>2. Advanced(state, id, n) = [state EXCEPT !.history = cursor, !.lastPush = n, !.authPending = FALSE]
      BY DEF Advanced, cursor
    <2> QED
      BY <2>1, <2>2
  <1>3. ASSUME NEW id \in 0 .. mailbox, NEW n \in Notifications, NEW progress \in WatchStates, progress.history <= mailbox
        PROVE  StateIsValid(Restored(state, progress, id, n))
    BY <1>3 DEF Restored
  <1>4. ASSUME NEW id \in 0 .. mailbox
        PROVE  StateIsValid([state EXCEPT !.history = id]) /\ StateIsValid(Registered(state, id))
    <2>1. id \in 0 .. MaxHistory /\ id <= mailbox
      OBVIOUS
    <2>2. StateIsValid([state EXCEPT !.history = id])
      BY <2>1
    <2>3. StateIsValid([state EXCEPT !.limited = FALSE])
      OBVIOUS
    <2>4. StateIsValid(NewWatch(id))
      BY <2>1 DEF NewWatch
    <2> QED
      BY <2>2, <2>3, <2>4 DEF Registered
  <1>5. StateIsValid(Blank)
    BY DEF Blank
  <1> QED
    BY <1>1, <1>2, <1>3, <1>4, <1>5

(* Every action keeps every variable in its type.                          *)
LEMMA TypeStep == TypeOK /\ [Next]_vars => TypeOK'
  <1> SUFFICES ASSUME TypeOK, [Next]_vars
               PROVE  TypeOK'
    OBVIOUS
  <1>0. WorldTypes /\ StoreTypes /\ LocalTypes /\ StateIsValid(file)
        /\ \A h \in Handlers : StateIsValid(before[h])
    BY DEF TypeOK, StoreTypes, LocalTypes, StateIsValid
  <1>1. CASE MailArrives
    <2>1. WorldTypes'
      <3> DEFINE mail == [history |-> mailbox + 1, of |-> "mail"]
      <3>1. mailbox' \in 1 .. MaxHistory /\ mailbox' = mailbox + 1 /\ published' = published \cup {mail}
            /\ UNCHANGED <<forgotten, acked, renewal, delivered>>
        BY <1>0, <1>1, BoundsAssumption DEF MailArrives, WorldTypes
      <3>2. mail \in Notifications /\ mail.history = mailbox'
        BY <3>1 DEF Notifications
      <3>3. \A n \in published : n.history <= mailbox'
        BY <1>0, <3>1 DEF WorldTypes, Notifications
      <3> HIDE DEF mail
      <3>4. forgotten \in 0 .. mailbox' /\ renewal \in 0 .. mailbox'
        BY <1>0, <3>1 DEF WorldTypes
      <3> QED
        BY <1>0, <3>1, <3>2, <3>3, <3>4 DEF WorldTypes
    <2>2. StoreTypes' /\ LocalTypes'
      BY <1>0, <1>1 DEF MailArrives, WorldTypes, StoreTypes, LocalTypes, StateIsValid, WatchStates, storeVars, localVars
    <2> QED
      BY <2>1, <2>2 DEF TypeOK
  <1>2. CASE HistoryExpires
    BY <1>2 DEF HistoryExpires, TypeOK, WorldTypes, StoreTypes, LocalTypes, StateIsValid, pubsubVars, storeVars, localVars
  <1>3. ASSUME NEW h \in Handlers, NEW n \in Notifications, Receive(h, n)
         PROVE  TypeOK'
    <2>1. WorldTypes' /\ StoreTypes'
      BY <1>0, <1>3 DEF Receive, WorldTypes, StoreTypes, StateIsValid, gmailVars, storeVars
    <2>2. LocalTypes'
      BY <1>0, <1>3 DEF Receive, Goto, LocalTypes, Labels, StoreTypes, StateIsValid, gmailVars
    <2> QED
      BY <2>1, <2>2 DEF TypeOK
  <1>4. ASSUME NEW h \in Handlers, HandlerStep(h)
         PROVE  TypeOK'
    <2>0. \A id \in 0 .. mailbox : id \in 0 .. MaxHistory
      BY <1>0, BoundsAssumption DEF WorldTypes
    <2>1. CASE CheckDuplicate(h)
      BY <1>0, <2>1, OutcomeTypes, GotoTypes DEF CheckDuplicate, TypeOK, StoreTypes, WorldTypes, StateIsValid, gmailVars, storeVars, pubsubVars, Labels
    <2>2. CASE RateLimitIsOpen(h)
      <3>1. StoreTypes'
        <4>1. \/ UNCHANGED storeVars
              \/ Save(file) \/ SaveFails
          BY <2>2 DEF RateLimitIsOpen
        <4> QED
          BY <1>0, <2>2, <4>1, SaveTypes DEF RateLimitIsOpen, gmailVars, StoreTypes, storeVars, StateIsValid
      <3> QED
        BY <1>0, <2>2, <3>1, OutcomeTypes DEF RateLimitIsOpen, TypeOK
    <2>3. CASE RateLimitIsClosed(h)
      <3>1. StoreTypes'
        BY <1>0, <2>3, SaveTypes, UpdatedStates DEF RateLimitIsClosed, gmailVars, StoreTypes, storeVars, StateIsValid
      <3> QED
        BY <1>0, <2>3, <3>1, GotoTypes DEF RateLimitIsClosed, TypeOK, WorldTypes, gmailVars, pubsubVars, Labels
    <2>4. CASE SelectStart(h)
      <3>1. push[h] \in Notifications /\ push[h].history \in 0 .. mailbox /\ StartID(h) \in 0 .. MaxHistory
            /\ pc[h] # "idle"
        BY <1>0, <2>0, <2>4 DEF SelectStart, LocalTypes, WorldTypes, Notifications, StartID, StateIsValid, WatchStates
      <3>2. StoreTypes'
        <4>1. Save([file EXCEPT !.history = push[h].history]) \/ SaveFails
              \/ (mem' = file /\ UNCHANGED <<file, exists>>)
          BY <2>4 DEF SelectStart
        <4> QED
          BY <1>0, <2>4, <3>1, <4>1, SaveTypes, UpdatedStates DEF SelectStart, StoreTypes, StateIsValid, gmailVars
      <3>3. CASE Ack(h) \/ Nack(h)
        BY <1>0, <2>4, <3>1, <3>2, <3>3, OutcomeTypes DEF SelectStart, TypeOK
      <3>4. CASE /\ start' = [start EXCEPT ![h] = StartID(h)] /\ Goto(h, "list")
                 /\ UNCHANGED <<pubsubVars, push, before, next, batch>>
        <4>1. LocalTypes'
          BY <1>0, <2>4, <3>1, <3>4 DEF SelectStart, LocalTypes, Goto, Labels, gmailVars, pubsubVars
        <4>2. WorldTypes'
          BY <1>0, <2>4, <3>4 DEF SelectStart, WorldTypes, gmailVars, pubsubVars
        <4> QED
          BY <3>2, <4>1, <4>2 DEF TypeOK
      <3> QED
        BY <2>4, <3>3, <3>4 DEF SelectStart
    <2>5. CASE ListHistory(h)
      <3>1. WorldTypes' /\ StoreTypes'
        BY <1>0, <2>5 DEF ListHistory, WorldTypes, StoreTypes, StateIsValid, gmailVars, pubsubVars, storeVars
      <3>2. LocalTypes'
        <4>1. mailbox \in 0 .. MaxHistory
          BY <1>0, <2>0 DEF WorldTypes
        <4>2. pc' \in [Handlers -> Labels] /\ next' \in [Handlers -> 0 .. MaxHistory]
              /\ batch' \in [Handlers -> SUBSET Messages]
              /\ \A g \in Handlers : next'[g] <= mailbox
          BY <1>0, <2>5, <4>1 DEF ListHistory, LocalTypes, Goto, Labels
        <4> QED
          BY <1>0, <2>5, <4>2 DEF ListHistory, LocalTypes, Goto, gmailVars, pubsubVars
      <3> QED
        BY <3>1, <3>2 DEF TypeOK
    <2>6. CASE Resync(h)
      <3>1. WorldTypes' /\ StoreTypes'
        BY <1>0, <2>6 DEF Resync, WorldTypes, StoreTypes, StateIsValid, gmailVars, pubsubVars, storeVars
      <3>2. push[h].history \in 0 .. mailbox
        BY <1>0, <2>6 DEF Resync, LocalTypes, WorldTypes, Notifications
      <3>3. LocalTypes'
        BY <1>0, <2>0, <2>6, <3>2 DEF Resync, LocalTypes, Goto, Labels, gmailVars, pubsubVars
      <3> QED
        BY <3>1, <3>3 DEF TypeOK
    <2>7. CASE FetchMessages(h)
      <3>1. WorldTypes' /\ StoreTypes'
        BY <1>0, <2>7 DEF FetchMessages, WorldTypes, StoreTypes, StateIsValid, gmailVars, pubsubVars, storeVars
      <3>2. LocalTypes'
        BY <1>0, <2>7 DEF FetchMessages, LocalTypes, Goto, Labels, gmailVars, pubsubVars
      <3> QED
        BY <3>1, <3>2 DEF TypeOK
    <2>8. CASE SourceFails(h)
      <3>1. WorldTypes' /\ StoreTypes'
        BY <1>0, <2>8 DEF SourceFails, WorldTypes, StoreTypes, StateIsValid, gmailVars, pubsubVars, storeVars
      <3>2. LocalTypes'
        BY <1>0, <2>8, GotoTypes, FinishTypes DEF SourceFails, gmailVars, pubsubVars, Labels
      <3> QED
        BY <3>1, <3>2 DEF TypeOK
    <2>9. CASE MarkAuthRecovery(h)
      <3>1. StoreTypes'
        BY <1>0, <2>9, SaveTypes, UpdatedStates DEF MarkAuthRecovery, gmailVars
      <3> QED
        BY <1>0, <2>9, <3>1, OutcomeTypes DEF MarkAuthRecovery, TypeOK
    <2>10. CASE OpenRateLimit(h)
      <3>1. StoreTypes'
        BY <1>0, <2>10, SaveTypes, UpdatedStates DEF OpenRateLimit, gmailVars
      <3> QED
        BY <1>0, <2>10, <3>1, OutcomeTypes DEF OpenRateLimit, TypeOK
    <2>11. CASE AdvanceHistory(h)
      <3>1. push[h] \in Notifications /\ next[h] \in 0 .. mailbox
        BY <1>0, <2>11 DEF AdvanceHistory, LocalTypes, WorldTypes
      <3>2. StoreTypes'
        BY <1>0, <2>11, <3>1, SaveTypes, UpdatedStates DEF AdvanceHistory, gmailVars
      <3> QED
        BY <1>0, <2>11, <3>2, OutcomeTypes, GotoTypes DEF AdvanceHistory, TypeOK, WorldTypes, gmailVars, pubsubVars, Labels
    <2>12. CASE HookAccepts(h) \/ HookFails(h)
      <3>1. WorldTypes' /\ StoreTypes'
        BY <1>0, <2>12 DEF HookAccepts, HookFails, HookReceives, LocalTypes, WorldTypes, StoreTypes, StateIsValid, gmailVars, pubsubVars, storeVars
      <3>2. LocalTypes'
        BY <1>0, <2>12, GotoTypes DEF HookAccepts, HookFails, gmailVars, pubsubVars, Labels
      <3> QED
        BY <3>1, <3>2 DEF TypeOK
    <2>13. CASE RecordDelivery(h)
      <3>1. StoreTypes'
        BY <1>0, <2>13, SaveTypes DEF RecordDelivery, gmailVars
      <3> QED
        BY <1>0, <2>13, <3>1, OutcomeTypes, GotoTypes DEF RecordDelivery, TypeOK, WorldTypes, gmailVars, pubsubVars, Labels
    <2>14. CASE RestoreProgress(h)
      <3>1. push[h] \in Notifications /\ next[h] \in 0 .. mailbox /\ before[h] \in WatchStates /\ before[h].history <= mailbox
        BY <1>0, <2>14 DEF RestoreProgress, LocalTypes, WorldTypes
      <3>2. StoreTypes'
        BY <1>0, <2>14, <3>1, SaveTypes, UpdatedStates DEF RestoreProgress, gmailVars
      <3> QED
        BY <1>0, <2>14, <3>2, OutcomeTypes DEF RestoreProgress, TypeOK
    <2> QED
      BY <1>4, <2>1, <2>2, <2>3, <2>4, <2>5, <2>6, <2>7, <2>8, <2>9, <2>10, <2>11, <2>12, <2>13, <2>14 DEF HandlerStep
  <1>5. CASE Restart
    <2>1. WorldTypes' /\ StoreTypes'
      BY <1>0, <1>5 DEF Restart, WorldTypes, StoreTypes, StateIsValid, gmailVars, pubsubVars
    <2>2. LocalTypes'
      <3>1. Blank \in WatchStates /\ Blank.history <= mailbox
        BY <1>0, UpdatedStates DEF StateIsValid
      <3> QED
        BY <1>0, <1>5, <3>1, BoundsAssumption DEF Restart, LocalTypes, WorldTypes, Labels, gmailVars, pubsubVars
    <2> QED
      BY <2>1, <2>2 DEF TypeOK
  <1>6. CASE RegisterWatch
    <2>1. WorldTypes'
      BY <1>0, <1>6, BoundsAssumption DEF RegisterWatch, WorldTypes, gmailVars, Notifications
    <2>2. StoreTypes' /\ LocalTypes'
      BY <1>0, <1>6 DEF RegisterWatch, StoreTypes, LocalTypes, StateIsValid, gmailVars, storeVars, localVars
    <2> QED
      BY <2>1, <2>2 DEF TypeOK
  <1>7. CASE ApplyRegistration
    <2>1. WorldTypes' /\ LocalTypes'
      BY <1>0, <1>7 DEF ApplyRegistration, WorldTypes, LocalTypes, gmailVars, pubsubVars, localVars
    <2>2. StoreTypes'
      BY <1>0, <1>7, UpdatedStates DEF ApplyRegistration, StoreTypes, StateIsValid, WorldTypes, gmailVars
    <2> QED
      BY <2>1, <2>2 DEF TypeOK
  <1>8. CASE Stop
    <2>1. WorldTypes' /\ LocalTypes'
      BY <1>0, <1>8 DEF Stop, WorldTypes, LocalTypes, gmailVars, pubsubVars, localVars
    <2>2. StoreTypes'
      BY <1>0, <1>8, UpdatedStates DEF Stop, StoreTypes, StateIsValid, gmailVars
    <2> QED
      BY <2>1, <2>2 DEF TypeOK
  <1>9. CASE UNCHANGED vars
    BY <1>9 DEF vars, TypeOK, WorldTypes, StoreTypes, LocalTypes, StateIsValid, gmailVars, pubsubVars, storeVars, localVars
  <1> QED
    BY <1>1, <1>2, <1>3, <1>4, <1>5, <1>6, <1>7, <1>8, <1>9 DEF Next

(* Type correctness: cursors, listings and caches never run ahead of the   *)
(* mailbox, and a busy handler works on a published notification.          *)
THEOREM TypeCorrect == Spec => []TypeOK
  <1>1. Init => TypeOK
    <2> SUFFICES ASSUME Init
                 PROVE  TypeOK
      OBVIOUS
    <2>2. StateIsValid(file) /\ StateIsValid(Blank)
      BY BoundsAssumption DEF Init, StateIsValid, WatchStates, Blank, NewWatch
    <2>3. WorldTypes /\ StoreTypes
      BY <2>2, BoundsAssumption DEF Init, WorldTypes, StoreTypes
    <2>4. LocalTypes
      BY <2>2, BoundsAssumption DEF Init, LocalTypes, StateIsValid, Labels
    <2> QED
      BY <2>3, <2>4 DEF TypeOK
  <1> QED
    BY <1>1, TypeStep, PTL DEF Spec

-----------------------------------------------------------------------------
(* Any step of one handler.                                                *)
HandlerActs(h) == HandlerStep(h) \/ \E n \in Notifications : Receive(h, n)

(* A handler never touches the locals of another.                          *)
LEMMA HandlersAreSeparate ==
  ASSUME TypeOK, NEW h \in Handlers, HandlerActs(h), NEW g \in Handlers, g # h
  PROVE  /\ pc'[g] = pc[g] /\ push'[g] = push[g] /\ before'[g] = before[g]
         /\ start'[g] = start[g] /\ next'[g] = next[g] /\ batch'[g] = batch[g]
  <1> USE DEF TypeOK, LocalTypes, localVars, Goto, Finish
  <1>1. CASE \E n \in Notifications : Receive(h, n)
    BY <1>1 DEF Receive
  <1>2. CASE CheckDuplicate(h) \/ RateLimitIsOpen(h) \/ RateLimitIsClosed(h)
    BY <1>2 DEF CheckDuplicate, RateLimitIsOpen, RateLimitIsClosed, Ack, Nack
  <1>3. CASE SelectStart(h)
    BY <1>3 DEF SelectStart, Ack, Nack
  <1>4. CASE ListHistory(h) \/ Resync(h) \/ FetchMessages(h) \/ SourceFails(h)
    BY <1>4 DEF ListHistory, Resync, FetchMessages, SourceFails
  <1>5. CASE MarkAuthRecovery(h) \/ OpenRateLimit(h) \/ AdvanceHistory(h)
    BY <1>5 DEF MarkAuthRecovery, OpenRateLimit, AdvanceHistory, Ack, Nack
  <1>6. CASE HookAccepts(h) \/ HookFails(h) \/ RecordDelivery(h) \/ RestoreProgress(h)
    BY <1>6 DEF HookAccepts, HookFails, RecordDelivery, RestoreProgress, Ack, Nack
  <1> QED
    BY <1>1, <1>2, <1>3, <1>4, <1>5, <1>6 DEF HandlerActs, HandlerStep

(* Left alone, the consumer sees only mail, expiry and its handlers.       *)
LEMMA UndisturbedSteps ==
  Undisturbed /\ renewal = 0 /\ [Next]_vars =>
    \/ MailArrives \/ HistoryExpires \/ UNCHANGED vars
    \/ \E h \in Handlers : HandlerActs(h)
  BY DEF Undisturbed, Next, Restart, RegisterWatch, ApplyRegistration, Stop, HandlerActs

(* With a reliable hook, a message that is handled or held stays so: a     *)
(* handler lets go of it only by delivering it.                            *)
LEMMA HeldPersists ==
  ASSUME TypeOK, ServeInv, ReliableHook, NEW h \in Handlers, HandlerActs(h),
         NEW i \in Messages, HandledOrHeld(i)
  PROVE  HandledOrHeld(i)'
  <1>1. delivered \subseteq delivered'
    BY DEF HandlerActs, HandlerStep, Receive, CheckDuplicate, RateLimitIsOpen, RateLimitIsClosed, SelectStart,
           ListHistory, Resync, FetchMessages, SourceFails, MarkAuthRecovery, OpenRateLimit, AdvanceHistory,
           HookAccepts, HookFails, HookReceives, RecordDelivery, RestoreProgress
  <1>2. CASE Handled(i)
    BY <1>1, <1>2 DEF HandledOrHeld, Handled
  <1>3. ASSUME NEW g \in Handlers, Held(g, i), g # h
        PROVE  HandledOrHeld(i)'
    BY <1>3, HandlersAreSeparate DEF HandledOrHeld, Held
  <1>4. CASE Held(h, i)
    <2>1. pc[h] = "deliver" /\ i \in batch[h]
      BY <1>4 DEF Held, ServeInv
    <2>2. HookAccepts(h)
      BY <2>1 DEF ReliableHook, HandlerActs, HandlerStep, Receive, CheckDuplicate, RateLimitIsOpen, RateLimitIsClosed,
           SelectStart, ListHistory, Resync, FetchMessages, SourceFails, MarkAuthRecovery, OpenRateLimit,
           AdvanceHistory, HookFails, RecordDelivery, RestoreProgress
    <2> QED
      BY <2>1, <2>2 DEF HookAccepts, HookReceives, HandledOrHeld, Handled
  <1> QED
    BY <1>2, <1>3, <1>4 DEF HandledOrHeld

(* ServeInv is inductive.  A listing begins at a cursor below which        *)
(* everything is handled or held and brings the rest, so the cursor may    *)
(* move to its end.                                                        *)
LEMMA ServeStep ==
  TypeOK /\ TypeOK' /\ ServeInv /\ ReliableHook /\ [Next]_vars => ServeInv'
  <1> SUFFICES ASSUME TypeOK, TypeOK', ServeInv, ReliableHook, [Next]_vars
               PROVE  ServeInv'
    OBVIOUS
  <1>1. CASE MailArrives \/ HistoryExpires \/ UNCHANGED vars
    BY <1>1 DEF MailArrives, HistoryExpires, vars, storeVars, localVars, ServeInv, NothingIsSkipped, HandledOrHeld, Handled, Held
  <1>2. ASSUME NEW h \in Handlers, HandlerActs(h)
        PROVE  ServeInv'
    <2>1. \A i \in Messages : HandledOrHeld(i) => HandledOrHeld(i)'
      BY <1>2, HeldPersists
    <2>2. \A g \in Handlers \ {h} : pc'[g] = pc[g] /\ start'[g] = start[g] /\ next'[g] = next[g] /\ batch'[g] = batch[g]
      BY <1>2, HandlersAreSeparate
    <2>3. \A i \in Messages : i <= file.history => HandledOrHeld(i)
      BY DEF ServeInv, NothingIsSkipped, HandledOrHeld
    <2>4. renewal' = renewal
      BY <1>2 DEF HandlerActs, HandlerStep, Receive, CheckDuplicate, RateLimitIsOpen, RateLimitIsClosed, SelectStart,
           ListHistory, Resync, FetchMessages, SourceFails, MarkAuthRecovery, OpenRateLimit, AdvanceHistory,
           HookAccepts, HookFails, RecordDelivery, RestoreProgress
    <2> DEFINE Cursor == file'.history > 0 /\ \A i \in Messages : i <= file'.history => HandledOrHeld(i)'
               Local == /\ pc'[h] \notin {"recordFailed", "restore"}
                        /\ pc'[h] = "list" => \A i \in Messages : i <= start'[h] => HandledOrHeld(i)'
                        /\ pc'[h] \in {"fetch", "skip", "advance"} =>
                             \A i \in Messages : i <= next'[h] => HandledOrHeld(i)' \/ i \in batch'[h]
                        /\ pc'[h] = "skip" => batch'[h] \subseteq Excluded
    <2>5. ASSUME Cursor, Local
          PROVE  ServeInv'
      BY <2>1, <2>2, <2>4, <2>5 DEF ServeInv, NothingIsSkipped, HandledOrHeld
    <2>6. ASSUME file'.history = file.history
          PROVE  Cursor
      BY <2>1, <2>3, <2>6 DEF ServeInv
    <2>7. ASSUME pc'[h] \in {"idle", "check", "circuit", "select", "resync", "deliver", "recordOk", "auth", "limit"}
          PROVE  Local
      BY <2>7
    <2> HIDE DEF Cursor, Local
    <2> USE DEF TypeOK, LocalTypes, Goto, Finish
    <2>8. CASE \E n \in Notifications : Receive(h, n)
      BY <2>8, <2>5, <2>6, <2>7 DEF Receive, storeVars
    <2>9. CASE CheckDuplicate(h)
      BY <2>9, <2>5, <2>6, <2>7 DEF CheckDuplicate, Ack, storeVars
    <2>10. CASE RateLimitIsOpen(h) \/ RateLimitIsClosed(h)
      <3>1. file'.history = file.history
        BY <2>10 DEF RateLimitIsOpen, RateLimitIsClosed, Save, SaveFails, storeVars,
                     StoreTypes, StateIsValid, WatchStates
      <3>2. pc'[h] \in {"idle", "select"}
        BY <2>10 DEF RateLimitIsOpen, RateLimitIsClosed, Nack
      <3> QED
        BY <3>1, <3>2, <2>5, <2>6, <2>7
    <2>11. CASE SelectStart(h)
      <3>1. file.history # 0 /\ file' = file
        BY <2>11 DEF SelectStart, ServeInv
      <3>2. CASE pc'[h] = "idle"
        BY <3>1, <3>2, <2>5, <2>6, <2>7
      <3>3. CASE pc'[h] # "idle"
        <4>1. pc'[h] = "list" /\ start'[h] = file.history
          BY <2>11, <3>1, <3>3 DEF SelectStart, StartID, Ack, Nack
        <4>2. Local
          BY <2>1, <2>3, <4>1 DEF Local
        <4> QED
          BY <3>1, <4>2, <2>5, <2>6
      <3> QED
        BY <3>2, <3>3
    <2>12. CASE ListHistory(h)
      <3>1. file' = file
        BY <2>12 DEF ListHistory, storeVars
      <3>2. CASE pc'[h] = "resync"
        BY <3>1, <3>2, <2>5, <2>6, <2>7
      <3>3. CASE pc'[h] # "resync"
        <4>1. /\ pc'[h] \in {"skip", "fetch"}
              /\ pc'[h] = "skip" => batch'[h] = {}
              /\ next'[h] = mailbox
              /\ batch'[h] = {i \in Messages : start[h] < i /\ i <= mailbox /\ i <= start[h] + PageSize}
          BY <2>12, <3>3 DEF ListHistory
        <4>2. \A i \in Messages : i <= start[h] + PageSize
          BY BoundsAssumption DEF ReliableHook, NoBacklog, Messages
        <4>3. \A i \in Messages : i <= start[h] => HandledOrHeld(i)'
          BY <2>1, <2>12 DEF ListHistory, ServeInv
        <4>4. \A i \in Messages : i <= next'[h] => HandledOrHeld(i)' \/ i \in batch'[h]
          <5> SUFFICES ASSUME NEW i \in Messages, i <= mailbox, ~ HandledOrHeld(i)'
                       PROVE  i \in batch'[h]
            BY <4>1
          <5>1. start[h] \in Nat /\ i \in Nat
            BY DEF Messages
          <5> QED
            BY <4>1, <4>2, <4>3, <5>1
        <4>5. Local
          BY <4>1, <4>4 DEF Local
        <4> QED
          BY <3>1, <4>5, <2>5, <2>6
      <3> QED
        BY <3>2, <3>3
    <2>13. CASE Resync(h)
      <3>1. file' = file /\ pc'[h] = "fetch" /\ next'[h] = push[h].history
            /\ batch'[h] = {i \in Messages : mailbox - ResyncSize < i /\ i <= mailbox}
        BY <2>13 DEF Resync, storeVars
      <3>2. next'[h] <= mailbox /\ next'[h] \in Nat /\ mailbox \in 1 .. MaxHistory
        BY <2>13, <3>1 DEF Resync, WorldTypes, Notifications
      <3>3. \A i \in Messages : i <= next'[h] => i \in batch'[h]
        BY <3>1, <3>2, BoundsAssumption DEF ReliableHook, NoBacklog, Messages
      <3>4. Local
        BY <3>1, <3>3 DEF Local
      <3> QED
        BY <3>1, <3>4, <2>5, <2>6
    <2>14. CASE FetchMessages(h)
      <3>1. /\ file' = file /\ pc[h] = "fetch" /\ next'[h] = next[h] /\ batch'[h] = batch[h] \ Excluded
            /\ pc'[h] \in {"skip", "advance"}
            /\ pc'[h] = "skip" => batch[h] \subseteq Excluded
        BY <2>14 DEF FetchMessages, storeVars
      <3>2. \A i \in Messages : i \in Excluded => HandledOrHeld(i)'
        BY DEF HandledOrHeld, Handled
      <3>3. Local
        BY <2>1, <3>1, <3>2 DEF Local, ServeInv
      <3> QED
        BY <3>1, <3>3, <2>5, <2>6
    <2>15. CASE SourceFails(h)
      BY <2>15, <2>5, <2>6, <2>7 DEF SourceFails, storeVars
    <2>16. CASE MarkAuthRecovery(h) \/ OpenRateLimit(h)
      <3>1. file'.history = file.history /\ pc'[h] = "idle"
        BY <2>16 DEF MarkAuthRecovery, OpenRateLimit, Save, SaveFails, storeVars, Ack, Nack,
                     StoreTypes, StateIsValid, WatchStates
      <3> QED
        BY <3>1, <2>5, <2>6, <2>7
    <2>17. CASE AdvanceHistory(h)
      <3>1. pc'[h] \in {"deliver", "idle"}
        BY <2>17 DEF AdvanceHistory, Ack
      <3>2. \A i \in Messages : i <= next[h] => HandledOrHeld(i)'
        <4> SUFFICES ASSUME NEW i \in Messages, i <= next[h], ~ HandledOrHeld(i)
                     PROVE  HandledOrHeld(i)'
          BY <2>1
        <4>1. i \in batch[h] /\ pc[h] \in {"advance", "skip"}
          BY <2>17 DEF AdvanceHistory, ServeInv
        <4>2. pc[h] = "advance"
          BY <4>1 DEF ServeInv, HandledOrHeld, Handled
        <4> QED
          BY <2>17, <4>1, <4>2 DEF AdvanceHistory, HandledOrHeld, Held, localVars
      <3>3. CASE file' = file
        BY <3>1, <3>3, <2>5, <2>6, <2>7
      <3>4. CASE file' = Advanced(file, next[h], push[h])
        <4>1. file'.history = IF next[h] >= file.history THEN next[h] ELSE file.history
          BY <3>4 DEF Advanced, StoreTypes, StateIsValid, WatchStates
        <4>2. Cursor
          BY <2>1, <2>3, <3>2, <4>1 DEF Cursor, ServeInv, StoreTypes, StateIsValid, WatchStates
        <4> QED
          BY <3>1, <4>2, <2>5, <2>7
      <3> QED
        BY <2>17, <3>3, <3>4 DEF AdvanceHistory, Save, SaveFails, storeVars
    <2>18. CASE HookAccepts(h)
      BY <2>18, <2>5, <2>6, <2>7 DEF HookAccepts, storeVars
    <2>19. CASE RecordDelivery(h)
      <3>1. file'.history = file.history /\ pc'[h] = "idle"
        BY <2>19 DEF RecordDelivery, Save, SaveFails, storeVars, Ack, ServeInv
      <3> QED
        BY <3>1, <2>5, <2>6, <2>7
    <2>20. ~ HookFails(h) /\ ~ RestoreProgress(h)
      BY DEF HookFails, RestoreProgress, ReliableHook, ServeInv
    <2> QED
      BY <1>2, <2>8, <2>9, <2>10, <2>11, <2>12, <2>13, <2>14, <2>15, <2>16, <2>17, <2>18, <2>19, <2>20
      DEF HandlerActs, HandlerStep
  <1> QED
    BY <1>1, <1>2, UndisturbedSteps DEF ReliableHook, ServeInv

(* Any number of concurrent pushes: with a reliable hook the cursor never  *)
(* passes over a message that nobody has or will deliver, even when writes *)
(* of the state file fail.                                                 *)
THEOREM ServeSkipsNothing == ReliableHook => (Spec => []NothingIsSkipped)
  <1> SUFFICES ASSUME ReliableHook
               PROVE  Spec => []NothingIsSkipped
    OBVIOUS
  <1>1. Init => ServeInv
    BY DEF Init, NewWatch, ServeInv, NothingIsSkipped, Messages
  <1>2. ServeInv => NothingIsSkipped
    BY DEF ServeInv
  <1>3. TypeOK /\ TypeOK' /\ ServeInv /\ [Next]_vars => ServeInv'
    BY ServeStep
  <1> QED
    BY <1>1, <1>2, <1>3, TypeCorrect, PTL DEF Spec

-----------------------------------------------------------------------------
(* The last conjunct of PullInv.                                           *)
EachIsListed == \A i \in Messages : i <= mailbox /\ ~ Handled(i) => WillBeListed(i)

(* New mail brings its own notification.                                   *)
LEMMA MailArrivesPulled ==
  ASSUME TypeOK, PullInv, MailArrives
  PROVE  PullInv'
  <1> DEFINE mail(i) == [history |-> i, of |-> "mail"]
  <1>1. mailbox \in Nat /\ mailbox' = mailbox + 1 /\ published' = published \cup {mail(mailbox + 1)}
        /\ UNCHANGED <<acked, file, mem, pc, push, before, start, next, batch, renewal, delivered>>
    BY DEF TypeOK, WorldTypes, MailArrives, storeVars, localVars
  <1>2. Outstanding \subseteq Outstanding' /\ mail(mailbox + 1) \in Outstanding'
    <2>1. \A n \in acked : n.history <= mailbox
      BY DEF TypeOK, WorldTypes
    <2>2. mail(mailbox + 1).history = mailbox + 1
      OBVIOUS
    <2> QED
      BY <1>1, <2>1, <2>2 DEF Outstanding
  <1>3. \A i \in Messages : i <= mailbox' => i <= mailbox \/ i = mailbox + 1
    BY <1>1 DEF Messages
  <1>4. ASSUME NEW h \in Handlers
        PROVE  HandlerInv(h)'
    <2>1. HandlerInv(h) /\ before[h].history \in Nat /\ before[h].history <= mailbox /\ next[h] \in Nat
      BY DEF PullInv, TypeOK, LocalTypes, WatchStates
    <2>2. ASSUME Covers(h), next[h] <= mailbox
          PROVE  Covers(h)'
      BY <1>1, <1>2, <1>3, <2>1, <2>2 DEF Covers, Handled
    <2>3. ASSUME \A i \in Messages : i <= mailbox /\ ~ Handled(i) => before[h].history < i
          PROVE  \A i \in Messages : i <= mailbox' /\ ~ Handled(i)' => before'[h].history < i
      BY <1>1, <1>3, <2>1, <2>3 DEF Handled
    <2> HIDE DEF mail
    <2> QED
      BY <1>1, <1>2, <2>1, <2>2, <2>3 DEF HandlerInv, Handled
  <1>5. ASSUME EachIsListed
        PROVE  EachIsListed'
    <2> SUFFICES ASSUME NEW i \in Messages, i <= mailbox', ~ Handled(i)'
                 PROVE  WillBeListed(i)'
      BY DEF EachIsListed
    <2>1. CASE i <= mailbox
      BY <1>1, <1>2, <1>5, <2>1 DEF EachIsListed, Handled, WillBeListed
    <2>2. CASE i = mailbox + 1
      <3>1. file.history < i /\ file.history <= mailbox
        BY <1>1, <2>2 DEF TypeOK, StoreTypes, StateIsValid, WatchStates
      <3>2. mail(i) # file.lastPush
        <4>1. file.lastPush \in published \cup {None}
          BY DEF PullInv
        <4>2. mail(i).history = i /\ mail(i) \in Notifications
          BY <1>1, <2>2, BoundsAssumption DEF Messages, Notifications
        <4> QED
          BY <1>1, <2>2, <4>1, <4>2, NotificationAssumption DEF TypeOK, WorldTypes
      <3>3. mail(i).history >= file.history
        BY <3>1, <2>2, <1>1 DEF TypeOK, StoreTypes, StateIsValid, WatchStates
      <3> HIDE DEF mail
      <3> QED
        BY <1>1, <1>2, <2>2, <3>1, <3>2, <3>3 DEF WillBeListed
    <2> QED
      BY <1>3, <2>1, <2>2
  <1> QED
    BY <1>1, <1>4, <1>5 DEF PullInv, EachIsListed

(* Every step of the one handler keeps PullInv: until the cursor moves the *)
(* old cursor still owes everything, and what a listing missed has an      *)
(* outstanding notification of its own.                                    *)
LEMMA HandlerPulled ==
  ASSUME TypeOK, TypeOK', PullInv, ReliablePull, NEW h \in Handlers, HandlerActs(h)
  PROVE  PullInv'
  <1>1. /\ \A g \in Handlers : g = h
        /\ ~ WritesMayFail
        /\ HandlerInv(h) /\ mem = file /\ file.history > 0 /\ file.lastPush \in published \cup {None}
        /\ pc[h] \notin Moved => EachIsListed
    BY DEF ReliablePull, PullInv, EachIsListed
  <1>2. renewal' = renewal /\ published' = published /\ mailbox' = mailbox
    BY DEF HandlerActs, HandlerStep, Receive, CheckDuplicate, RateLimitIsOpen, RateLimitIsClosed, SelectStart,
           ListHistory, Resync, FetchMessages, SourceFails, MarkAuthRecovery, OpenRateLimit, AdvanceHistory,
           HookAccepts, HookFails, RecordDelivery, RestoreProgress, gmailVars, pubsubVars, Ack, Nack
  <1>3. /\ file \in WatchStates /\ file.history \in Nat /\ mailbox \in Nat
        /\ before[h] \in WatchStates /\ before[h].history \in Nat
        /\ start[h] \in Nat /\ next[h] \in Nat
        /\ pc[h] # "idle" => push[h] \in Notifications /\ push[h].history \in Nat
        /\ \A n \in published : n.history \in Nat
        /\ \A i \in Messages : i \in Nat
    BY DEF TypeOK, WorldTypes, StoreTypes, StateIsValid, LocalTypes, WatchStates, Notifications, Messages
  <1> DEFINE StoreInv == mem = file /\ file.history > 0 /\ file.lastPush \in published \cup {None}
  <1>4. ASSUME StoreInv', HandlerInv(h)', pc'[h] \in Moved \/ EachIsListed'
        PROVE  PullInv'
    <2>1. \A g \in Handlers : HandlerInv(g)'
      BY <1>1, <1>4
    <2>2. (\E g \in Handlers : pc'[g] \in Moved) \/ EachIsListed'
      BY <1>4
    <2> QED
      BY <1>2, <1>4, <2>1, <2>2 DEF PullInv, EachIsListed
  <1>5. ASSUME pc'[h] = "idle"
        PROVE  HandlerInv(h)'
    BY <1>5 DEF HandlerInv, Moved, Listed
  <1>6. ASSUME UNCHANGED <<file, delivered>>, Outstanding \subseteq Outstanding', EachIsListed
        PROVE  EachIsListed'
    BY <1>2, <1>6 DEF EachIsListed, Handled, WillBeListed
  <1>7. ASSUME file'.history = file.history, file'.lastPush = file.lastPush, file'.authPending = file.authPending,
               UNCHANGED delivered, Outstanding \subseteq Outstanding', EachIsListed
        PROVE  EachIsListed'
    BY <1>2, <1>7 DEF EachIsListed, Handled, WillBeListed
  <1>8. ASSUME Ack(h)
        PROVE  pc'[h] = "idle" /\ Outstanding' = Outstanding \ {push[h]}
    BY <1>8 DEF Ack, Finish, Goto, Outstanding, TypeOK, LocalTypes
  <1>9. ASSUME Nack(h)
        PROVE  pc'[h] = "idle" /\ Outstanding' = Outstanding
    BY <1>9 DEF Nack, Finish, Goto, Outstanding, TypeOK, LocalTypes, pubsubVars
  (* The cursor stands where the listing ended and all it listed is handled. *)
  <1>10. ASSUME pc[h] \in Listed, file'.history = next[h], file'.lastPush = push[h],
                batch[h] \subseteq delivered \cup Excluded, UNCHANGED delivered, Ack(h)
         PROVE  EachIsListed'
    <2> SUFFICES ASSUME NEW i \in Messages, i <= mailbox, ~ Handled(i)
                 PROVE  WillBeListed(i)'
      BY <1>2, <1>10 DEF EachIsListed, Handled
    <2> DEFINE mail == [history |-> i, of |-> "mail"]
    <2>1. next[h] < i /\ mail \in Outstanding /\ push[h].history <= next[h] /\ pc[h] # "idle"
      BY <1>1, <1>10 DEF HandlerInv, Covers, Handled, Listed, Moved
    <2>2. mail.history = i
      OBVIOUS
    <2> HIDE DEF mail
    <2>3. mail # push[h]
      BY <1>3, <2>1, <2>2
    <2> QED
      BY <1>3, <1>8, <1>10, <2>1, <2>2, <2>3 DEF WillBeListed
  <1> USE DEF TypeOK, LocalTypes, Goto
  <1>11. CASE \E n \in Notifications : Receive(h, n)
    <2>1. PICK n \in Notifications : Receive(h, n)
      BY <1>11
    <2>2. Outstanding \subseteq Outstanding' /\ n \in Outstanding' /\ UNCHANGED <<storeVars, delivered>>
          /\ pc[h] = "idle" /\ pc'[h] = "check" /\ push'[h] = n /\ before'[h] = mem
      BY <2>1 DEF Receive, Outstanding
    <2>3. HandlerInv(h)'
      BY <1>1, <1>2, <2>2 DEF HandlerInv, Moved, Listed, storeVars
    <2> QED
      BY <1>1, <1>2, <1>4, <1>6, <2>2, <2>3 DEF StoreInv, storeVars, Moved
  <1>12. CASE CheckDuplicate(h)
    <2>1. UNCHANGED <<storeVars, delivered>> /\ pc[h] = "check"
      BY <1>12 DEF CheckDuplicate
    <2>2. StoreInv' /\ EachIsListed
      BY <1>1, <1>2, <2>1 DEF StoreInv, storeVars, Moved
    <2>3. CASE mem.lastPush = push[h] /\ Ack(h)
      <3>1. EachIsListed'
        BY <1>1, <1>2, <1>8, <2>1, <2>2, <2>3 DEF EachIsListed, WillBeListed, Handled, storeVars
      <3> QED
        BY <1>4, <1>5, <1>8, <2>2, <2>3, <3>1
    <2>4. CASE mem.lastPush # push[h] /\ Goto(h, "circuit") /\ UNCHANGED <<pubsubVars, localVars>>
      <3>1. HandlerInv(h)'
        BY <1>1, <1>2, <2>1, <2>4 DEF HandlerInv, Moved, Listed, storeVars, localVars, pubsubVars, Outstanding
      <3> QED
        BY <1>4, <1>6, <2>1, <2>2, <2>4, <3>1 DEF pubsubVars, Outstanding, storeVars
    <2> QED
      BY <1>12, <2>3, <2>4 DEF CheckDuplicate
  <1>13. CASE RateLimitIsOpen(h)
    <2>1. mem' = mem /\ file' = file /\ delivered' = delivered /\ Nack(h) /\ pc[h] = "circuit"
      BY <1>1, <1>13 DEF RateLimitIsOpen, Save, SaveFails, storeVars
    <2> QED
      BY <1>1, <1>2, <1>4, <1>5, <1>6, <1>9, <2>1 DEF StoreInv, Moved
  <1>14. CASE RateLimitIsClosed(h)
    <2>1. /\ mem' = file' /\ delivered' = delivered /\ pc[h] = "circuit" /\ pc'[h] = "select"
          /\ UNCHANGED <<acked, localVars>>
          /\ file'.history = file.history /\ file'.lastPush = file.lastPush /\ file'.authPending = file.authPending
      BY <1>1, <1>3, <1>14 DEF RateLimitIsClosed, Save, storeVars, pubsubVars, WatchStates
    <2>2. HandlerInv(h)'
      BY <1>1, <1>2, <2>1 DEF HandlerInv, Moved, Listed, localVars, Outstanding
    <2> QED
      BY <1>1, <1>2, <1>4, <1>7, <2>1, <2>2 DEF StoreInv, Moved, Outstanding
  <1>15. CASE SelectStart(h)
    <2>1. file.history # 0 /\ pc[h] = "select" /\ file' = file /\ mem' = file /\ delivered' = delivered
      BY <1>1, <1>3, <1>15 DEF SelectStart
    <2>2. StoreInv' /\ EachIsListed
      BY <1>1, <1>2, <2>1 DEF StoreInv, Moved
    <2>3. CASE push[h].history < file.history
      <3>1. Ack(h)
        BY <1>1, <1>3, <1>15, <2>1, <2>3 DEF SelectStart
      <3>2. EachIsListed'
        BY <1>1, <1>2, <1>3, <1>8, <2>1, <2>2, <2>3, <3>1 DEF EachIsListed, WillBeListed, Handled
      <3> QED
        BY <1>4, <1>5, <1>8, <2>2, <3>1, <3>2
    <2>4. CASE push[h].history >= file.history
      <3>1. /\ start'[h] = file.history /\ pc'[h] = "list"
            /\ UNCHANGED <<pubsubVars, push, before, next, batch>>
        BY <1>1, <1>3, <1>15, <2>1, <2>4 DEF SelectStart, StartID
      <3>2. HandlerInv(h)'
        BY <1>1, <1>2, <2>1, <2>4, <3>1 DEF HandlerInv, Moved, Listed, Outstanding, pubsubVars
      <3> QED
        BY <1>4, <1>6, <2>1, <2>2, <3>1, <3>2 DEF Outstanding, pubsubVars
    <2> QED
      BY <1>3, <2>1, <2>3, <2>4
  <1>16. CASE ListHistory(h)
    <2>1. /\ pc[h] = "list" /\ UNCHANGED <<file, mem, acked, delivered, push, before>>
          /\ Outstanding' = Outstanding
      BY <1>2, <1>16 DEF ListHistory, storeVars, pubsubVars, Outstanding
    <2>2. StoreInv' /\ EachIsListed /\ EachIsListed'
      BY <1>1, <1>2, <1>6, <2>1 DEF StoreInv, Moved
    <2>3. CASE pc'[h] = "resync"
      <3>1. HandlerInv(h)'
        BY <1>1, <1>2, <2>1, <2>3 DEF HandlerInv, Moved, Listed
      <3> QED
        BY <1>4, <2>2, <3>1
    <2>4. CASE pc'[h] # "resync"
      <3>1. /\ pc'[h] \in {"skip", "fetch"}
            /\ pc'[h] = "skip" => batch'[h] = {}
            /\ next'[h] = mailbox
            /\ batch'[h] = {i \in Messages : start[h] < i /\ i <= mailbox /\ i <= start[h] + PageSize}
        BY <1>16, <2>4 DEF ListHistory
      <3>2. start[h] = file.history
        BY <1>1, <2>1 DEF HandlerInv, Moved
      <3>3. ASSUME NEW i \in Messages, i <= mailbox, ~ Handled(i)
            PROVE  i \in batch'[h]
        <4>1. start[h] < i
          BY <2>2, <3>2, <3>3 DEF EachIsListed, WillBeListed
        <4>2. i <= start[h] + PageSize
          BY <1>3, BoundsAssumption DEF ReliablePull, NoBacklog, Messages
        <4> QED
          BY <3>1, <3>3, <4>1, <4>2
      <3>4. Covers(h)'
        BY <1>2, <2>1, <3>3 DEF Covers, Handled
      <3>5. push[h].history <= mailbox
        BY <2>1 DEF WorldTypes
      <3>6. HandlerInv(h)'
        BY <1>1, <1>2, <1>3, <2>1, <3>1, <3>4, <3>5 DEF HandlerInv, Moved, Listed
      <3> QED
        BY <1>4, <2>2, <3>6
    <2> QED
      BY <2>3, <2>4
  <1>17. CASE Resync(h)
    <2>1. /\ pc[h] = "resync" /\ pc'[h] = "fetch" /\ UNCHANGED <<file, mem, acked, delivered, push, before>>
          /\ Outstanding' = Outstanding
          /\ next'[h] = push[h].history
          /\ batch'[h] = {i \in Messages : mailbox - ResyncSize < i /\ i <= mailbox}
      BY <1>2, <1>17 DEF Resync, storeVars, pubsubVars, Outstanding
    <2>2. StoreInv' /\ EachIsListed'
      BY <1>1, <1>2, <1>6, <2>1 DEF StoreInv, Moved
    <2>3. \A i \in Messages : i <= mailbox => i \in batch'[h]
      BY <2>1, BoundsAssumption DEF ReliablePull, NoBacklog, Messages, WorldTypes
    <2>4. push[h].history <= mailbox /\ push[h].history \in Nat
      BY <1>3, <2>1 DEF WorldTypes
    <2>5. Covers(h)'
      BY <1>2, <2>3 DEF Covers
    <2>6. HandlerInv(h)'
      BY <1>1, <1>2, <1>3, <2>1, <2>4, <2>5 DEF HandlerInv, Moved, Listed
    <2> QED
      BY <1>4, <2>2, <2>6
  <1>18. CASE FetchMessages(h)
    <2>1. /\ pc[h] = "fetch" /\ pc'[h] \in {"skip", "advance"} /\ UNCHANGED <<file, mem, acked, delivered, push, before, next>>
          /\ Outstanding' = Outstanding
          /\ batch'[h] = batch[h] \ Excluded
          /\ (pc'[h] = "skip" => batch[h] \subseteq Excluded)
      BY <1>2, <1>18 DEF FetchMessages, storeVars, pubsubVars, Outstanding
    <2>2. StoreInv' /\ EachIsListed'
      BY <1>1, <1>2, <1>6, <2>1 DEF StoreInv, Moved
    <2>3. Covers(h)'
      BY <1>1, <1>2, <2>1 DEF Covers, HandlerInv, Listed, Handled
    <2>4. HandlerInv(h)'
      BY <1>1, <1>2, <2>1, <2>3 DEF HandlerInv, Moved, Listed
    <2> QED
      BY <1>4, <2>2, <2>4
  <1>19. CASE SourceFails(h)
    <2>1. /\ pc[h] \in {"list", "resync", "fetch"} /\ UNCHANGED <<file, mem, acked, delivered>>
          /\ Outstanding' = Outstanding
      BY <1>2, <1>19 DEF SourceFails, storeVars, pubsubVars, Outstanding
    <2>2. StoreInv' /\ EachIsListed'
      BY <1>1, <1>2, <1>6, <2>1 DEF StoreInv, Moved
    <2>3. CASE Finish(h)
      BY <1>4, <1>5, <2>2, <2>3 DEF Finish
    <2>4. CASE pc'[h] \in {"auth", "limit"} /\ UNCHANGED localVars
      <3>1. HandlerInv(h)'
        BY <1>1, <1>2, <2>1, <2>4 DEF HandlerInv, Moved, Listed, localVars
      <3> QED
        BY <1>4, <2>2, <3>1
    <2> QED
      BY <1>19, <2>3, <2>4 DEF SourceFails
  <1>20. CASE MarkAuthRecovery(h)
    <2>1. /\ pc[h] = "auth" /\ Ack(h) /\ mem' = file' /\ delivered' = delivered
          /\ file'.history = file.history /\ file'.lastPush = file.lastPush /\ file'.authPending
      BY <1>1, <1>3, <1>20 DEF MarkAuthRecovery, Save, SaveFails, WatchStates
    <2>2. EachIsListed'
      BY <1>1, <1>2, <2>1 DEF EachIsListed, WillBeListed, Handled, Moved
    <2> QED
      BY <1>1, <1>2, <1>4, <1>5, <1>8, <2>1, <2>2 DEF StoreInv
  <1>21. CASE OpenRateLimit(h)
    <2>1. /\ pc[h] = "limit" /\ Nack(h) /\ mem' = file' /\ delivered' = delivered
          /\ file'.history = file.history /\ file'.lastPush = file.lastPush /\ file'.authPending = file.authPending
      BY <1>1, <1>3, <1>21 DEF OpenRateLimit, Save, SaveFails, WatchStates
    <2> QED
      BY <1>1, <1>2, <1>4, <1>5, <1>7, <1>9, <2>1 DEF StoreInv, Moved
  <1>22. CASE AdvanceHistory(h)
    <2>1. /\ pc[h] \in {"advance", "skip"} /\ mem' = file' /\ delivered' = delivered
          /\ file' = Advanced(file, next[h], push[h])
      BY <1>1, <1>22 DEF AdvanceHistory, Save, SaveFails
    <2>2. /\ push[h].history >= before[h].history /\ push[h].history <= next[h] /\ before[h].history = file.history
          /\ push[h] \in Outstanding /\ push[h].history \in Nat
      BY <1>1, <1>3, <2>1 DEF HandlerInv, Moved, Listed
    <2>3. file'.history = next[h] /\ file'.lastPush = push[h]
      BY <1>3, <2>1, <2>2 DEF Advanced, WatchStates
    <2>4. StoreInv'
      BY <1>1, <1>2, <1>3, <2>1, <2>2, <2>3 DEF StoreInv, Outstanding
    <2>5. CASE pc[h] = "skip"
      <3>1. Ack(h)
        BY <1>22, <2>5 DEF AdvanceHistory
      <3>2. batch[h] \subseteq Excluded
        BY <1>1, <2>5 DEF HandlerInv
      <3> QED
        BY <1>4, <1>5, <1>8, <1>10, <2>1, <2>3, <2>4, <2>5, <3>1, <3>2 DEF Listed
    <2>6. CASE pc[h] = "advance"
      <3>1. pc'[h] = "deliver" /\ UNCHANGED <<acked, localVars>> /\ Outstanding' = Outstanding
        BY <1>2, <1>22, <2>6 DEF AdvanceHistory, pubsubVars, Outstanding
      <3>2. Covers(h)'
        BY <1>1, <1>2, <2>1, <2>6, <3>1 DEF HandlerInv, Listed, Covers, Handled, localVars
      <3>3. \A i \in Messages : i <= mailbox /\ ~ Handled(i) => before[h].history < i
        BY <1>1, <2>2, <2>6 DEF EachIsListed, WillBeListed, Moved
      <3>4. HandlerInv(h)'
        BY <1>1, <1>2, <2>1, <2>2, <2>3, <2>6, <3>1, <3>2, <3>3 DEF HandlerInv, Moved, Listed, Handled, localVars
      <3> QED
        BY <1>4, <2>4, <3>1, <3>4 DEF Moved
    <2> QED
      BY <2>1, <2>5, <2>6
  <1>23. CASE HookAccepts(h) \/ HookFails(h)
    <2>1. /\ pc[h] = "deliver" /\ UNCHANGED <<file, mem, acked, localVars>> /\ Outstanding' = Outstanding
          /\ delivered \subseteq delivered'
          /\ pc'[h] \in {"recordOk", "recordFailed"}
          /\ (pc'[h] = "recordOk" => batch[h] \subseteq delivered')
      BY <1>2, <1>23 DEF HookAccepts, HookFails, HookReceives, storeVars, pubsubVars, Outstanding
    <2>2. \A i \in Messages : ~ Handled(i)' => ~ Handled(i)
      BY <2>1 DEF Handled
    <2>3. Covers(h)'
      BY <1>1, <1>2, <2>1, <2>2 DEF HandlerInv, Listed, Moved, Covers, localVars
    <2>4. HandlerInv(h)'
      BY <1>1, <1>2, <2>1, <2>2, <2>3 DEF HandlerInv, Listed, Moved, localVars
    <2> QED
      BY <1>1, <1>2, <1>4, <2>1, <2>4 DEF StoreInv, Moved
  <1>24. CASE RecordDelivery(h)
    <2>1. pc[h] \in {"recordOk", "recordFailed"} /\ mem' = file /\ file' = file /\ delivered' = delivered
      BY <1>1, <1>24 DEF RecordDelivery, Save, SaveFails
    <2>2. StoreInv'
      BY <1>1, <1>2, <2>1 DEF StoreInv
    <2>3. CASE pc[h] = "recordOk"
      <3>1. Ack(h)
        BY <1>24, <2>3 DEF RecordDelivery
      <3>2. batch[h] \subseteq delivered /\ file.history = next[h] /\ file.lastPush = push[h]
        BY <1>1, <2>3 DEF HandlerInv, Moved
      <3> QED
        BY <1>4, <1>5, <1>8, <1>10, <2>1, <2>2, <2>3, <3>1, <3>2 DEF Listed, Moved
    <2>4. CASE pc[h] = "recordFailed"
      <3>1. pc'[h] = "restore" /\ UNCHANGED <<acked, localVars>> /\ Outstanding' = Outstanding
        BY <1>2, <1>24, <2>4 DEF RecordDelivery, pubsubVars, Outstanding
      <3>2. Covers(h)'
        BY <1>1, <1>2, <2>1, <2>4, <3>1 DEF HandlerInv, Listed, Moved, Covers, Handled, localVars
      <3>3. HandlerInv(h)'
        BY <1>1, <1>2, <2>1, <2>4, <3>1, <3>2 DEF HandlerInv, Listed, Moved, Handled, localVars
      <3> QED
        BY <1>4, <2>2, <3>1, <3>3 DEF Moved
    <2> QED
      BY <2>1, <2>3, <2>4
  <1>25. CASE RestoreProgress(h)
    <2>1. pc[h] = "restore" /\ Nack(h) /\ mem' = file' /\ delivered' = delivered
          /\ file' = Restored(file, before[h], next[h], push[h])
      BY <1>1, <1>25 DEF RestoreProgress, Save, SaveFails
    <2>2. file'.history = before[h].history /\ file'.lastPush = before[h].lastPush
      BY <1>1, <1>3, <2>1 DEF Restored, HandlerInv, Moved, WatchStates
    <2>3. StoreInv'
      BY <1>1, <1>2, <2>1, <2>2 DEF StoreInv, HandlerInv
    <2>4. EachIsListed'
      <3> SUFFICES ASSUME NEW i \in Messages, i <= mailbox, ~ Handled(i)
                   PROVE  WillBeListed(i)'
        BY <1>2, <2>1 DEF EachIsListed, Handled
      <3>1. before[h].history < i /\ push[h] \in Outstanding /\ before[h].lastPush # push[h]
            /\ push[h].history >= before[h].history
        BY <1>1, <2>1 DEF HandlerInv, Moved, Listed
      <3> QED
        BY <1>9, <2>1, <2>2, <3>1 DEF WillBeListed
    <2> QED
      BY <1>4, <1>5, <1>9, <2>1, <2>3, <2>4
  <1> QED
    BY <1>11, <1>12, <1>13, <1>14, <1>15, <1>16, <1>17, <1>18, <1>19, <1>20, <1>21, <1>22, <1>23, <1>24, <1>25
    DEF HandlerActs, HandlerStep

(* PullInv is inductive.                                                   *)
LEMMA PullStep ==
  TypeOK /\ TypeOK' /\ PullInv /\ ReliablePull /\ [Next]_vars => PullInv'
  <1> SUFFICES ASSUME TypeOK, TypeOK', PullInv, ReliablePull, [Next]_vars
               PROVE  PullInv'
    OBVIOUS
  <1>1. CASE HistoryExpires \/ UNCHANGED vars
    <2>1. UNCHANGED <<mailbox, published, acked, file, mem, pc, push, before, start, next, batch, renewal, delivered>>
      BY <1>1 DEF HistoryExpires, vars, gmailVars, storeVars, localVars, pubsubVars
    <2>2. ASSUME NEW h \in Handlers
          PROVE  HandlerInv(h)'
      BY <2>1 DEF PullInv, HandlerInv, Covers, Outstanding, Handled
    <2> QED
      BY <2>1, <2>2 DEF PullInv, WillBeListed, Outstanding, Handled
  <1> QED
    BY <1>1, UndisturbedSteps, MailArrivesPulled, HandlerPulled DEF ReliablePull, PullInv

(* PullInv implies that every message is owed.                             *)
LEMMA PullOwes == TypeOK /\ PullInv => EveryMessageIsOwed
  <1> SUFFICES ASSUME TypeOK, PullInv, NEW i \in Messages, i <= mailbox, ~ Handled(i), ~ WillBeListed(i)
               PROVE  \E h \in Handlers : Held(h, i)
    BY DEF EveryMessageIsOwed
  <1>1. PICK h \in Handlers : pc[h] \in Moved
    BY DEF PullInv
  <1>2. /\ i \in batch[h] \/ (next[h] < i /\ [history |-> i, of |-> "mail"] \in Outstanding)
        /\ file.history = next[h] /\ file.lastPush = push[h]
        /\ push[h].history <= next[h] /\ next[h] \in Nat /\ push[h] \in Notifications
        /\ pc[h] = "recordOk" => batch[h] \subseteq delivered
    <2>1. HandlerInv(h) /\ pc[h] # "idle"
      BY <1>1 DEF PullInv, Moved
    <2>2. Covers(h) /\ push[h].history <= next[h] /\ file.history = next[h] /\ file.lastPush = push[h]
          /\ (pc[h] = "recordOk" => batch[h] \subseteq delivered)
      BY <1>1, <2>1 DEF HandlerInv, Listed
    <2>3. next[h] \in Nat /\ push[h] \in Notifications
      BY <2>1 DEF TypeOK, LocalTypes, WorldTypes
    <2> QED
      BY <2>2, <2>3 DEF Covers
  <1>3. CASE i \in batch[h]
    BY <1>1, <1>2, <1>3 DEF Held, Moved, Handled
  <1>4. CASE i \notin batch[h]
    <2> DEFINE mail == [history |-> i, of |-> "mail"]
    <2>1. next[h] < i /\ mail \in Outstanding /\ mail.history = i /\ i \in Nat /\ push[h].history \in Nat
      BY <1>2, <1>4 DEF Messages, Notifications
    <2> HIDE DEF mail
    <2>2. mail # push[h] /\ mail.history >= file.history
      BY <1>2, <2>1
    <2> QED
      BY <1>2, <2>1, <2>2 DEF WillBeListed
  <1> QED
    BY <1>3, <1>4

(* `watch pull` forgets no message, whatever fails, as long as the disk    *)
(* works, the consumer lives and no page is cut short.                     *)
THEOREM PullForgetsNothing == ReliablePull => (Spec => []EveryMessageIsOwed)
  <1> SUFFICES ASSUME ReliablePull
               PROVE  Spec => []EveryMessageIsOwed
    OBVIOUS
  <1>1. Init => PullInv
    BY DEF Init, NewWatch, PullInv, HandlerInv, Messages, Moved, Listed
  <1>2. TypeOK /\ TypeOK' /\ PullInv /\ [Next]_vars => PullInv'
    BY PullStep
  <1> QED
    BY <1>1, <1>2, PullOwes, TypeCorrect, PTL DEF Spec

-----------------------------------------------------------------------------
(* The cursor moves back only for a registration, a stop, or a handler     *)
(* that takes back its own advance (gmailwatch/state.go: RestoreProgress). *)
OwnRewind(h) ==
  /\ pc[h] = "restore"
  /\ file.history = next[h] /\ file.lastPush = push[h]
  /\ file'.history = before[h].history

LEMMA StepsForward ==
  ASSUME TypeOK, NEW h \in Handlers, HandlerStep(h)
  PROVE  OwnRewind(h) \/ ~ (file'.history < file.history)
  <1>1. file \in WatchStates /\ mem \in WatchStates /\ file.history \in Int /\ next[h] \in Int
    BY BoundsAssumption DEF TypeOK, StoreTypes, StateIsValid, LocalTypes, WatchStates
  <1>2. ASSUME NEW n \in Int, n >= file.history, file'.history = n
        PROVE  ~ (file'.history < file.history)
    BY <1>1, <1>2
  <1>3. CASE CheckDuplicate(h) \/ ListHistory(h) \/ Resync(h) \/ FetchMessages(h) \/ SourceFails(h)
             \/ HookAccepts(h) \/ HookFails(h) \/ RecordDelivery(h)
    <2>1. file' = file
      BY <1>3 DEF CheckDuplicate, ListHistory, Resync, FetchMessages, SourceFails, HookAccepts,
                  HookFails, RecordDelivery, Save, SaveFails, storeVars
    <2> QED
      BY <1>1, <1>2, <2>1
  <1>4. CASE RateLimitIsOpen(h) \/ RateLimitIsClosed(h) \/ MarkAuthRecovery(h) \/ OpenRateLimit(h)
    <2>1. /\ [file EXCEPT !.limited = TRUE].history = file.history
          /\ [file EXCEPT !.limited = FALSE].history = file.history
          /\ [file EXCEPT !.authPending = TRUE].history = file.history
      BY <1>1 DEF WatchStates
    <2>2. \/ file' = file
          \/ file' = [file EXCEPT !.limited = TRUE]
          \/ file' = [file EXCEPT !.limited = FALSE]
          \/ file' = [file EXCEPT !.authPending = TRUE]
      BY <1>4 DEF RateLimitIsOpen, RateLimitIsClosed, MarkAuthRecovery, OpenRateLimit,
                  Save, SaveFails, storeVars
    <2>3. file'.history = file.history
      BY ONLY <2>1, <2>2
    <2> QED
      BY ONLY <1>1, <2>3
  <1>5. CASE SelectStart(h)
    <2>1. push[h].history \in Int /\ push[h].history >= 0
      BY <1>5, BoundsAssumption DEF SelectStart, TypeOK, LocalTypes, WorldTypes, Notifications
    <2>2. file' = file \/ (file.history = 0 /\ file' = [file EXCEPT !.history = push[h].history])
      BY <1>5 DEF SelectStart, Save, SaveFails, storeVars
    <2>3. [file EXCEPT !.history = push[h].history].history = push[h].history
      BY <1>1 DEF WatchStates
    <2>4. file'.history = file.history \/ (file.history = 0 /\ file'.history = push[h].history)
      BY ONLY <2>2, <2>3
    <2> QED
      BY ONLY <1>1, <2>1, <2>4
  <1>6. CASE AdvanceHistory(h)
    <2>1. /\ Advanced(file, next[h], push[h]).history \in Int
          /\ Advanced(file, next[h], push[h]).history >= file.history
      BY <1>1 DEF Advanced, WatchStates
    <2>2. file' = file \/ file' = Advanced(file, next[h], push[h])
      BY <1>6 DEF AdvanceHistory, Save, SaveFails, storeVars
    <2> QED
      BY <1>1, <1>2, <2>1, <2>2
  <1>7. CASE RestoreProgress(h)
    <2>1. CASE file.history = next[h] /\ file.lastPush = push[h]
      <3>1. Restored(file, before[h], next[h], push[h]).history = before[h].history
        BY <1>1, <2>1 DEF Restored, WatchStates
      <3> QED
        BY <1>1, <1>7, <2>1, <3>1 DEF RestoreProgress, Save, SaveFails, storeVars, OwnRewind
    <2>2. CASE ~(file.history = next[h] /\ file.lastPush = push[h])
      BY <1>1, <1>7, <2>2 DEF RestoreProgress, Restored, Save, SaveFails, storeVars
    <2> QED
      BY <2>1, <2>2
  <1> QED
    BY <1>3, <1>4, <1>5, <1>6, <1>7 DEF HandlerStep

THEOREM RewindsAreOwn == Spec => RewindIsOwn
  <1>1. ASSUME TypeOK, [Next]_vars, file'.history < file.history
        PROVE  \/ renewal # 0 /\ file'.history = renewal
               \/ ~ exists'
               \/ \E h \in Handlers : OwnRewind(h)
    <2>1. file \in WatchStates /\ file.history \in Int
      BY <1>1, BoundsAssumption DEF TypeOK, StoreTypes, StateIsValid, WatchStates
    <2>2. CASE \E h \in Handlers : HandlerStep(h)
      BY <1>1, <2>1, <2>2, StepsForward
    <2>3. CASE \/ MailArrives \/ HistoryExpires \/ Restart \/ RegisterWatch \/ UNCHANGED vars
               \/ \E h \in Handlers, n \in Notifications : Receive(h, n)
      <3>1. UNCHANGED file
        BY <2>3 DEF MailArrives, HistoryExpires, Restart, RegisterWatch, Receive, storeVars, vars
      <3> QED
        BY <1>1, <2>1, <3>1
    <2>4. CASE ApplyRegistration
      <3>1. CASE file.authPending
        <4>1. Registered(file, renewal).history = file.history
          BY <2>1, <3>1 DEF Registered, WatchStates
        <4> QED
          BY <1>1, <2>1, <2>4, <4>1 DEF ApplyRegistration
      <3>2. CASE ~ file.authPending
        BY <2>4, <3>2 DEF ApplyRegistration, Registered, NewWatch
      <3> QED
        BY <3>1, <3>2
    <2>5. CASE Stop
      BY <2>5 DEF Stop
    <2> QED
      BY <1>1, <2>2, <2>3, <2>4, <2>5 DEF Next
  <1>2. ASSUME TypeOK, [Next]_vars
        PROVE  file'.history < file.history =>
                 \/ renewal # 0 /\ file'.history = renewal
                 \/ ~ exists'
                 \/ \E h \in Handlers : /\ pc[h] = "restore"
                                        /\ file.history = next[h] /\ file.lastPush = push[h]
                                        /\ file'.history = before[h].history
    BY <1>1, <1>2 DEF OwnRewind
  <1> QED
    BY <1>2, TypeCorrect, PTL DEF Spec, RewindIsOwn

=============================================================================

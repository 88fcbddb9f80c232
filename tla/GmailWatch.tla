------------------------------ MODULE GmailWatch ------------------------------
(***************************************************************************)
(* The Gmail watch consumer (internal/gmailwatch and                       *)
(* internal/cmd/gmail_watch_*.go): Gmail announces mailbox changes through *)
(* Pub/Sub, a handler turns a notification into one hook call, and a state *)
(* file remembers how far the mailbox history has been processed.          *)
(*                                                                         *)
(* History record i adds message i.  A notification is identified by what  *)
(* it announces (its Pub/Sub message id): mail that arrived, or a watch    *)
(* that was registered.  `watch pull` is one handler at a time, `watch     *)
(* serve` answers pushes concurrently.  Repository operations run under    *)
(* the file lock and are atomic; everything between two of them is not.    *)
(* Clock values are left out: a rate limit that is open may be found       *)
(* expired at any later check.                                             *)
(***************************************************************************)
EXTENDS Integers

CONSTANTS
  Handlers,       \* notifications processed at the same time
  MaxHistory,     \* bound on the mailbox history
  PageSize,       \* HistoryMax: records one history call returns
  ResyncSize,     \* ResyncMax: messages a resync lists
  Excluded,       \* messages whose labels are excluded
  HookMayFail,    \* may the hook answer with an error, or not at all?
  WritesMayFail,  \* may the state file fail to be written?
  MayCrash,       \* may the process die and be started again?
  Commands,       \* gog commands other processes run meanwhile
  None

ASSUME BoundsAssumption == MaxHistory \in Nat \ {0} /\ PageSize \in Nat /\ ResyncSize \in Nat
ASSUME FlagsAssumption == /\ HookMayFail \in BOOLEAN /\ WritesMayFail \in BOOLEAN
                          /\ MayCrash \in BOOLEAN /\ Commands \subseteq {"start", "renew", "stop"}

Messages == 2 .. MaxHistory      \* 1 is the history id the watch starts from
Notifications == [history : 1 .. MaxHistory, of : {"mail", "watch"}]

ASSUME NotificationAssumption == None \notin Notifications

Labels == {"idle", "check", "circuit", "select", "list", "resync", "fetch", "skip",
           "advance", "deliver", "recordOk", "recordFailed", "restore", "auth", "limit"}

VARIABLES
  mailbox,    \* Gmail: the current history id
  forgotten,  \* Gmail: records below this id can no longer be listed
  published,  \* Pub/Sub: notifications sent
  acked,      \* Pub/Sub: notifications acknowledged
  file,       \* the state file
  exists,     \* is there a state file?
  mem,        \* Repository.state of the consuming process
  pc,         \* per handler: where it waits,
  push,       \*   its notification,
  before,     \*   progressBefore,
  start,      \*   startID,
  next,       \*   nextHistoryID,
  batch,      \*   the messages it fetched
  renewal,    \* history id in Gmail's answer to a registration, 0 when none is under way
  delivered   \* history: messages the hook has received

gmailVars   == <<mailbox, forgotten>>
pubsubVars  == <<published, acked>>
storeVars   == <<file, exists, mem>>
localVars   == <<push, before, start, next, batch>>
vars == <<gmailVars, pubsubVars, storeVars, pc, localVars, renewal, delivered>>

(* History id 0 stands for the empty string, as in FormatHistoryID.        *)
WatchStates == [topic : BOOLEAN, history : 0 .. MaxHistory,
                lastPush : Notifications \cup {None}, authPending : BOOLEAN, limited : BOOLEAN]
Blank == [topic |-> FALSE, history |-> 0, lastPush |-> None,
          authPending |-> FALSE, limited |-> FALSE]

(* buildWatchState.                                                        *)
NewWatch(id) == [topic |-> TRUE, history |-> id, lastPush |-> None,
                 authPending |-> FALSE, limited |-> FALSE]

StateIsValid(state) == state \in WatchStates /\ state.history <= mailbox

WorldTypes ==
  /\ mailbox \in 1 .. MaxHistory /\ forgotten \in 0 .. mailbox
  /\ published \subseteq Notifications /\ acked \subseteq published
  /\ \A n \in published : n.history <= mailbox
  /\ renewal \in 0 .. mailbox
  /\ delivered \subseteq Messages

StoreTypes == StateIsValid(file) /\ StateIsValid(mem) /\ exists \in BOOLEAN

LocalTypes ==
  /\ pc \in [Handlers -> Labels]
  /\ push \in [Handlers -> Notifications \cup {None}]
  /\ before \in [Handlers -> WatchStates]
  /\ start \in [Handlers -> 0 .. MaxHistory]
  /\ next \in [Handlers -> 0 .. MaxHistory]
  /\ batch \in [Handlers -> SUBSET Messages]
  /\ \A h \in Handlers : /\ before[h].history <= mailbox
                         /\ next[h] <= mailbox
                         /\ pc[h] # "idle" => push[h] \in published

TypeOK == WorldTypes /\ StoreTypes /\ LocalTypes

(* `watch start` has registered the watch and the consumer has loaded it.  *)
Init ==
  /\ mailbox = 1 /\ forgotten = 0
  /\ published = {} /\ acked = {}
  /\ file = NewWatch(1)
  /\ exists = TRUE
  /\ mem = file
  /\ pc = [h \in Handlers |-> "idle"]
  /\ push = [h \in Handlers |-> None]
  /\ before = [h \in Handlers |-> Blank]
  /\ start = [h \in Handlers |-> 0]
  /\ next = [h \in Handlers |-> 0]
  /\ batch = [h \in Handlers |-> {}]
  /\ renewal = 0
  /\ delivered = {}

-----------------------------------------------------------------------------
(* Gmail and Pub/Sub                                                       *)

MailArrives ==
  /\ mailbox < MaxHistory
  /\ mailbox' = mailbox + 1
  /\ published' = published \cup {[history |-> mailbox + 1, of |-> "mail"]}
  /\ UNCHANGED <<forgotten, acked, storeVars, pc, localVars, renewal, delivered>>

(* Gmail keeps history records for a limited time.                         *)
HistoryExpires ==
  /\ forgotten < mailbox
  /\ forgotten' = mailbox
  /\ UNCHANGED <<mailbox, pubsubVars, storeVars, pc, localVars, renewal, delivered>>

-----------------------------------------------------------------------------
(* Repository                                                              *)

(* Update: read, change and write the file under its lock.                 *)
Save(state) == file' = state /\ mem' = state /\ exists' = TRUE

(* A failed write leaves the file and the cached state alone.              *)
SaveFails == WritesMayFail /\ UNCHANGED storeVars

(* Fault: the cursor runs one record ahead.                                *)
AdvancedPast(state, id, notification) ==
  [state EXCEPT !.history = IF id >= @ THEN id + 1 ELSE @,
                !.lastPush = notification, !.authPending = FALSE]

(* AdvanceHistory: the cursor never moves back here.                       *)
Advanced(state, id, notification) ==
  [state EXCEPT !.history = IF id >= @ THEN id ELSE @,
                !.lastPush = notification, !.authPending = FALSE]

(* Fault: the cursor is rewound whoever moved it last.                      *)
RestoredAnyway(state, progress, id, notification) ==
  [state EXCEPT !.history = progress.history, !.lastPush = progress.lastPush]

(* Fault: only the duplicate marker is restored.                            *)
RestoredMarker(state, progress, id, notification) ==
  [state EXCEPT !.lastPush = progress.lastPush]

(* RestoreProgress: only what this handler wrote last is taken back.       *)
Restored(state, progress, id, notification) ==
  IF state.history = id /\ state.lastPush = notification
  THEN [state EXCEPT !.history = progress.history, !.lastPush = progress.lastPush]
  ELSE state

(* ApplyWatchRegistration: the new watch, but while re-authentication is   *)
(* pending with the old cursor; otherwise the cursor jumps to its id.      *)
Registered(state, id) ==
  IF state.authPending
  THEN [NewWatch(id) EXCEPT !.history = state.history, !.lastPush = state.lastPush,
                            !.authPending = TRUE]
  ELSE NewWatch(id)

-----------------------------------------------------------------------------
(* The handler's outcome                                                   *)

Goto(h, label) == pc' = [pc EXCEPT ![h] = label]

Finish(h) ==
  /\ Goto(h, "idle")
  /\ push' = [push EXCEPT ![h] = None]
  /\ before' = [before EXCEPT ![h] = Blank]
  /\ start' = [start EXCEPT ![h] = 0]
  /\ next' = [next EXCEPT ![h] = 0]
  /\ batch' = [batch EXCEPT ![h] = {}]

(* 2xx to a push, Ack to a pull.                                           *)
Ack(h) ==
  /\ acked' = acked \cup {push[h]}
  /\ Finish(h)
  /\ UNCHANGED published

(* An error status or Nack: Pub/Sub delivers the notification again.       *)
Nack(h) == Finish(h) /\ UNCHANGED pubsubVars

-----------------------------------------------------------------------------
(* Process                                                                 *)

(* Pub/Sub delivers at least once: a notification whose acknowledgement    *)
(* was lost comes back and is outstanding again.                           *)
Receive(h, n) ==
  /\ pc[h] = "idle"
  /\ n \in published
  /\ Goto(h, "check")
  /\ push' = [push EXCEPT ![h] = n]
  /\ before' = [before EXCEPT ![h] = mem]
  /\ acked' = acked \ {n}
  /\ UNCHANGED <<gmailVars, published, storeVars, start, next, batch, renewal, delivered>>

CheckDuplicate(h) ==
  /\ pc[h] = "check"
  /\ \/ mem.lastPush = push[h] /\ Ack(h)
     \/ mem.lastPush # push[h] /\ Goto(h, "circuit") /\ UNCHANGED <<pubsubVars, localVars>>
  /\ UNCHANGED <<gmailVars, storeVars, renewal, delivered>>

(* CheckRateLimit: open, or closed and possibly reopened by now.           *)
RateLimitIsOpen(h) ==
  /\ pc[h] = "circuit"
  /\ mem.limited
  /\ \/ UNCHANGED storeVars
     \/ file.limited /\ Save(file)
     \/ SaveFails
  /\ Nack(h)
  /\ UNCHANGED <<gmailVars, renewal, delivered>>

RateLimitIsClosed(h) ==
  /\ pc[h] = "circuit"
  /\ \/ ~ mem.limited /\ UNCHANGED storeVars
     \/ mem.limited /\ Save([file EXCEPT !.limited = FALSE])
  /\ Goto(h, "select")
  /\ UNCHANGED <<gmailVars, pubsubVars, localVars, renewal, delivered>>

(* Fault: the history is listed from the notification on.                   *)
StartAtPush(h) == push[h].history

(* The cursor; a consumer without one begins at the notification.          *)
StartID(h) == IF file.history = 0 THEN push[h].history ELSE file.history

(* StartHistoryID: a notification below the cursor is stale.               *)
SelectStart(h) ==
  /\ pc[h] = "select"
  /\ \/ /\ file.history = 0
        /\ Save([file EXCEPT !.history = push[h].history])
        /\ start' = [start EXCEPT ![h] = StartID(h)]
        /\ Goto(h, "list")
        /\ UNCHANGED <<pubsubVars, push, before, next, batch>>
     \/ file.history = 0 /\ SaveFails /\ Nack(h)
     \/ /\ file.history # 0 /\ push[h].history >= file.history
        /\ start' = [start EXCEPT ![h] = StartID(h)]
        /\ mem' = file
        /\ Goto(h, "list")
        /\ UNCHANGED <<pubsubVars, file, exists, push, before, next, batch>>
     \/ /\ file.history # 0 /\ push[h].history < file.history
        /\ mem' = file
        /\ Ack(h)
        /\ UNCHANGED <<file, exists>>
  /\ UNCHANGED <<gmailVars, renewal, delivered>>

(* One page of the records after start; the page's history id is the       *)
(* mailbox's, however many records there are.                              *)
ListHistory(h) ==
  /\ pc[h] = "list"
  /\ \/ start[h] < forgotten /\ Goto(h, "resync") /\ UNCHANGED <<next, batch>>
     \/ /\ start[h] >= forgotten
        /\ next' = [next EXCEPT ![h] = mailbox]
        /\ batch' = [batch EXCEPT ![h] =
                       {i \in Messages : start[h] < i /\ i <= mailbox /\ i <= start[h] + PageSize}]
        /\ Goto(h, IF batch'[h] = {} THEN "skip" ELSE "fetch")
  /\ UNCHANGED <<gmailVars, pubsubVars, storeVars, push, before, start, renewal, delivered>>

(* The cursor is too old: the most recent messages instead.                *)
Resync(h) ==
  /\ pc[h] = "resync"
  /\ next' = [next EXCEPT ![h] = push[h].history]
  /\ batch' = [batch EXCEPT ![h] = {i \in Messages : mailbox - ResyncSize < i /\ i <= mailbox}]
  /\ Goto(h, "fetch")
  /\ UNCHANGED <<gmailVars, pubsubVars, storeVars, push, before, start, renewal, delivered>>

FetchMessages(h) ==
  /\ pc[h] = "fetch"
  /\ batch' = [batch EXCEPT ![h] = @ \ Excluded]
  /\ Goto(h, IF batch[h] # {} /\ batch[h] \subseteq Excluded THEN "skip" ELSE "advance")
  /\ UNCHANGED <<gmailVars, pubsubVars, storeVars, push, before, start, next, renewal, delivered>>

(* classifySourceError: an error of one of the calls to Gmail.             *)
SourceFails(h) ==
  /\ pc[h] \in {"list", "resync", "fetch"}
  /\ \/ Goto(h, "auth") /\ UNCHANGED localVars
     \/ Goto(h, "limit") /\ UNCHANGED localVars
     \/ Finish(h)
  /\ UNCHANGED <<gmailVars, pubsubVars, storeVars, renewal, delivered>>

(* MarkAuthRecoveryPending: terminal, acknowledged once it is on disk.     *)
MarkAuthRecovery(h) ==
  /\ pc[h] = "auth"
  /\ \/ Save([file EXCEPT !.authPending = TRUE]) /\ Ack(h)
     \/ SaveFails /\ Nack(h)
  /\ UNCHANGED <<gmailVars, renewal, delivered>>

OpenRateLimit(h) ==
  /\ pc[h] = "limit"
  /\ Save([file EXCEPT !.limited = TRUE]) \/ SaveFails
  /\ Nack(h)
  /\ UNCHANGED <<gmailVars, renewal, delivered>>

(* The cursor moves before the hook is called.  A failed write is logged.  *)
AdvanceHistory(h) ==
  /\ pc[h] \in {"advance", "skip"}
  /\ Save(Advanced(file, next[h], push[h])) \/ SaveFails
  /\ \/ pc[h] = "advance" /\ Goto(h, "deliver") /\ UNCHANGED <<pubsubVars, localVars>>
     \/ pc[h] = "skip" /\ Ack(h)
  /\ UNCHANGED <<gmailVars, renewal, delivered>>

HookReceives(h) == delivered' = delivered \cup batch[h]

HookAccepts(h) ==
  /\ pc[h] = "deliver"
  /\ HookReceives(h)
  /\ Goto(h, "recordOk")
  /\ UNCHANGED <<gmailVars, pubsubVars, storeVars, localVars, renewal>>

(* The hook refuses, or accepts and its answer is lost.                    *)
HookFails(h) ==
  /\ HookMayFail
  /\ pc[h] = "deliver"
  /\ HookReceives(h) \/ UNCHANGED delivered
  /\ Goto(h, "recordFailed")
  /\ UNCHANGED <<gmailVars, pubsubVars, storeVars, localVars, renewal>>

RecordDelivery(h) ==
  /\ pc[h] \in {"recordOk", "recordFailed"}
  /\ Save(file) \/ SaveFails
  /\ \/ pc[h] = "recordOk" /\ Ack(h)
     \/ pc[h] = "recordFailed" /\ Goto(h, "restore") /\ UNCHANGED <<pubsubVars, localVars>>
  /\ UNCHANGED <<gmailVars, renewal, delivered>>

RestoreProgress(h) ==
  /\ pc[h] = "restore"
  /\ Save(Restored(file, before[h], next[h], push[h])) \/ SaveFails
  /\ Nack(h)
  /\ UNCHANGED <<gmailVars, renewal, delivered>>

-----------------------------------------------------------------------------
(* The process and the commands of other processes                         *)

(* The process dies and is started again: it loads the file.               *)
Restart ==
  /\ MayCrash /\ exists
  /\ pc' = [h \in Handlers |-> "idle"]
  /\ push' = [h \in Handlers |-> None]
  /\ before' = [h \in Handlers |-> Blank]
  /\ start' = [h \in Handlers |-> 0]
  /\ next' = [h \in Handlers |-> 0]
  /\ batch' = [h \in Handlers |-> {}]
  /\ mem' = file
  /\ UNCHANGED <<gmailVars, pubsubVars, file, exists, renewal, delivered>>

(* `watch start` and `watch renew`: Gmail registers a watch, answers with  *)
(* the current history id and sends a notification for the new watch,      *)
RegisterWatch ==
  /\ renewal = 0
  /\ "start" \in Commands \/ ("renew" \in Commands /\ exists /\ file.topic)
  /\ renewal' = mailbox
  /\ published' = published \cup {[history |-> mailbox, of |-> "watch"]}
  /\ UNCHANGED <<gmailVars, acked, storeVars, pc, localVars, delivered>>

(* and the registration is written; the consumer's cache is another        *)
(* process's memory.                                                       *)
ApplyRegistration ==
  /\ renewal # 0
  /\ file' = Registered(file, renewal)
  /\ exists' = TRUE
  /\ renewal' = 0
  /\ UNCHANGED <<gmailVars, pubsubVars, mem, pc, localVars, delivered>>

(* `watch stop` removes the file.                                          *)
Stop ==
  /\ "stop" \in Commands /\ exists
  /\ file' = Blank /\ exists' = FALSE
  /\ UNCHANGED <<gmailVars, pubsubVars, mem, pc, localVars, renewal, delivered>>

HandlerStep(h) ==
  \/ CheckDuplicate(h) \/ RateLimitIsOpen(h) \/ RateLimitIsClosed(h) \/ SelectStart(h)
  \/ ListHistory(h) \/ Resync(h) \/ FetchMessages(h) \/ SourceFails(h)
  \/ MarkAuthRecovery(h) \/ OpenRateLimit(h) \/ AdvanceHistory(h)
  \/ HookAccepts(h) \/ HookFails(h) \/ RecordDelivery(h) \/ RestoreProgress(h)

Next ==
  \/ MailArrives \/ HistoryExpires
  \/ \E h \in Handlers : HandlerStep(h) \/ \E n \in Notifications : Receive(h, n)
  \/ Restart \/ RegisterWatch \/ ApplyRegistration \/ Stop

Spec == Init /\ [][Next]_vars

-----------------------------------------------------------------------------
(* Operating conditions                                                    *)

(* What a page and a resync bring back reaches to the end of the mailbox.  *)
NoBacklog == PageSize >= MaxHistory /\ ResyncSize >= MaxHistory

(* The consumer is left alone: it is not killed and nobody registers or    *)
(* stops the watch.                                                        *)
Undisturbed == ~ MayCrash /\ Commands = {}

(* `watch pull` on a disk that works.                                      *)
ReliablePull ==
  /\ \A g, h \in Handlers : g = h
  /\ ~ WritesMayFail /\ Undisturbed /\ NoBacklog

(* `watch serve` with a hook that always accepts.                          *)
ReliableHook == ~ HookMayFail /\ Undisturbed /\ NoBacklog

-----------------------------------------------------------------------------
(* Safety                                                                  *)

Handled(i) == i \in delivered \cup Excluded

(* A handler has moved the cursor and still owes the hook this message.    *)
Held(h, i) == pc[h] \in {"deliver", "recordFailed", "restore"} /\ i \in batch[h]

Outstanding == published \ acked

(* Pub/Sub will make the consumer look at the history after the cursor,    *)
(* or it waits for the user to authorise again.                            *)
WillBeListed(i) ==
  /\ file.history < i
  /\ \/ file.authPending
     \/ \E n \in Outstanding : n # file.lastPush /\ n.history >= file.history

(* No message is ever forgotten: until the hook has it, a handler holds it *)
(* or it lies after the cursor with an outstanding notification or a       *)
(* recovery marker to bring the consumer back to it.                       *)
EveryMessageIsOwed ==
  \A i \in Messages : i <= mailbox =>
    Handled(i) \/ WillBeListed(i) \/ \E h \in Handlers : Held(h, i)

(* The inductive invariant of `watch pull`.                                *)
Moved == {"deliver", "recordOk", "recordFailed", "restore"}
Listed == {"fetch", "skip", "advance"} \cup Moved

(* Everything a handler's listing did not bring has a notification of its  *)
(* own that is still outstanding.                                          *)
Covers(h) ==
  \A i \in Messages : i <= mailbox /\ ~ Handled(i) =>
    i \in batch[h] \/ (next[h] < i /\ [history |-> i, of |-> "mail"] \in Outstanding)

HandlerInv(h) ==
  /\ pc[h] # "idle" =>
       /\ push[h] \in Outstanding
       /\ before[h].history > 0 /\ before[h].lastPush \in published \cup {None}
  /\ pc[h] \notin Moved \cup {"idle"} =>
       before[h].history = file.history /\ before[h].lastPush = file.lastPush
  /\ pc[h] \notin {"idle", "check"} => before[h].lastPush # push[h]
  /\ pc[h] \in {"list", "resync"} \cup Listed => push[h].history >= before[h].history
  /\ pc[h] = "list" => start[h] = before[h].history
  /\ pc[h] \in Listed => push[h].history <= next[h] /\ next[h] <= mailbox /\ Covers(h)
  /\ pc[h] = "skip" => batch[h] \subseteq Excluded
  /\ pc[h] = "recordOk" => batch[h] \subseteq delivered
  /\ pc[h] \in Moved =>
       /\ file.history = next[h] /\ file.lastPush = push[h]
       /\ \A i \in Messages : i <= mailbox /\ ~ Handled(i) => before[h].history < i

PullInv ==
  /\ mem = file /\ file.history > 0 /\ renewal = 0
  /\ file.lastPush \in published \cup {None}
  /\ \A h \in Handlers : HandlerInv(h)
  /\ \/ \E h \in Handlers : pc[h] \in Moved
     \/ \A i \in Messages : i <= mailbox /\ ~ Handled(i) => WillBeListed(i)

(* The cursor passes only over messages that the hook has received or that *)
(* a handler is about to give it, in whatever order concurrent pushes end. *)
NothingIsSkipped ==
  \A i \in Messages : i <= file.history =>
    Handled(i) \/ \E h \in Handlers : Held(h, i)

(* The inductive invariant of `watch serve` with a reliable hook.          *)
HandledOrHeld(i) == Handled(i) \/ \E h \in Handlers : Held(h, i)

ServeInv ==
  /\ NothingIsSkipped
  /\ file.history > 0 /\ renewal = 0
  /\ \A h \in Handlers :
       /\ pc[h] \notin {"recordFailed", "restore"}
       /\ pc[h] = "list" => \A i \in Messages : i <= start[h] => HandledOrHeld(i)
       /\ pc[h] \in {"fetch", "skip", "advance"} =>
            \A i \in Messages : i <= next[h] => HandledOrHeld(i) \/ i \in batch[h]
       /\ pc[h] = "skip" => batch[h] \subseteq Excluded

(* The cursor moves back only when a watch is registered or stopped, or    *)
(* when a handler whose hook failed takes back its own advance and         *)
(* nobody's after it.                                                      *)
RewindIsOwn ==
  [][file'.history < file.history =>
       \/ renewal # 0 /\ file'.history = renewal
       \/ ~ exists'
       \/ \E h \in Handlers : /\ pc[h] = "restore"
                              /\ file.history = next[h] /\ file.lastPush = push[h]
                              /\ file'.history = before[h].history]_vars

(* Fairness.  The process keeps running its handlers; Pub/Sub delivers     *)
(* what is outstanding; Gmail, the hook and the disk answer again and      *)
(* again, though any attempt may fail.                                     *)
Announcement(i) == [history |-> i, of |-> "mail"]

Redeliver(h, i) == Announcement(i) \notin acked /\ Receive(h, Announcement(i))

Fairness ==
  \A h \in Handlers :
    /\ WF_vars(HandlerStep(h))
    /\ SF_vars(RateLimitIsClosed(h)) /\ SF_vars(ListHistory(h)) /\ SF_vars(Resync(h))
    /\ SF_vars(FetchMessages(h)) /\ SF_vars(HookAccepts(h))
    /\ \A i \in Messages : SF_vars(Redeliver(h, i))

FairSpec == Spec /\ Fairness

(* Every message reaches the hook, or the user is asked to authorise again. *)
MailIsHandled ==
  \A i \in Messages : i <= mailbox ~> Handled(i) \/ file.authPending

=============================================================================

--------------------------- MODULE Notifications ---------------------------
(***************************************************************************)
(* The notifications of one user (notification-service): the fan-out queue *)
(* and its processor, send() with its detached delivery, the inbox and the *)
(* preferences.  The queue is Bull's: a job is known by its id, retried    *)
(* when its processor throws, and given to another worker, once, when the  *)
(* worker that held it is gone.  Slots are workers and HTTP requests.      *)
(***************************************************************************)
EXTENDS Service

CONSTANTS
  Keys,          \* the events users are notified of: NotificationFanoutJob.key
  PushTokens,    \* the FCM tokens of the user's devices
  MaxTries,      \* attempts of the queue's defaultJobOptions
  MaxStalls,     \* Bull's maxStalledCount
  MaxRequests    \* bound: how often a key is enqueued or sent directly

ASSUME NotificationsAssumption ==
  /\ IsFiniteSet(Keys) /\ IsFiniteSet(PushTokens)
  /\ MaxTries \in Nat \ {0} /\ MaxStalls \in Nat /\ MaxRequests \in Nat

VARIABLES
  queue,       \* the queue's jobs in Redis
  inbox,       \* collection notifications
  prefs,       \* collection notificationpreferences: the user's document
  dead,        \* the tokens FCM no longer knows
  delivering   \* deliver() calls nobody waits for, in memory

notificationVars == <<job, queue, inbox, prefs, dead, delivering>>

\* `made` and `stalls` are Bull's counters of the job, `asked` how often the key
\* was added to the queue and `direct` how often it was sent without it.
QueueJob == [state : {"absent", "waiting", "active", "completed", "failed"},
             made : 0..MaxTries, stalls : 0..MaxStalls,
             asked : 0..MaxRequests, direct : 0..MaxRequests]
NoJob == [state |-> "absent", made |-> 0, stalls |-> 0, asked |-> 0, direct |-> 0]

\* The documents of a key: ever created, still there, and unread among those.
Inbox == [created : Nat, kept : Nat, unread : Nat]

Preferences == [exists : BOOLEAN, tokens : SUBSET PushTokens]

NotificationJob ==
  [step : {"preferences", "default"}, key : Keys, queued : BOOLEAN]
    \cup [step : {"create"}, key : Keys, queued : BOOLEAN, tokens : SUBSET PushTokens]
    \cup [step : {"finish", "throw"}, key : Keys]

NotificationsInit ==
  /\ AllIdle
  /\ queue = [k \in Keys |-> NoJob]
  /\ inbox = [k \in Keys |-> [created |-> 0, kept |-> 0, unread |-> 0]]
  /\ prefs = [exists |-> FALSE, tokens |-> {}]
  /\ dead = {} /\ delivering = {}

-----------------------------------------------------------------------------
(* The queue.                                                              *)

Working(k) == \E s \in Slots : ~IsIdle(s) /\ job[s].key = k

\* enqueue() and enqueueBulk(): a job whose id is known is not added again.
Enqueue(k) ==
  /\ queue[k].state = "absent" /\ queue[k].asked < MaxRequests
  /\ queue' = [queue EXCEPT ![k].state = "waiting", ![k].made = 0, ![k].stalls = 0,
                            ![k].asked = @ + 1]
  /\ UNCHANGED <<job, inbox, prefs, dead, delivering>>

\* removeOnComplete and removeOnFail: after hours the id is free again.
ForgetJob(k) ==
  /\ queue[k].state \in {"completed", "failed"}
  /\ queue' = [queue EXCEPT ![k].state = "absent"]
  /\ UNCHANGED <<job, inbox, prefs, dead, delivering>>

\* A worker takes a job: run() calls send().
TakeJob(s, k) ==
  /\ IsIdle(s)
  /\ queue[k].state = "waiting"
  /\ queue' = [queue EXCEPT ![k].state = "active"]
  /\ Goto(s, [step |-> "preferences", key |-> k, queued |-> TRUE])
  /\ UNCHANGED <<inbox, prefs, dead, delivering>>

\* run() returned.
FinishJob(s) ==
  /\ At(s, "finish")
  /\ queue' = [queue EXCEPT ![job[s].key].state = "completed"]
  /\ Return(s)
  /\ UNCHANGED <<inbox, prefs, dead, delivering>>

\* Mutant: a job that threw is taken for done.
ThrowDone(s) ==
  /\ At(s, "throw")
  /\ queue' = [queue EXCEPT ![job[s].key].state = "completed"]
  /\ Return(s)
  /\ UNCHANGED <<inbox, prefs, dead, delivering>>

\* run() threw: again after the backoff, unless it was the last attempt.
ThrowJob(s) ==
  /\ At(s, "throw")
  /\ LET k == job[s].key
     IN queue' = [queue EXCEPT ![k].made = @ + 1,
                    ![k].state = IF queue[k].made + 1 < MaxTries THEN "waiting" ELSE "failed"]
  /\ Return(s)
  /\ UNCHANGED <<inbox, prefs, dead, delivering>>

\* A worker has let the lock of its job expire: it died.
Stalled(k) ==
  /\ queue[k].state = "active" /\ ~Working(k)
  /\ queue' = [queue EXCEPT
       ![k].state = IF queue[k].stalls < MaxStalls THEN "waiting" ELSE "failed",
       ![k].stalls = IF @ < MaxStalls THEN @ + 1 ELSE @]
  /\ UNCHANGED <<job, inbox, prefs, dead, delivering>>

-----------------------------------------------------------------------------
(* send() and broadcast().                                                 *)

\* POST /notifications of an event that is not queued.
SendDirectly(s, k) ==
  /\ IsIdle(s)
  /\ queue[k].direct < MaxRequests /\ queue[k].asked = 0
  /\ queue' = [queue EXCEPT ![k].direct = @ + 1]
  /\ Goto(s, [step |-> "preferences", key |-> k, queued |-> FALSE])
  /\ UNCHANGED <<inbox, prefs, dead, delivering>>

\* A send() that throws: the queue retries its job, an HTTP request is lost.
Fail(s) == IF job[s].queued THEN Goto(s, [step |-> "throw", key |-> job[s].key]) ELSE Return(s)

\* getOrCreatePreferences(); what they forbid is only logged.
FindPreferences(s) ==
  /\ At(s, "preferences")
  /\ Goto(s, IF prefs.exists
             THEN [step |-> "create", key |-> job[s].key, queued |-> job[s].queued,
                   tokens |-> prefs.tokens]
             ELSE [job[s] EXCEPT !.step = "default"])
  /\ UNCHANGED <<queue, inbox, prefs, dead, delivering>>

\* Two first notifications of a user: the unique index refuses the second.
CreatePreferences(s) ==
  /\ At(s, "default")
  /\ IF prefs.exists THEN Fail(s)
     ELSE Goto(s, [step |-> "create", key |-> job[s].key, queued |-> job[s].queued,
                   tokens |-> {}])
  /\ prefs' = [prefs EXCEPT !.exists = TRUE]
  /\ UNCHANGED <<queue, inbox, dead, delivering>>

Stored(k) ==
  inbox' = [inbox EXCEPT ![k].created = @ + 1, ![k].kept = @ + 1, ![k].unread = @ + 1]

\* The document is created and deliver() started; send() returns.
CreateNotification(s) ==
  /\ At(s, "create")
  /\ Stored(job[s].key)
  /\ delivering' = delivering \cup {[key |-> job[s].key, tokens |-> job[s].tokens]}
  /\ IF job[s].queued THEN Goto(s, [step |-> "finish", key |-> job[s].key]) ELSE Return(s)
  /\ UNCHANGED <<queue, prefs, dead>>

\* A query of send() fails; an insert may have been executed all the same.
SendFails(s) ==
  /\ job[s].step \in {"preferences", "default", "create"}
  /\ Fail(s)
  /\ \/ UNCHANGED inbox
     \/ At(s, "create") /\ Stored(job[s].key)
  /\ UNCHANGED <<queue, prefs, dead, delivering>>

\* broadcast(): insertMany() and no delivery.
Broadcast(k) ==
  /\ queue[k].direct < MaxRequests /\ queue[k].asked = 0
  /\ queue' = [queue EXCEPT ![k].direct = @ + 1]
  /\ Stored(k)
  /\ UNCHANGED <<job, prefs, dead, delivering>>

\* deliver(): FCM takes the message; tokens it no longer knows are pulled.
Deliver(d) ==
  /\ delivering' = delivering \ {d}
  /\ prefs' = [prefs EXCEPT !.tokens = @ \ (d.tokens \cap dead)]
  /\ UNCHANGED <<job, queue, inbox, dead>>

-----------------------------------------------------------------------------
(* The user.                                                               *)

\* markRead() and markAllRead().
MarkNotifications(K) ==
  /\ \E k \in K : inbox[k].unread > 0
  /\ inbox' = [k \in Keys |-> IF k \in K THEN [inbox[k] EXCEPT !.unread = 0] ELSE inbox[k]]
  /\ UNCHANGED <<job, queue, prefs, dead, delivering>>

\* delete() of a document, read or not.
DeleteNotification(k) ==
  /\ inbox[k].kept > 0
  /\ inbox' \in {[inbox EXCEPT ![k].kept = @ - 1, ![k].unread = n] :
                   n \in {inbox[k].unread, inbox[k].unread - 1} \cap 0..(inbox[k].kept - 1)}
  /\ UNCHANGED <<job, queue, prefs, dead, delivering>>

\* addFcmToken() and removeFcmToken(); the document is created if need be.
SetPushToken(t, on) ==
  /\ prefs' = IF on THEN [exists |-> TRUE, tokens |-> prefs.tokens \cup {t}]
              ELSE [prefs EXCEPT !.tokens = @ \ {t}]
  /\ UNCHANGED <<job, queue, inbox, dead, delivering>>

\* The app is uninstalled.
LoseToken(t) ==
  /\ dead' = dead \cup {t}
  /\ UNCHANGED <<job, queue, inbox, prefs, delivering>>

\* The service's process dies: workers, requests and deliveries are lost.
CrashNotifications ==
  /\ job' = [s \in Slots |-> Idle]
  /\ delivering' = {}
  /\ UNCHANGED <<queue, inbox, prefs, dead>>

\* The queue and its processor.
QueueStep ==
  \/ \E k \in Keys :
       Enqueue(k) \/ ForgetJob(k) \/ Stalled(k) \/ \E s \in Slots : TakeJob(s, k)
  \/ \E s \in Slots : FinishJob(s) \/ ThrowJob(s)

\* send(), wherever it was called.
SendStep(s) ==
  FindPreferences(s) \/ CreatePreferences(s) \/ CreateNotification(s) \/ SendFails(s)

\* What each controller serves.
NotificationRequests ==
  \/ MarkNotifications(Keys)
  \/ \E k \in Keys :
       \/ Broadcast(k) \/ MarkNotifications({k}) \/ DeleteNotification(k)
       \/ \E s \in Slots : SendDirectly(s, k)

PreferenceRequests == \E t \in PushTokens, on \in BOOLEAN : SetPushToken(t, on)

NotificationsNext ==
  \/ QueueStep \/ NotificationRequests \/ PreferenceRequests \/ CrashNotifications
  \/ \E s \in Slots : SendStep(s)
  \/ \E d \in delivering : Deliver(d)
  \/ \E t \in PushTokens : LoseToken(t)

NotificationsSpec == NotificationsInit /\ [][NotificationsNext]_notificationVars

-----------------------------------------------------------------------------
(* Properties.                                                             *)

\* The collections, the queue and the locals of the workers have their types.
NotificationsTypeOK ==
  /\ queue \in [Keys -> QueueJob]
  /\ inbox \in [Keys -> Inbox]
  /\ prefs \in Preferences
  /\ dead \subseteq PushTokens
  /\ delivering \subseteq [key : Keys, tokens : SUBSET PushTokens]
  /\ job \in [Slots -> NotificationJob \cup {Idle}]

\* A queued notification is stored at least once before its job is done, and
\* although send() is not idempotent a crash or an unanswered insert copies it
\* no more often than the queue runs the job.
CopiesBounded ==
  \A k \in Keys :
    /\ queue[k].state = "completed" => inbox[k].created >= 1
    /\ inbox[k].created <= queue[k].asked * (MaxTries + MaxStalls) + queue[k].direct
    /\ inbox[k].unread <= inbox[k].kept
=============================================================================

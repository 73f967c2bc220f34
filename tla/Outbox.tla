------------------------------- MODULE Outbox -------------------------------
(***************************************************************************)
(* The outbox of agentd, push_outbox_once and record_completion of         *)
(* remote_link.rs: completions and acks are files, posted to an endpoint   *)
(* in every loop of a daemon and then moved to sent, or, after too many    *)
(* failures, to dead; the attempts and the time of the next one are in a   *)
(* retry file of their own.  A later run of a job writes its completion    *)
(* anew under the same name.                                               *)
(***************************************************************************)
EXTENDS Integers, FiniteSets, AgentdRoot

CONSTANTS Events,
          MaxAttempts, BaseDelay, MaxDelay,  \* RetryConfig
          MaxVersions,    \* bound: how often an event is written
          MaxLag,         \* bound: ticks while a push is under way
          MaxCutPushes    \* bound: pushes that end before their time

ASSUME RetryAssumption ==
  /\ Events # {}
  /\ MaxAttempts \in 1 .. 20
  /\ BaseDelay \in Nat \ {0}
  /\ MaxDelay \in Nat /\ BaseDelay <= MaxDelay
  /\ {MaxVersions, MaxLag, MaxCutPushes} \subseteq Nat

VARIABLES
  written,     \* the last version of each event written
  outbox,      \* the version in the outbox, 0 if there is no file
  sent, dead,  \* the versions moved there
  posted,      \* history: the versions the endpoint took, with how often
  registered,  \* history: the failures registered for the event
  retry,       \* the retry file: attempts, and the time left to the next one
  pushing,     \* each daemon: its step,
  items,       \*   the events listed and not taken yet,
  event,       \*   the one at hand,
  body,        \*   the version read of it,
  tries,       \*   the attempts it is about to write to the retry file
  lag,         \*   and the time since it took the time, at the start of the push
  cutPushes    \* history: the pushes that ended before their time

outboxHistory == <<posted, registered>>
pushers == <<items, event, body, tries, lag>>
outboxVars == <<written, outbox, sent, dead, posted, registered, retry, pushing, items,
                event, body, tries, lag, cutPushes>>

Versions == 1 .. MaxVersions
PushSteps == {"idle", "scan", "read", "post", "clear", "move", "fail", "put off",
              "rewrite", "bury", "forget"}

NoRetry == [state |-> "none", attempts |-> 0, wait |-> 0]
Torn == [state |-> "torn", attempts |-> 0, wait |-> 0]
Retry(n, w) == [state |-> "set", attempts |-> n, wait |-> w]

PushTo(d, step) == pushing' = [pushing EXCEPT ![d] = step]

Least(a, b) == IF a < b THEN a ELSE b

\* compute_backoff_secs
Backoff(attempts) == Least(BaseDelay * 2 ^ Least(attempts - 1, 20), MaxDelay)

OutboxInit ==
  /\ written = [e \in Events |-> 0]
  /\ outbox = [e \in Events |-> 0]
  /\ sent = [e \in Events |-> {}]
  /\ dead = [e \in Events |-> {}]
  /\ posted = [e \in Events |-> [v \in Versions |-> 0]]
  /\ registered = [e \in Events |-> 0]
  /\ retry = [e \in Events |-> NoRetry]
  /\ pushing = [d \in Daemons |-> "idle"]
  /\ items = [d \in Daemons |-> {}]
  /\ event = [d \in Daemons |-> CHOOSE e \in Events : TRUE]
  /\ body = [d \in Daemons |-> 0]
  /\ tries = [d \in Daemons |-> 0]
  /\ lag = [d \in Daemons |-> 0]
  /\ cutPushes = 0

-----------------------------------------------------------------------------

\* A daemon finished the job: the completion takes the place of an older one.
\* (The write is one step here: a completion left half-written by a crash, or
\* read while it is written, is not modelled.)
RecordCompletion(d, e) ==
  /\ pushing[d] = "idle"
  /\ written[e] < MaxVersions
  /\ written' = [written EXCEPT ![e] = @ + 1]
  /\ outbox' = [outbox EXCEPT ![e] = written[e] + 1]
  /\ UNCHANGED <<sent, dead, outboxHistory, retry, pushing, pushers, cutPushes>>

\* list_outbox_items, and the time of the push.
StartPush(d) ==
  /\ pushing[d] = "idle"
  /\ items' = [items EXCEPT ![d] = {e \in Events : outbox[e] # 0}]
  /\ lag' = [lag EXCEPT ![d] = 0]
  /\ PushTo(d, "scan")
  /\ UNCHANGED <<written, outbox, sent, dead, outboxHistory, retry, event, body, tries,
                 cutPushes>>

EndPush(d) ==
  /\ pushing[d] = "scan"
  /\ items[d] = {}
  /\ PushTo(d, "idle")
  /\ lag' = [lag EXCEPT ![d] = 0]
  /\ UNCHANGED <<written, outbox, sent, dead, outboxHistory, retry, items, event, body, tries,
                 cutPushes>>

\* Mutant of Deferred: the comparison is the wrong way round.
DeferredOverdue(d, e) == retry[e].state = "set" /\ retry[e].wait + lag[d] < 0

\* should_defer_retry, with the time taken at the start of the push.
Deferred(d, e) == retry[e].state = "set" /\ retry[e].wait + lag[d] > 0

\* The next file: left for later, posted now, or, if its retry file does not
\* parse, the end of the push.
TakeEvent(d) ==
  /\ pushing[d] = "scan"
  /\ \E e \in items[d] :
       /\ items' = [items EXCEPT ![d] = @ \ {e}]
       /\ IF retry[e].state = "torn" THEN PushTo(d, "idle") /\ UNCHANGED event
          ELSE IF Deferred(d, e) THEN UNCHANGED <<pushing, event>>
          ELSE PushTo(d, "read") /\ event' = [event EXCEPT ![d] = e]
  /\ UNCHANGED <<written, outbox, sent, dead, outboxHistory, retry, body, tries, lag, cutPushes>>

ReadEvent(d) ==
  /\ pushing[d] = "read"
  /\ body' = [body EXCEPT ![d] = outbox[event[d]]]
  /\ PushTo(d, IF outbox[event[d]] = 0 THEN "fail" ELSE "post")
  /\ UNCHANGED <<written, outbox, sent, dead, outboxHistory, retry, items, event, tries, lag,
                 cutPushes>>

\* The endpoint takes the event or not, and its answer arrives or not.
Post(d) ==
  /\ pushing[d] = "post"
  /\ \E taken, answered \in BOOLEAN :
       /\ posted' = IF taken THEN [posted EXCEPT ![event[d]][body[d]] = @ + 1] ELSE posted
       /\ PushTo(d, IF taken /\ answered THEN "clear" ELSE "fail")
  /\ UNCHANGED <<written, outbox, sent, dead, registered, retry, pushers, cutPushes>>

ClearRetry(d) ==
  /\ pushing[d] = "clear"
  /\ retry' = [retry EXCEPT ![event[d]] = NoRetry]
  /\ PushTo(d, "move")
  /\ UNCHANGED <<written, outbox, sent, dead, outboxHistory, pushers, cutPushes>>

\* Mutant of MoveSent: a copy, and the original is not removed.
CopySent(d) ==
  /\ pushing[d] = "move"
  /\ IF outbox[event[d]] = 0 THEN PushTo(d, "idle") /\ UNCHANGED sent
     ELSE sent' = [sent EXCEPT ![event[d]] = @ \union {outbox[event[d]]}] /\ PushTo(d, "scan")
  /\ UNCHANGED <<written, outbox, dead, outboxHistory, retry, pushers, cutPushes>>

\* Mutant of MoveSent: the file is removed, and not kept.
RemoveSent(d) ==
  /\ pushing[d] = "move"
  /\ PushTo(d, IF outbox[event[d]] = 0 THEN "idle" ELSE "scan")
  /\ outbox' = [outbox EXCEPT ![event[d]] = 0]
  /\ UNCHANGED <<written, sent, dead, outboxHistory, retry, pushers, cutPushes>>

\* Whatever the file holds now goes to sent; without it the push ends.
MoveSent(d) ==
  /\ pushing[d] = "move"
  /\ IF outbox[event[d]] = 0 THEN PushTo(d, "idle") /\ UNCHANGED <<outbox, sent>>
     ELSE /\ sent' = [sent EXCEPT ![event[d]] = @ \union {outbox[event[d]]}]
          /\ outbox' = [outbox EXCEPT ![event[d]] = 0]
          /\ PushTo(d, "scan")
  /\ UNCHANGED <<written, dead, outboxHistory, retry, pushers, cutPushes>>

\* register_retry_failure reads the retry file again: one more attempt, and
\* either the file is given up or the next attempt put off.
RegisterFailure(d) ==
  /\ pushing[d] = "fail"
  /\ LET e == event[d]
         n == retry[e].attempts + 1
     IN /\ tries' = [tries EXCEPT ![d] = n]
        /\ IF retry[e].state = "torn" THEN PushTo(d, "idle") /\ UNCHANGED registered
           ELSE /\ registered' = [registered EXCEPT ![e] = @ + 1]
                /\ PushTo(d, IF n >= MaxAttempts THEN "bury" ELSE "put off")
  /\ UNCHANGED <<written, outbox, sent, dead, posted, retry, items, event, body, lag,
                 cutPushes>>

\* write_retry_state: fs::write truncates the retry file and then fills it.
TruncateRetry(d) ==
  /\ pushing[d] = "put off"
  /\ retry' = [retry EXCEPT ![event[d]] = Torn]
  /\ PushTo(d, "rewrite")
  /\ UNCHANGED <<written, outbox, sent, dead, outboxHistory, pushers, cutPushes>>

\* The time of the next attempt was computed when the failure was registered,
\* some ticks of the push ago.
WriteRetry(d) ==
  /\ pushing[d] = "rewrite"
  /\ \E late \in 0 .. lag[d] :
       retry' = [retry EXCEPT ![event[d]] = Retry(tries[d], Backoff(tries[d]) - late)]
  /\ PushTo(d, "scan")
  /\ UNCHANGED <<written, outbox, sent, dead, outboxHistory, pushers, cutPushes>>

Bury(d) ==
  /\ pushing[d] = "bury"
  /\ IF outbox[event[d]] = 0 THEN PushTo(d, "idle") /\ UNCHANGED <<outbox, dead>>
     ELSE /\ dead' = [dead EXCEPT ![event[d]] = @ \union {outbox[event[d]]}]
          /\ outbox' = [outbox EXCEPT ![event[d]] = 0]
          /\ PushTo(d, "forget")
  /\ UNCHANGED <<written, sent, posted, registered, retry, pushers, cutPushes>>

ForgetRetry(d) ==
  /\ pushing[d] = "forget"
  /\ retry' = [retry EXCEPT ![event[d]] = NoRetry]
  /\ PushTo(d, "scan")
  /\ UNCHANGED <<written, outbox, sent, dead, outboxHistory, pushers, cutPushes>>

\* An error or a kill ends the push between two steps.
CutPush(d) ==
  /\ pushing[d] # "idle"
  /\ cutPushes < MaxCutPushes
  /\ cutPushes' = cutPushes + 1
  /\ PushTo(d, "idle")
  /\ UNCHANGED <<written, outbox, sent, dead, outboxHistory, retry, pushers>>

\* A tick of the clock.
Tick ==
  /\ \A d \in Daemons : pushing[d] # "idle" => lag[d] < MaxLag
  /\ lag' = [d \in Daemons |-> IF pushing[d] = "idle" THEN 0 ELSE lag[d] + 1]
  /\ retry' = [e \in Events |->
                 IF retry[e].state = "set" /\ retry[e].wait > -MaxLag
                 THEN [retry[e] EXCEPT !.wait = @ - 1] ELSE retry[e]]
  /\ UNCHANGED <<written, outbox, sent, dead, outboxHistory, pushing, items, event, body, tries,
                 cutPushes>>

PushStep(d) ==
  \/ StartPush(d) \/ TakeEvent(d) \/ EndPush(d) \/ ReadEvent(d) \/ Post(d) \/ ClearRetry(d)
  \/ MoveSent(d) \/ RegisterFailure(d) \/ TruncateRetry(d) \/ WriteRetry(d) \/ Bury(d)
  \/ ForgetRetry(d)

OutboxNext ==
  \/ \E d \in Daemons : PushStep(d) \/ CutPush(d) \/ \E e \in Events : RecordCompletion(d, e)
  \/ Tick

OutboxSpec == OutboxInit /\ [][OutboxNext]_outboxVars

\* The service pushes once in every loop, a daemon that ended is started again,
\* and time passes.
OutboxFairSpec == OutboxSpec /\ WF_outboxVars(Tick) /\ \A d \in Daemons : WF_outboxVars(PushStep(d))

-----------------------------------------------------------------------------
(* Properties *)

\* Every variable has its type; a retry file is never torn while nobody writes
\* it, unless a push was interrupted.
OutboxTypeOK ==
  /\ {written, outbox} \subseteq [Events -> 0 .. MaxVersions]
  /\ {sent, dead} \subseteq [Events -> SUBSET Versions]
  /\ posted \in [Events -> [Versions -> Nat]]
  /\ registered \in [Events -> Nat]
  /\ \A e \in Events :
       retry[e] \in {NoRetry, Torn} \union
         {Retry(n, w) : n \in 1 .. MaxAttempts - 1, w \in -MaxLag .. MaxDelay}
  /\ pushing \in [Daemons -> PushSteps]
  /\ items \in [Daemons -> SUBSET Events]
  /\ event \in [Daemons -> Events]
  /\ body \in [Daemons -> 0 .. MaxVersions]
  /\ tries \in [Daemons -> 0 .. MaxAttempts]
  /\ lag \in [Daemons -> 0 .. MaxLag]
  /\ cutPushes \in 0 .. MaxCutPushes
  /\ \A e \in Events : retry[e] = Torn =>
       cutPushes > 0 \/ \E d \in Daemons : event[d] = e /\ pushing[d] = "rewrite"

\* The last completion written is somewhere: in the outbox, in sent or in dead,
\* whoever else pushes and whenever a push ends.
EventsKept ==
  \A e \in Events :
    written[e] > 0 => outbox[e] = written[e] \/ written[e] \in sent[e] \union dead[e]

\* A single daemon posts a version again only after a failure it registered or
\* a push that was interrupted.  (Of two, one may meet the retry file the other
\* is writing, and its failure is not registered.)
DuplicatesBounded ==
  \A e \in Events, v \in Versions : posted[e][v] <= registered[e] + cutPushes + 1

\* An event leaves the outbox in the end, sent or given up, unless a retry
\* file was left torn for ever: that one ends every push that comes to it.
Settled ==
  \A e \in Events : outbox[e] # 0 ~> (outbox[e] = 0 \/ \E f \in Events : [](retry[f] = Torn))
=============================================================================

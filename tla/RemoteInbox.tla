---------------------------- MODULE RemoteInbox ----------------------------
(***************************************************************************)
(* The inbox of agentd, pull_once of remote_link.rs: a sender drops job    *)
(* files into a directory, and every loop of a daemon reads them, submits  *)
(* those whose contents it has not seen, remembers the contents in a file  *)
(* of their own, writes an ack and moves the file away.  Several daemons   *)
(* share the directory without a lock, and any step may be the last of one *)
(* (an I/O error ends the pull, a kill the process).                       *)
(***************************************************************************)
EXTENDS Naturals, FiniteSets, AgentdRoot

CONSTANTS Files,          \* the files a sender drops, each once
          Payloads,
          PayloadOf,      \* what a file contains
          Valid,          \* the payloads submit_job_from_spec_file accepts
          MaxCutPulls     \* bound: pulls that end before their time, and
                          \* files refused over an I/O error

ASSUME PayloadsAssumption ==
  /\ Files # {}
  /\ PayloadOf \in [Files -> Payloads]
  /\ Valid \subseteq Payloads
  /\ MaxCutPulls \in Nat

VARIABLES
  place,       \* where each file is
  seen,        \* the file of the seen directory for each payload
  submitted,   \* how often each payload was submitted as a job
  lastAck,     \* the newest ack file of each file: its verdict, or torn
  acks,        \* the older ack files, as pairs of a file and a verdict
  pulling,     \* each daemon: its step,
  listed,      \*   the files listed and not taken yet,
  message,     \*   the file at hand
  verdict,     \*   and what becomes of it
  acker,       \* history: who wrote the newest ack file,
  overtaken,   \*   the files one daemon's ack of which another one replaced,
  refused,     \*   those refused over an I/O error,
  cutPulls     \*   and how many pulls ended before their time or met one

pullers == <<pulling, listed, message, verdict>>
ackVars == <<lastAck, acks, acker, overtaken>>
history == <<refused, cutPulls>>
inboxVars == <<place, seen, submitted, lastAck, acks, pulling, listed, message, verdict, acker,
               overtaken, refused, cutPulls>>

Verdicts == {"accepted", "duplicate", "invalid"}
Places == {"nowhere", "inbox", "processed", "failed"}
PullSteps == {"idle", "scan", "read", "seen", "submit", "mark", "marking", "ack", "move"}

Payload(d) == PayloadOf[message[d]]
PullTo(d, step) == pulling' = [pulling EXCEPT ![d] = step]
Decide(d, v, step) == verdict' = [verdict EXCEPT ![d] = v] /\ PullTo(d, step)

InboxInit ==
  /\ place = [f \in Files |-> "nowhere"]
  /\ seen = [p \in Payloads |-> "none"]
  /\ submitted = [p \in Payloads |-> 0]
  /\ lastAck = [f \in Files |-> "none"]
  /\ acks = {}
  /\ pulling = [d \in Daemons |-> "idle"]
  /\ listed = [d \in Daemons |-> {}]
  /\ message = [d \in Daemons |-> CHOOSE f \in Files : TRUE]
  /\ verdict = [d \in Daemons |-> "invalid"]
  /\ acker = [f \in Files |-> "nobody"]
  /\ overtaken = {}
  /\ refused = {}
  /\ cutPulls = 0

\* The sender puts a whole file into the inbox.
Drop(f) ==
  /\ place[f] = "nowhere"
  /\ place' = [place EXCEPT ![f] = "inbox"]
  /\ UNCHANGED <<seen, submitted, ackVars, pullers, history>>

StartPull(d) ==
  /\ pulling[d] = "idle"
  /\ listed' = [listed EXCEPT ![d] = {f \in Files : place[f] = "inbox"}]
  /\ PullTo(d, "scan")
  /\ UNCHANGED <<place, seen, submitted, ackVars, message, verdict, history>>

\* Mutant of TakeMessage: the directory is listed anew for every file.
TakeMessageAnew(d) ==
  /\ pulling[d] = "scan"
  /\ \E f \in listed[d] : message' = [message EXCEPT ![d] = f]
  /\ PullTo(d, "read")
  /\ UNCHANGED <<place, seen, submitted, ackVars, listed, verdict, history>>

\* The directory is read in any order.
TakeMessage(d) ==
  /\ pulling[d] = "scan"
  /\ \E f \in listed[d] :
       /\ message' = [message EXCEPT ![d] = f]
       /\ listed' = [listed EXCEPT ![d] = @ \ {f}]
  /\ PullTo(d, "read")
  /\ UNCHANGED <<place, seen, submitted, ackVars, verdict, history>>

EndPull(d) ==
  /\ pulling[d] = "scan"
  /\ listed[d] = {}
  /\ PullTo(d, "idle")
  /\ UNCHANGED <<place, seen, submitted, ackVars, listed, message, verdict, history>>

\* The file may be gone: another daemon moved it.
ReadMessage(d) ==
  /\ pulling[d] = "read"
  /\ IF place[message[d]] = "inbox" THEN PullTo(d, "seen") /\ UNCHANGED verdict
     ELSE Decide(d, "invalid", "ack")
  /\ UNCHANGED <<place, seen, submitted, ackVars, listed, message, history>>

\* A seen file that does not parse ends the pull.
CheckSeen(d) ==
  /\ pulling[d] = "seen"
  /\ CASE seen[Payload(d)] = "none" -> PullTo(d, "submit") /\ UNCHANGED verdict
       [] seen[Payload(d)] = "torn" -> PullTo(d, "idle") /\ UNCHANGED verdict
       [] OTHER -> Decide(d, "duplicate", "ack")
  /\ UNCHANGED <<place, seen, submitted, ackVars, listed, message, history>>

\* Mutant of Submit: the contents are not remembered.
SubmitUnmarked(d) ==
  /\ pulling[d] = "submit"
  /\ IF place[message[d]] = "inbox" /\ Payload(d) \in Valid
     THEN /\ submitted' = [submitted EXCEPT ![Payload(d)] = @ + 1]
          /\ Decide(d, "accepted", "ack")
     ELSE Decide(d, "invalid", "ack") /\ UNCHANGED submitted
  /\ UNCHANGED <<place, seen, ackVars, listed, message, history>>

\* Mutant of Submit: its error is not looked at.
SubmitUnchecked(d) ==
  /\ pulling[d] = "submit"
  /\ Decide(d, "accepted", "mark")
  /\ submitted' = IF place[message[d]] = "inbox" /\ Payload(d) \in Valid
                  THEN [submitted EXCEPT ![Payload(d)] = @ + 1] ELSE submitted
  /\ UNCHANGED <<place, seen, ackVars, listed, message, history>>

\* The file is read a second time and becomes a job, or is refused.
Submit(d) ==
  /\ pulling[d] = "submit"
  /\ IF place[message[d]] = "inbox" /\ Payload(d) \in Valid
     THEN /\ submitted' = [submitted EXCEPT ![Payload(d)] = @ + 1]
          /\ Decide(d, "accepted", "mark")
     ELSE Decide(d, "invalid", "ack") /\ UNCHANGED submitted
  /\ UNCHANGED <<place, seen, ackVars, listed, message, history>>

\* fs::write truncates the seen file and then fills it.
MarkTruncate(d) ==
  /\ pulling[d] = "mark"
  /\ seen' = [seen EXCEPT ![Payload(d)] = "torn"]
  /\ PullTo(d, "marking")
  /\ UNCHANGED <<place, submitted, ackVars, listed, message, verdict, history>>

MarkWrite(d) ==
  /\ pulling[d] = "marking"
  /\ seen' = [seen EXCEPT ![Payload(d)] = "whole"]
  /\ PullTo(d, "ack")
  /\ UNCHANGED <<place, submitted, ackVars, listed, message, verdict, history>>

\* write_ack: the name of an ack file is that of the message and the second, so
\* that one of the same second is written over.
PutAck(d, a) ==
  LET f == message[d] IN \E sameSecond \in BOOLEAN :
    /\ lastAck' = [lastAck EXCEPT ![f] = a]
    /\ acker' = [acker EXCEPT ![f] = d]
    /\ acks' = IF sameSecond \/ lastAck[f] \notin Verdicts THEN acks
               ELSE acks \union {<<f, lastAck[f]>>}
    /\ overtaken' = IF sameSecond /\ lastAck[f] \in Verdicts /\ acker[f] # d
                    THEN overtaken \union {f} ELSE overtaken

WriteAck(d) ==
  /\ pulling[d] = "ack"
  /\ PutAck(d, verdict[d])
  /\ PullTo(d, "move")
  /\ UNCHANGED <<place, seen, submitted, listed, message, verdict, history>>

\* Mutant of MoveMessage: a duplicate stays where it is.
MoveMessageUnlessDuplicate(d) ==
  /\ pulling[d] = "move"
  /\ IF place[message[d]] = "inbox"
     THEN /\ place' = [place EXCEPT ![message[d]] =
                         CASE verdict[d] = "invalid" -> "failed"
                           [] verdict[d] = "accepted" -> "processed"
                           [] OTHER -> "inbox"]
          /\ PullTo(d, "scan")
     ELSE PullTo(d, "idle") /\ UNCHANGED place
  /\ UNCHANGED <<seen, submitted, ackVars, listed, message, verdict, history>>

\* To processed or failed; if the file is gone the pull ends with the error.
MoveMessage(d) ==
  /\ pulling[d] = "move"
  /\ IF place[message[d]] = "inbox"
     THEN /\ place' = [place EXCEPT ![message[d]] =
                         IF verdict[d] = "invalid" THEN "failed" ELSE "processed"]
          /\ PullTo(d, "scan")
     ELSE PullTo(d, "idle") /\ UNCHANGED place
  /\ UNCHANGED <<seen, submitted, ackVars, listed, message, verdict, history>>

\* An error or a kill ends the pull between two steps, or within fs::write,
\* which had truncated the ack.
CutPull(d) ==
  /\ pulling[d] # "idle"
  /\ cutPulls < MaxCutPulls
  /\ cutPulls' = cutPulls + 1
  /\ PullTo(d, "idle")
  /\ UNCHANGED ackVars \/ (pulling[d] = "ack" /\ PutAck(d, "torn"))
  /\ UNCHANGED <<place, seen, submitted, listed, message, verdict, refused>>

\* The file is there but cannot be read, or the job cannot be saved: the error
\* refuses the message for good, whatever it contains.
RefuseUnread(d) ==
  /\ pulling[d] \in {"read", "submit"}
  /\ place[message[d]] = "inbox"
  /\ cutPulls < MaxCutPulls
  /\ cutPulls' = cutPulls + 1
  /\ refused' = refused \union {message[d]}
  /\ Decide(d, "invalid", "ack")
  /\ UNCHANGED <<place, seen, submitted, ackVars, listed, message>>

PullStep(d) ==
  \/ StartPull(d) \/ TakeMessage(d) \/ EndPull(d) \/ ReadMessage(d) \/ CheckSeen(d) \/ Submit(d)
  \/ MarkTruncate(d) \/ MarkWrite(d) \/ WriteAck(d) \/ MoveMessage(d)

InboxNext ==
  \/ \E f \in Files : Drop(f)
  \/ \E d \in Daemons : PullStep(d) \/ CutPull(d) \/ RefuseUnread(d)

InboxSpec == InboxInit /\ [][InboxNext]_inboxVars

\* The service pulls once in every loop, and a daemon that ended is started
\* again.
InboxFairSpec == InboxSpec /\ \A d \in Daemons : WF_inboxVars(PullStep(d))

-----------------------------------------------------------------------------
(* Properties *)

\* Every variable has its type, and a file at hand is not listed any more.
InboxTypeOK ==
  /\ place \in [Files -> Places]
  /\ seen \in [Payloads -> {"none", "torn", "whole"}]
  /\ submitted \in [Payloads -> Nat]
  /\ lastAck \in [Files -> Verdicts \union {"none", "torn"}]
  /\ acks \subseteq Files \X Verdicts
  /\ pulling \in [Daemons -> PullSteps]
  /\ listed \in [Daemons -> SUBSET Files]
  /\ message \in [Daemons -> Files]
  /\ verdict \in [Daemons -> Verdicts]
  /\ acker \in [Files -> Daemons \union {"nobody"}]
  /\ {overtaken, refused} \subseteq SUBSET Files
  /\ cutPulls \in 0 .. MaxCutPulls
  /\ \A d \in Daemons : pulling[d] \notin {"idle", "scan"} => message[d] \notin listed[d]

Refusable(f) == PayloadOf[f] \notin Valid \/ f \in refused

\* However often a payload is dropped, it is submitted once: but for daemons
\* that looked before it was remembered, one time each, and for pulls that
\* ended between the submission and the mark.
SubmittedBounded ==
  \A p \in Payloads : submitted[p] <= Cardinality(Daemons) + cutPulls

\* The ack files say one of the verdicts vs of the file.
Told(f, vs) == lastAck[f] \in vs \/ \E v \in vs : <<f, v>> \in acks

\* No message is lost: a file leaves the inbox as processed only when its
\* payload was submitted and an ack says so, as failed only when it is refused
\* with an ack, for what it contains or over an I/O error.  The ack may be
\* missing only if two daemons wrote one in the same second: the later one,
\* which may say the opposite, took the place of the earlier.
MessagesKept ==
  \A f \in Files :
    /\ place[f] = "processed" =>
         submitted[PayloadOf[f]] > 0 /\ (Told(f, {"accepted", "duplicate"}) \/ f \in overtaken)
    /\ place[f] = "failed" => Refusable(f) /\ (Told(f, {"invalid"}) \/ f \in overtaken)

\* A message in the inbox is dealt with in the end, unless a seen file was
\* left torn for ever: that one ends every pull that comes to it.
Handled ==
  \A f \in Files :
    place[f] = "inbox" ~> (place[f] # "inbox" \/ \E p \in Payloads : [](seen[p] = "torn"))
=============================================================================

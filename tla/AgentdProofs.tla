---------------------------- MODULE AgentdProofs ----------------------------
(***************************************************************************)
(* The parts of agentd beside the queue, for any daemons, files, events,   *)
(* jobs and bounds, and wherever a pull or a push ends.  The inbox loses   *)
(* no message and submits no payload more often than daemons and cut pulls *)
(* explain; the outbox loses no completion, and a daemon alone posts       *)
(* nothing again without a failure or a cut push; the service keeps to its *)
(* limits; a job pays for at most MaxSteps turns and leaves the process at *)
(* home unless the way back failed.                                        *)
(***************************************************************************)
EXTENDS MCAgentd, FiniteSetTheorems, TLAPS

-----------------------------------------------------------------------------
(* The inbox *)

InboxTypes ==
  /\ place \in [Files -> Places]
  /\ seen \in [Payloads -> {"none", "torn", "whole"}]
  /\ submitted \in [Payloads -> Nat]
  /\ pulling \in [Daemons -> PullSteps]
  /\ listed \in [Daemons -> SUBSET Files]
  /\ message \in [Daemons -> Files]
  /\ verdict \in [Daemons -> Verdicts]
  /\ refused \subseteq Files
  /\ cutPulls \in 0 .. MaxCutPulls

AckTypes ==
  /\ lastAck \in [Files -> Verdicts \union {"none", "torn"}]
  /\ acks \subseteq Files \X Verdicts
  /\ acker \in [Files -> Daemons \union {"nobody"}]
  /\ overtaken \subseteq Files

\* A file that was listed was dropped, so that one that is gone stays gone.
ListedDropped ==
  \A d \in Daemons :
    /\ \A f \in listed[d] : place[f] # "nowhere"
    /\ pulling[d] \notin {"idle", "scan"} => place[message[d]] # "nowhere"

\* What is remembered was submitted.
SeenSubmitted == \A p \in Payloads : seen[p] # "none" => submitted[p] > 0

\* A daemon about to tell the sender and to move the file has a reason.
VerdictHolds ==
  \A d \in Daemons :
    /\ pulling[d] \in {"mark", "marking"} => verdict[d] = "accepted"
    /\ pulling[d] \in {"mark", "marking", "ack", "move"} =>
         IF verdict[d] = "invalid"
         THEN place[message[d]] = "inbox" => Refusable(message[d])
         ELSE submitted[Payload(d)] > 0

MessageAtHand == \A d \in Daemons : pulling[d] \notin {"idle", "scan"} => message[d] \notin listed[d]

\* A file is where it is for a reason.
PlaceHolds ==
  \A f \in Files :
    /\ place[f] = "processed" => submitted[PayloadOf[f]] > 0
    /\ place[f] = "failed" => Refusable(f)

PullInv ==
  InboxTypes /\ MessageAtHand /\ ListedDropped /\ SeenSubmitted /\ VerdictHolds /\ PlaceHolds

\* There is an ack v of f, in an older second or the one daemon d wrote last.
AckBy(f, v, d) == <<f, v>> \in acks \/ (lastAck[f] = v /\ acker[f] = d)

\* The daemon will write no ack of f any more, once f has left the inbox.
DoneWith(d, f) == f \notin listed[d] /\ (pulling[d] \in {"idle", "scan"} \/ message[d] # f)

\* The verdicts that bring a file to the place.
Bringing(p) == IF p = "processed" THEN {"accepted", "duplicate"} ELSE {"invalid"}

\* A daemon about to move a file has written its ack, and one that moved it
\* wrote it and is done with it: only another one can replace the ack.
MovingTold ==
  \A d \in Daemons :
    pulling[d] = "move" /\ message[d] \notin overtaken => AckBy(message[d], verdict[d], d)

MovedTold ==
  \A f \in Files \ overtaken :
    place[f] \in {"processed", "failed"} =>
      \E d \in Daemons : DoneWith(d, f) /\ \E v \in Bringing(place[f]) : AckBy(f, v, d)

AckInv == AckTypes /\ MovingTold /\ MovedTold

InboxInv == PullInv /\ AckInv

LEMMA InboxTypesSplit == InboxTypeOK <=> InboxTypes /\ AckTypes /\ MessageAtHand
BY DEF InboxTypeOK, InboxTypes, AckTypes, MessageAtHand

LEMMA KeptFollows == InboxInv => MessagesKept
<1> SUFFICES ASSUME InboxInv, NEW f \in Files
             PROVE  /\ place[f] = "processed" =>
                          /\ submitted[PayloadOf[f]] > 0
                          /\ Told(f, {"accepted", "duplicate"}) \/ f \in overtaken
                    /\ place[f] = "failed" =>
                          Refusable(f) /\ (Told(f, {"invalid"}) \/ f \in overtaken)
  BY DEF MessagesKept
<1> USE DEF InboxInv, PullInv, PlaceHolds, AckInv, MovedTold, AckBy, Told, Bringing
<1>1. CASE place[f] = "processed"
  BY <1>1
<1>2. CASE place[f] = "failed"
  BY <1>2
<1> QED
  BY <1>1, <1>2

\* InboxInit => InboxInv
LEMMA InitInbox == InboxInit => InboxInv
BY PayloadsAssumption
DEF InboxInit, InboxInv, PullInv, AckInv, InboxTypes, AckTypes, MessageAtHand, ListedDropped,
    SeenSubmitted, VerdictHolds, PlaceHolds, MovingTold, MovedTold, Refusable, history, Places,
    PullSteps, Verdicts, Payload

\* Every step keeps the places and the reasons.
LEMMA NextPull == PullInv /\ [InboxNext]_inboxVars => PullInv'
<1> SUFFICES ASSUME PullInv, [InboxNext]_inboxVars PROVE PullInv'
  OBVIOUS
<1> USE PayloadsAssumption DEF PullInv, InboxTypes, MessageAtHand, ListedDropped, SeenSubmitted,
    VerdictHolds, PlaceHolds, Refusable, history, Places, PullSteps, Verdicts, Payload, PullTo,
    Decide, pullers
<1>1. ASSUME NEW f \in Files, Drop(f) PROVE PullInv'
  BY <1>1 DEF Drop
<1>2. ASSUME NEW d \in Daemons, PullStep(d) \/ CutPull(d) \/ RefuseUnread(d) PROVE PullInv'
  <2>1. CASE StartPull(d)
    BY <2>1 DEF StartPull
  <2>2. CASE TakeMessage(d)
    BY <2>2 DEF TakeMessage
  <2>3. CASE EndPull(d)
    BY <2>3 DEF EndPull
  <2>4. CASE ReadMessage(d)
    BY <2>4 DEF ReadMessage
  <2>5. CASE CheckSeen(d)
    <3>1. CASE seen[Payload(d)] = "none"
      BY <2>5, <3>1 DEF CheckSeen
    <3>2. CASE seen[Payload(d)] = "torn"
      BY <2>5, <3>2 DEF CheckSeen
    <3>3. CASE seen[Payload(d)] = "whole"
      BY <2>5, <3>3 DEF CheckSeen
    <3> QED
      BY <3>1, <3>2, <3>3
  <2>6. CASE Submit(d)
    <3>1. CASE place[message[d]] = "inbox" /\ Payload(d) \in Valid
      BY <2>6, <3>1 DEF Submit
    <3>2. CASE ~(place[message[d]] = "inbox" /\ Payload(d) \in Valid)
      BY <2>6, <3>2 DEF Submit
    <3> QED
      BY <3>1, <3>2
  <2>7. CASE MarkTruncate(d)
    BY <2>7 DEF MarkTruncate
  <2>8. CASE MarkWrite(d)
    BY <2>8 DEF MarkWrite
  <2>9. CASE WriteAck(d)
    BY <2>9 DEF WriteAck
  <2>10. CASE MoveMessage(d)
    <3>1. CASE place[message[d]] # "inbox"
      BY <2>10, <3>1 DEF MoveMessage
    <3>2. CASE place[message[d]] = "inbox"
      <4>1. PICK home \in {"failed", "processed"} :
              /\ place' = [place EXCEPT ![message[d]] = home]
              /\ home = "failed" <=> verdict[d] = "invalid"
        BY <2>10, <3>2 DEF MoveMessage
      <4>2. /\ pulling' = [pulling EXCEPT ![d] = "scan"]
            /\ UNCHANGED <<seen, submitted, listed, message, verdict, history>>
        BY <2>10, <3>2 DEF MoveMessage
      <4>3. /\ message[d] \in Files /\ verdict[d] \in Verdicts
            /\ IF verdict[d] = "invalid" THEN Refusable(message[d])
               ELSE submitted[PayloadOf[message[d]]] > 0
        BY <2>10, <3>2 DEF MoveMessage
      <4>4. InboxTypes' /\ MessageAtHand' /\ SeenSubmitted'
        BY <4>1, <4>2, <4>3
      <4>5. ListedDropped' /\ VerdictHolds'
        BY <4>1, <4>2, <4>3
      <4>6. PlaceHolds'
        BY <4>1, <4>2, <4>3
      <4> QED
        BY <4>4, <4>5, <4>6
    <3> QED
      BY <3>1, <3>2
  <2>11. CASE CutPull(d)
    BY <2>11 DEF CutPull
  <2>12. CASE RefuseUnread(d)
    BY <2>12 DEF RefuseUnread
  <2> QED
    BY <1>2, <2>1, <2>2, <2>3, <2>4, <2>5, <2>6, <2>7, <2>8, <2>9, <2>10, <2>11, <2>12 DEF PullStep
<1>3. CASE UNCHANGED inboxVars
  BY <1>3 DEF inboxVars
<1> QED
  BY <1>1, <1>2, <1>3 DEF InboxNext

\* Who is done with a file that left the inbox stays so.
LEMMA DoneStays ==
  ASSUME InboxTypes, NEW d \in Daemons, NEW f \in Files, place[f] # "inbox", DoneWith(d, f),
         NEW c \in Daemons, PullStep(c) \/ CutPull(c) \/ RefuseUnread(c)
  PROVE  DoneWith(d, f)'
<1> USE DEF InboxTypes, DoneWith, PullTo, Decide, pullers
<1>1. CASE TakeMessage(c)
  <2>1. PICK g \in listed[c] : /\ message' = [message EXCEPT ![c] = g]
                               /\ listed' = [listed EXCEPT ![c] = @ \ {g}]
    BY <1>1 DEF TakeMessage
  <2> QED
    BY <1>1, <2>1 DEF TakeMessage
<1>2. CASE \/ StartPull(c) \/ EndPull(c) \/ MarkTruncate(c) \/ MarkWrite(c) \/ WriteAck(c)
           \/ MoveMessage(c) \/ CutPull(c) \/ RefuseUnread(c)
  BY <1>2 DEF StartPull, EndPull, MarkTruncate, MarkWrite, WriteAck, MoveMessage, CutPull,
     RefuseUnread
<1>3. CASE ReadMessage(c) \/ CheckSeen(c) \/ Submit(c)
  BY <1>3 DEF ReadMessage, CheckSeen, Submit
<1> QED
  BY <1>1, <1>2, <1>3 DEF PullStep

\* An ack is lost only to one of another daemon, in the same second.
LEMMA AckStays ==
  ASSUME AckTypes, NEW d \in Daemons, message[d] \in Files,
         NEW a \in Verdicts \union {"torn"}, PutAck(d, a),
         NEW f \in Files, NEW v \in Verdicts, NEW c \in Daemons, AckBy(f, v, c),
         f = message[d] => c # d
  PROVE  f \in overtaken' \/ AckBy(f, v, c)'
<1>1. PICK sameSecond \in BOOLEAN :
        /\ lastAck' = [lastAck EXCEPT ![message[d]] = a]
        /\ acker' = [acker EXCEPT ![message[d]] = d]
        /\ acks' = IF sameSecond \/ lastAck[message[d]] \notin Verdicts THEN acks
                   ELSE acks \union {<<message[d], lastAck[message[d]]>>}
        /\ overtaken' = IF sameSecond /\ lastAck[message[d]] \in Verdicts /\ acker[message[d]] # d
                        THEN overtaken \union {message[d]} ELSE overtaken
  BY DEF PutAck
<1>2. CASE f # message[d]
  BY <1>1, <1>2 DEF AckBy, AckTypes
<1>3. CASE f = message[d] /\ <<f, v>> \in acks
  BY <1>1, <1>3 DEF AckBy
<1>4. CASE f = message[d] /\ lastAck[f] = v /\ acker[f] = c /\ ~sameSecond
  BY <1>1, <1>4 DEF AckBy
<1>5. CASE f = message[d] /\ lastAck[f] = v /\ acker[f] = c /\ sameSecond
  BY <1>1, <1>5
<1> QED
  BY <1>2, <1>3, <1>4, <1>5 DEF AckBy

LEMMA AckTyped ==
  ASSUME AckTypes, NEW d \in Daemons, message[d] \in Files, NEW a \in Verdicts \union {"torn"},
         PutAck(d, a)
  PROVE  AckTypes' /\ overtaken \subseteq overtaken'
BY DEF AckTypes, PutAck

\* A step that writes no ack and moves nothing.
LEMMA AckQuiet ==
  ASSUME InboxInv, [InboxNext]_inboxVars, UNCHANGED ackVars,
         \A d \in Daemons : pulling'[d] = "move" =>
            pulling[d] = "move" /\ message'[d] = message[d] /\ verdict'[d] = verdict[d],
         \A f \in Files : place'[f] # place[f] => place'[f] = "inbox"
  PROVE  AckInv'
<1> USE DEF InboxInv, PullInv, AckInv, ackVars
<1>1. AckTypes' /\ MovingTold'
  BY DEF AckTypes, MovingTold, AckBy
<1>2. ASSUME NEW f \in Files \ overtaken, place'[f] \in {"processed", "failed"}
      PROVE  \E d \in Daemons : DoneWith(d, f)' /\ \E v \in Bringing(place'[f]) : AckBy(f, v, d)'
  <2>1. place[f] = place'[f]
    BY <1>2
  <2>2. PICK d \in Daemons : DoneWith(d, f) /\ \E v \in Bringing(place[f]) : AckBy(f, v, d)
    BY <1>2, <2>1 DEF MovedTold
  <2>3. DoneWith(d, f)'
    <3>1. CASE \E c \in Daemons : PullStep(c) \/ CutPull(c) \/ RefuseUnread(c)
      BY <1>2, <2>1, <2>2, <3>1, DoneStays
    <3>2. CASE \E g \in Files : Drop(g)
      BY <2>2, <3>2 DEF Drop, DoneWith, pullers
    <3>3. CASE UNCHANGED inboxVars
      BY <2>2, <3>3 DEF inboxVars, DoneWith
    <3> QED
      BY <3>1, <3>2, <3>3 DEF InboxNext
  <2> QED
    BY <2>1, <2>2, <2>3 DEF AckBy
<1> QED
  BY <1>1, <1>2 DEF MovedTold

\* A daemon that wrote an ack for its message is about to move it, or was cut.
LEMMA AckWritten ==
  ASSUME InboxInv, NEW d \in Daemons, NEW a \in Verdicts \union {"torn"}, PutAck(d, a),
         PullStep(d) \/ CutPull(d), pulling[d] = "ack",
         UNCHANGED <<place, listed, message, verdict>>,
         \/ a = verdict[d] /\ pulling' = [pulling EXCEPT ![d] = "move"]
         \/ pulling' = [pulling EXCEPT ![d] = "idle"]
  PROVE  AckInv'
<1> USE DEF InboxInv, PullInv, AckInv
<1>0. message[d] \in Files /\ pulling \in [Daemons -> PullSteps]
  BY DEF InboxTypes
<1>1. AckTypes' /\ overtaken \subseteq overtaken'
  BY <1>0, AckTyped
<1>2. ASSUME NEW c \in Daemons, pulling'[c] = "move", message[c] \notin overtaken'
      PROVE  AckBy(message[c], verdict[c], c)'
  <2>1. CASE c = d
    <3>1. a = verdict[d]
      BY <1>0, <1>2, <2>1
    <3> QED
      BY <1>0, <2>1, <3>1 DEF PutAck, AckBy, AckTypes
  <2>2. CASE c # d
    <3>1. AckBy(message[c], verdict[c], c) /\ message[c] \in Files /\ verdict[c] \in Verdicts
      BY <1>0, <1>1, <1>2, <2>2 DEF MovingTold, InboxTypes
    <3>2. message[c] \in overtaken' \/ AckBy(message[c], verdict[c], c)'
      BY <1>0, <2>2, <3>1, AckStays DEF AckBy
    <3> QED
      BY <1>2, <3>2
  <2> QED
    BY <2>1, <2>2
<1>3. ASSUME NEW f \in Files \ overtaken', place[f] \in {"processed", "failed"}
      PROVE  \E c \in Daemons : DoneWith(c, f)' /\ \E v \in Bringing(place[f]) : AckBy(f, v, c)'
  <2>1. PICK c \in Daemons, v \in Bringing(place[f]) : DoneWith(c, f) /\ AckBy(f, v, c)
    BY <1>1, <1>3 DEF MovedTold
  <2>2. f = message[d] => c # d
    BY <2>1 DEF DoneWith
  <2>3. v \in Verdicts
    BY DEF Bringing, Verdicts
  <2>4. AckBy(f, v, c)'
    BY <1>0, <1>3, <2>1, <2>2, <2>3, AckStays
  <2>5. DoneWith(c, f)'
    BY <1>3, <2>1, DoneStays
  <2> QED
    BY <2>4, <2>5
<1> QED
  BY <1>1, <1>2, <1>3 DEF MovingTold, MovedTold

\* A daemon that moves its message has written an ack of it.
LEMMA AckMoved ==
  ASSUME InboxInv, NEW d \in Daemons, MoveMessage(d)
  PROVE  AckInv'
<1> USE DEF InboxInv, PullInv, AckInv, MoveMessage, ackVars, PullTo
<1>1. CASE place[message[d]] # "inbox"
  <2>1. \A c \in Daemons : pulling'[c] = "move" => pulling[c] = "move"
    BY <1>1 DEF InboxTypes
  <2> QED
    BY <1>1, <2>1, AckQuiet DEF InboxNext, PullStep
<1>2. CASE place[message[d]] = "inbox"
  <2>1. PICK home \in {"failed", "processed"} :
          /\ place' = [place EXCEPT ![message[d]] = home]
          /\ home = "failed" <=> verdict[d] = "invalid"
    BY <1>2
  <2>2. /\ pulling' = [pulling EXCEPT ![d] = "scan"]
        /\ UNCHANGED <<lastAck, acks, acker, overtaken, listed, message, verdict>>
    BY <1>2
  <2>3. /\ message[d] \in Files /\ verdict[d] \in Verdicts
        /\ message[d] \notin listed[d]
        /\ place \in [Files -> Places] /\ pulling \in [Daemons -> PullSteps]
    BY DEF InboxTypes, MessageAtHand
  <2>4. AckTypes' /\ MovingTold'
    BY <2>2, <2>3 DEF AckTypes, MovingTold, AckBy
  <2>5. ASSUME NEW f \in Files \ overtaken, place'[f] \in {"processed", "failed"}
        PROVE  \E c \in Daemons : DoneWith(c, f)' /\ \E v \in Bringing(place'[f]) : AckBy(f, v, c)'
    <3>1. CASE f = message[d]
      <4>1. DoneWith(d, f)'
        BY <2>2, <2>3, <3>1 DEF DoneWith
      <4>2. AckBy(f, verdict[d], d)'
        BY <2>2, <2>5, <3>1 DEF MovingTold, AckBy
      <4>3. verdict[d] \in Bringing(place'[f])
        BY <2>1, <2>3, <3>1 DEF Bringing, Verdicts
      <4> QED
        BY <4>1, <4>2, <4>3
    <3>2. CASE f # message[d]
      <4>1. place'[f] = place[f]
        BY <2>1, <2>3, <3>2
      <4>2. PICK c \in Daemons : DoneWith(c, f) /\ \E v \in Bringing(place[f]) : AckBy(f, v, c)
        BY <2>5, <4>1 DEF MovedTold
      <4>3. DoneWith(c, f)'
        BY <2>5, <4>1, <4>2, DoneStays DEF PullStep
      <4> QED
        BY <2>2, <4>1, <4>2, <4>3 DEF AckBy
    <3> QED
      BY <3>1, <3>2
  <2> QED
    BY <2>2, <2>4, <2>5 DEF MovedTold
<1> QED
  BY <1>1, <1>2

\* Every step keeps the acks of what is moved and about to be.
LEMMA NextAcks == InboxInv /\ [InboxNext]_inboxVars => AckInv'
<1> SUFFICES ASSUME InboxInv, [InboxNext]_inboxVars PROVE AckInv'
  OBVIOUS
<1> USE DEF PullTo, Decide, pullers
<1>0. InboxTypes
  BY DEF InboxInv, PullInv
<1>1. ASSUME NEW f \in Files, Drop(f) PROVE AckInv'
  BY <1>0, <1>1, AckQuiet DEF Drop, InboxTypes
<1>2. ASSUME NEW d \in Daemons, PullStep(d) \/ CutPull(d) \/ RefuseUnread(d) PROVE AckInv'
  <2> USE DEF InboxTypes
  <2>1. CASE \/ StartPull(d) \/ EndPull(d) \/ MarkTruncate(d) \/ MarkWrite(d)
             \/ RefuseUnread(d)
    BY <1>0, <2>1, AckQuiet DEF StartPull, EndPull, MarkTruncate, MarkWrite, RefuseUnread
  <2>2. CASE TakeMessage(d)
    <3>1. PICK g \in listed[d] : message' = [message EXCEPT ![d] = g]
      BY <2>2 DEF TakeMessage
    <3> QED
      BY <1>0, <2>2, <3>1, AckQuiet DEF TakeMessage
  <2>3. CASE ReadMessage(d) \/ CheckSeen(d) \/ Submit(d)
    BY <1>0, <2>3, AckQuiet DEF ReadMessage, CheckSeen, Submit
  <2>4. CASE WriteAck(d)
    BY <1>0, <2>4, AckWritten DEF WriteAck, PullStep
  <2>5. CASE MoveMessage(d)
    BY <2>5, AckMoved
  <2>6. CASE CutPull(d) /\ UNCHANGED ackVars
    BY <1>0, <2>6, AckQuiet DEF CutPull
  <2>7. CASE CutPull(d) /\ pulling[d] = "ack" /\ PutAck(d, "torn")
    BY <1>0, <2>7, AckWritten DEF CutPull
  <2> QED
    BY <1>2, <2>1, <2>2, <2>3, <2>4, <2>5, <2>6, <2>7 DEF PullStep, CutPull
<1>3. CASE UNCHANGED inboxVars
  BY <1>3, AckQuiet DEF inboxVars, ackVars
<1> QED
  BY <1>1, <1>2, <1>3 DEF InboxNext

LEMMA NextInbox == InboxInv /\ [InboxNext]_inboxVars => InboxInv'
BY NextPull, NextAcks DEF InboxInv

LEMMA InboxInvariance == InboxSpec => []InboxInv
BY InitInbox, NextInbox, PTL DEF InboxSpec

\* The inbox keeps its types, and a file at hand is listed no more.
THEOREM InboxTypeCorrect == InboxSpec => []InboxTypeOK
BY InboxInvariance, InboxTypesSplit, PTL DEF InboxInv, PullInv, AckInv

\* A file leaves the inbox as processed only when its payload was submitted and
\* an ack says so, as failed only when its payload is refused or could not be
\* read or saved, and an ack says that: whoever else pulls, and wherever a pull
\* ends, even in the middle of an ack.  Only an ack of another daemon for the
\* same file and of the same second can take the place of the one that counts.
THEOREM NoMessageLost == InboxSpec => []MessagesKept
BY InboxInvariance, KeptFollows, PTL

-----------------------------------------------------------------------------
(* How often a payload is submitted *)

\* The daemons that found the payload not seen and have not submitted it,
\* and those that submitted it and have not begun to remember it.
Submitting(p) == {d \in Daemons : pulling[d] = "submit" /\ Payload(d) = p}
Marking(p) == {d \in Daemons : pulling[d] = "mark" /\ Payload(d) = p}

\* While a payload is not remembered, each of its submissions belongs to a
\* daemon on its way to do so or to a pull that was cut off.  Afterwards only
\* those daemons submit it that looked before.
SubmissionsOf(p) ==
  IF seen[p] = "none"
  THEN submitted[p] <= cutPulls + Cardinality(Marking(p))
  ELSE submitted[p] + Cardinality(Submitting(p)) <= cutPulls + Cardinality(Daemons)

SubmissionsCounted == \A p \in Payloads : SubmissionsOf(p)

\* A daemon that fills a seen file truncated it before.
MarkingSeen == \A d \in Daemons : pulling[d] = "marking" => seen[Payload(d)] # "none"

SubmissionInv == SubmissionsCounted /\ MarkingSeen

\* Two finite sets that differ in d only.
LEMMA OneApart ==
  ASSUME NEW S, NEW T, NEW d, IsFiniteSet(S), IsFiniteSet(T), S \ {d} = T \ {d}
  PROVE  /\ Cardinality(S) \in Nat /\ Cardinality(T) \in Nat
         /\ (d \in S <=> d \in T) => Cardinality(T) = Cardinality(S)
         /\ d \in T /\ d \notin S => Cardinality(T) = Cardinality(S) + 1
         /\ d \in S /\ d \notin T => Cardinality(T) = Cardinality(S) - 1
<1>1. Cardinality(S) \in Nat /\ Cardinality(T) \in Nat
  BY FS_CardinalityType
<1>2. CASE d \in S <=> d \in T
  <2>1. S = T
    BY <1>2
  <2> QED
    BY <1>1, <1>2, <2>1
<1>3. CASE d \in T /\ d \notin S
  <2>1. T = S \union {d}
    BY <1>3
  <2>2. Cardinality(T) = Cardinality(S) + 1
    BY <1>3, <2>1, FS_AddElement
  <2> QED
    BY <1>1, <1>3, <2>2
<1>4. CASE d \in S /\ d \notin T
  <2>1. S = T \union {d}
    BY <1>4
  <2>2. Cardinality(S) = Cardinality(T) + 1
    BY <1>4, <2>1, FS_AddElement
  <2> QED
    BY <1>1, <1>4, <2>2
<1> QED
  BY <1>2, <1>3, <1>4

LEMMA PartsFinite ==
  ASSUME NEW p
  PROVE  /\ IsFiniteSet(Submitting(p)) /\ IsFiniteSet(Marking(p))
         /\ IsFiniteSet(Submitting(p)') /\ IsFiniteSet(Marking(p)')
BY DaemonsFinite, FS_Subset DEF Submitting, Marking

LEMMA OthersStay ==
  ASSUME NEW p, NEW d \in Daemons,
         \A c \in Daemons \ {d} : pulling'[c] = pulling[c] /\ message'[c] = message[c]
  PROVE  /\ Submitting(p) \ {d} = Submitting(p)' \ {d}
         /\ Marking(p) \ {d} = Marking(p)' \ {d}
BY DEF Submitting, Marking, Payload

\* A step of d that submits nothing and remembers nothing new.
LEMMA QuietCount ==
  ASSUME InboxTypes, InboxTypes', NEW p \in Payloads, NEW d \in Daemons, SubmissionsOf(p),
         \A c \in Daemons \ {d} : pulling'[c] = pulling[c] /\ message'[c] = message[c],
         seen'[p] = "none" <=> seen[p] = "none", submitted'[p] = submitted[p],
         \/ cutPulls' = cutPulls /\ (d \in Marking(p) => d \in Marking(p)' \/ seen[p] # "none")
         \/ cutPulls' = cutPulls + 1,
         d \in Submitting(p)' => d \in Submitting(p) \/ seen[p] = "none"
  PROVE  SubmissionsOf(p)'
<1> DEFINE S == Cardinality(Submitting(p))
           M == Cardinality(Marking(p))
           N == Cardinality(Daemons)
<1>1. S \in Nat /\ S' \in Nat /\ M \in Nat /\ M' \in Nat /\ N \in Nat
  BY PartsFinite, DaemonsFinite, FS_CardinalityType
<1>2. /\ d \in Submitting(p)' /\ d \in Submitting(p) => S' = S
      /\ d \notin Submitting(p)' => S' <= S
  BY <1>1, PartsFinite, OthersStay, OneApart
<1>3. /\ d \in Marking(p)' => M <= M'
      /\ d \notin Marking(p) => M <= M'
      /\ M <= M' + 1
  BY <1>1, PartsFinite, OthersStay, OneApart
<1>4. submitted[p] \in Nat /\ cutPulls \in Nat
  BY DEF InboxTypes
<1> HIDE DEF S, M, N
<1>5. IF seen[p] = "none" THEN submitted[p] <= cutPulls + M ELSE submitted[p] + S <= cutPulls + N
  BY DEF SubmissionsOf, S, M, N
<1>6. IF seen'[p] = "none" THEN submitted'[p] <= cutPulls' + M' ELSE submitted'[p] + S' <= cutPulls' + N
  <2>1. CASE seen[p] = "none"
    <3>1. PICK c \in Nat, m \in Nat : c = cutPulls' /\ m = M'
      BY <1>1, InboxTypes' DEF InboxTypes
    <3>2. \/ c = cutPulls /\ M <= m
          \/ c = cutPulls + 1 /\ M <= m + 1
      <4>1. CASE cutPulls' = cutPulls + 1
        BY <1>3, <3>1, <4>1
      <4>2. CASE cutPulls' = cutPulls /\ (d \in Marking(p) => d \in Marking(p)' \/ seen[p] # "none")
        BY <1>3, <2>1, <3>1, <4>2
      <4> QED
        BY <4>1, <4>2
    <3>3. submitted[p] <= cutPulls + M /\ submitted'[p] = submitted[p] /\ seen'[p] = "none"
      BY <1>5, <2>1
    <3>4. submitted[p] <= c + m
      <4>1. PICK n \in Nat, b \in Nat, k \in Nat : n = submitted[p] /\ b = cutPulls /\ k = M
        BY <1>1, <1>4
      <4>2. n <= b + k /\ ((c = b /\ k <= m) \/ (c = b + 1 /\ k <= m + 1))
        BY ONLY <3>2, <3>3, <4>1
      <4>3. n <= c + m
        BY ONLY <4>2
      <4> QED
        BY <4>1, <4>3
    <3> QED
      BY <3>1, <3>3, <3>4
  <2>2. CASE seen[p] # "none"
    BY <1>1, <1>2, <1>4, <1>5, <2>2
  <2> QED
    BY <2>1, <2>2
<1> QED
  BY <1>6 DEF SubmissionsOf, S, M, N

\* A daemon submits the payload.
LEMMA SubmitCount ==
  ASSUME InboxTypes, InboxTypes', NEW p \in Payloads, NEW d \in Daemons, SubmissionsOf(p),
         \A c \in Daemons \ {d} : pulling'[c] = pulling[c] /\ message'[c] = message[c],
         seen' = seen, cutPulls' = cutPulls, submitted'[p] = submitted[p] + 1,
         d \in Submitting(p), d \notin Submitting(p)', d \notin Marking(p), d \in Marking(p)'
  PROVE  SubmissionsOf(p)'
<1> DEFINE S == Cardinality(Submitting(p))
           M == Cardinality(Marking(p))
           N == Cardinality(Daemons)
<1>1. /\ S \in Nat /\ S' \in Nat /\ M \in Nat /\ M' \in Nat /\ N \in Nat
      /\ submitted[p] \in Nat /\ cutPulls \in Nat
  BY PartsFinite, DaemonsFinite, FS_CardinalityType DEF InboxTypes
<1>2. S' = S - 1 /\ M' = M + 1
  BY PartsFinite, OthersStay, OneApart
<1> HIDE DEF S, M, N
<1>3. IF seen[p] = "none" THEN submitted[p] <= cutPulls + M ELSE submitted[p] + S <= cutPulls + N
  BY DEF SubmissionsOf, S, M, N
<1>4. IF seen'[p] = "none" THEN submitted'[p] <= cutPulls' + M' ELSE submitted'[p] + S' <= cutPulls' + N
  BY <1>1, <1>2, <1>3
<1> QED
  BY <1>4 DEF SubmissionsOf, S, M, N

\* A daemon begins to remember the payload.
LEMMA MarkCount ==
  ASSUME InboxTypes, InboxTypes', NEW p \in Payloads, NEW d \in Daemons, SubmissionsOf(p),
         \A c \in Daemons \ {d} : pulling'[c] = pulling[c] /\ message'[c] = message[c],
         seen'[p] # "none", cutPulls' = cutPulls, submitted' = submitted,
         d \in Marking(p), d \notin Submitting(p)'
  PROVE  SubmissionsOf(p)'
<1> DEFINE S == Cardinality(Submitting(p))
           M == Cardinality(Marking(p))
           N == Cardinality(Daemons)
<1>1. /\ S \in Nat /\ S' \in Nat /\ M \in Nat /\ N \in Nat
      /\ submitted[p] \in Nat /\ cutPulls \in Nat
  BY PartsFinite, DaemonsFinite, FS_CardinalityType DEF InboxTypes
<1>2. d \notin Submitting(p)
  BY DEF Marking, Submitting
<1>3. S' = S
  BY <1>2, PartsFinite, OthersStay, OneApart
<1>4. S + M <= N
  <2>1. Marking(p) \cap Submitting(p) = {} /\ Marking(p) \union Submitting(p) \subseteq Daemons
    BY DEF Marking, Submitting
  <2>2. Cardinality(Marking(p) \union Submitting(p)) = M + S - Cardinality({})
    BY <2>1, PartsFinite, FS_Union
  <2>3. Cardinality(Marking(p) \union Submitting(p)) <= N
    BY <2>1, DaemonsFinite, FS_Subset
  <2> QED
    BY <1>1, <2>2, <2>3, FS_EmptySet
<1> HIDE DEF S, M, N
<1>5. IF seen[p] = "none" THEN submitted[p] <= cutPulls + M ELSE submitted[p] + S <= cutPulls + N
  BY DEF SubmissionsOf, S, M, N
<1>6. submitted'[p] + S' <= cutPulls' + N
  BY <1>1, <1>3, <1>4, <1>5
<1> QED
  BY <1>6 DEF SubmissionsOf, S, M, N

LEMMA InitSubmissions == InboxInit => SubmissionInv
<1> SUFFICES ASSUME InboxInit PROVE SubmissionInv
  OBVIOUS
<1>1. ASSUME NEW p \in Payloads PROVE SubmissionsOf(p)
  <2>1. Marking(p) = {}
    BY DEF InboxInit, Marking
  <2> QED
    BY <2>1, FS_EmptySet DEF InboxInit, SubmissionsOf
<1> QED
  BY <1>1 DEF SubmissionInv, SubmissionsCounted, MarkingSeen, InboxInit

\* Only the daemon that takes a step moves on.
LEMMA OtherPulls ==
  ASSUME InboxTypes, NEW d \in Daemons, PullStep(d) \/ CutPull(d) \/ RefuseUnread(d)
  PROVE  \A c \in Daemons \ {d} : pulling'[c] = pulling[c] /\ message'[c] = message[c]
<1> USE DEF InboxTypes, PullTo, Decide, pullers
<1>1. CASE TakeMessage(d)
  <2>1. PICK f : message' = [message EXCEPT ![d] = f]
    BY <1>1 DEF TakeMessage
  <2> QED
    BY <1>1, <2>1 DEF TakeMessage
<1>2. CASE \/ StartPull(d) \/ EndPull(d) \/ MarkTruncate(d) \/ MarkWrite(d) \/ WriteAck(d)
           \/ MoveMessage(d) \/ CutPull(d) \/ RefuseUnread(d)
  BY <1>2 DEF StartPull, EndPull, MarkTruncate, MarkWrite, WriteAck, MoveMessage, CutPull,
     RefuseUnread
<1>3. CASE ReadMessage(d) \/ CheckSeen(d) \/ Submit(d)
  BY <1>3 DEF ReadMessage, CheckSeen, Submit
<1> QED
  BY <1>1, <1>2, <1>3 DEF PullStep

LEMMA NextSubmissions == InboxTypes /\ InboxTypes' /\ SubmissionInv /\ [InboxNext]_inboxVars => SubmissionInv'
<1> SUFFICES ASSUME InboxTypes, InboxTypes', SubmissionInv, [InboxNext]_inboxVars PROVE SubmissionInv'
  OBVIOUS
<1>0. ASSUME UNCHANGED <<seen, submitted, pulling, message, cutPulls>> PROVE SubmissionInv'
  BY <1>0 DEF SubmissionInv, SubmissionsCounted, SubmissionsOf, MarkingSeen, Marking, Submitting, Payload
<1>1. ASSUME NEW d \in Daemons, PullStep(d) \/ CutPull(d) \/ RefuseUnread(d) PROVE SubmissionInv'
  <2>0. \A c \in Daemons \ {d} : pulling'[c] = pulling[c] /\ message'[c] = message[c]
    BY <1>1, OtherPulls
  <2>1. MarkingSeen'
    <3> USE DEF SubmissionInv, MarkingSeen, InboxTypes, PullTo, Decide, pullers, history, Payload
    <3>1. CASE TakeMessage(d)
      <4>1. pulling'[d] = "read" /\ seen' = seen
        BY <3>1 DEF TakeMessage
      <4> QED
        BY <2>0, <4>1
    <3>2. CASE MarkTruncate(d) \/ MarkWrite(d)
      <4>1. PICK state \in {"torn", "whole"} : seen' = [seen EXCEPT ![Payload(d)] = state]
        BY <3>2 DEF MarkTruncate, MarkWrite
      <4>2. message' = message /\ pulling'[d] \in {"marking", "ack"}
        BY <3>2 DEF MarkTruncate, MarkWrite
      <4>3. pulling'[d] = "marking" => seen'[Payload(d)] # "none"
        BY <4>1, PayloadsAssumption
      <4> QED
        BY <2>0, <4>1, <4>2, <4>3, PayloadsAssumption
    <3>3. CASE StartPull(d) \/ EndPull(d) \/ WriteAck(d) \/ MoveMessage(d) \/ CutPull(d) \/ RefuseUnread(d)
      BY <3>3 DEF StartPull, EndPull, WriteAck, MoveMessage, CutPull, RefuseUnread
    <3>4. CASE ReadMessage(d) \/ CheckSeen(d) \/ Submit(d)
      BY <3>4 DEF ReadMessage, CheckSeen, Submit
    <3> QED
      BY <1>1, <3>1, <3>2, <3>3, <3>4 DEF PullStep
  <2>2. ASSUME NEW p \in Payloads PROVE SubmissionsOf(p)'
    <3>0. SubmissionsOf(p)
      BY DEF SubmissionInv, SubmissionsCounted
    <3> USE DEF InboxTypes, PullTo, Decide, pullers, history, Payload, Submitting, Marking
    <3>1. CASE TakeMessage(d)
      <4>1. /\ pulling[d] = "scan" /\ pulling'[d] = "read"
            /\ UNCHANGED <<seen, submitted, cutPulls>>
        BY <3>1 DEF TakeMessage
      <4> QED
        BY <2>0, <3>0, <4>1, QuietCount
    <3>2. CASE StartPull(d) \/ EndPull(d) \/ WriteAck(d) \/ MoveMessage(d) \/ ReadMessage(d)
      <4>1. /\ pulling[d] # "mark" /\ pulling'[d] # "submit"
            /\ UNCHANGED <<seen, submitted, cutPulls>>
        BY <3>2 DEF StartPull, EndPull, WriteAck, MoveMessage, ReadMessage
      <4> QED
        BY <2>0, <3>0, <4>1, QuietCount
    <3>3. CASE CutPull(d) \/ RefuseUnread(d)
      <4>1. /\ pulling'[d] # "submit" /\ cutPulls' = cutPulls + 1
            /\ UNCHANGED <<seen, submitted>>
        BY <3>3 DEF CutPull, RefuseUnread
      <4> QED
        BY <2>0, <3>0, <4>1, QuietCount
    <3>4. CASE CheckSeen(d)
      <4>1. /\ pulling[d] = "seen" /\ message' = message
            /\ pulling'[d] = "submit" => seen[Payload(d)] = "none"
            /\ UNCHANGED <<seen, submitted, cutPulls>>
        BY <3>4 DEF CheckSeen
      <4> QED
        BY <2>0, <3>0, <4>1, QuietCount
    <3>5. CASE Submit(d)
      <4>1. /\ pulling[d] = "submit" /\ pulling'[d] # "submit"
            /\ UNCHANGED <<seen, cutPulls, message>>
        BY <3>5 DEF Submit
      <4>2. CASE submitted'[p] = submitted[p]
        BY <2>0, <3>0, <4>1, <4>2, QuietCount
      <4>3. CASE submitted'[p] # submitted[p]
        <5>1. Payload(d) = p /\ submitted'[p] = submitted[p] + 1 /\ pulling'[d] = "mark"
          BY <3>5, <4>3 DEF Submit
        <5> QED
          BY <2>0, <3>0, <4>1, <5>1, SubmitCount
      <4> QED
        BY <4>2, <4>3
    <3>6. CASE MarkTruncate(d)
      <4>1. /\ pulling[d] = "mark" /\ pulling'[d] = "marking"
            /\ seen' = [seen EXCEPT ![Payload(d)] = "torn"]
            /\ UNCHANGED <<submitted, cutPulls, message>>
        BY <3>6 DEF MarkTruncate
      <4>2. CASE Payload(d) = p
        BY <2>0, <3>0, <4>1, <4>2, MarkCount
      <4>3. CASE Payload(d) # p
        BY <2>0, <3>0, <4>1, <4>3, QuietCount
      <4> QED
        BY <4>2, <4>3
    <3>7. CASE MarkWrite(d)
      <4>1. /\ pulling[d] = "marking" /\ pulling'[d] = "ack"
            /\ seen' = [seen EXCEPT ![Payload(d)] = "whole"]
            /\ UNCHANGED <<submitted, cutPulls, message>>
        BY <3>7 DEF MarkWrite
      <4>2. seen[Payload(d)] # "none"
        BY <4>1 DEF SubmissionInv, MarkingSeen
      <4>3. seen'[p] = "none" <=> seen[p] = "none"
        BY <4>1, <4>2
      <4> QED
        BY <2>0, <3>0, <4>1, <4>3, QuietCount
    <3> QED
      BY <1>1, <3>1, <3>2, <3>3, <3>4, <3>5, <3>6, <3>7 DEF PullStep
  <2> QED
    BY <2>1, <2>2 DEF SubmissionInv, SubmissionsCounted
<1>2. ASSUME NEW f \in Files, Drop(f) PROVE SubmissionInv'
  BY <1>0, <1>2 DEF Drop, pullers, history
<1>3. CASE UNCHANGED inboxVars
  BY <1>0, <1>3 DEF inboxVars
<1> QED
  BY <1>1, <1>2, <1>3 DEF InboxNext

\* However often a payload is dropped, it is submitted once: but for daemons
\* that looked before it was remembered, one time each, and for pulls that
\* ended between the submission and the mark.
THEOREM SubmissionsBounded == InboxSpec => []SubmittedBounded
<1>1. InboxSpec => []SubmissionInv
  BY InitSubmissions, NextSubmissions, InboxInvariance, PTL DEF InboxSpec, InboxInv, PullInv
<1>2. InboxTypes /\ SubmissionInv => SubmittedBounded
  <2> SUFFICES ASSUME InboxTypes, SubmissionInv, NEW p \in Payloads
               PROVE  submitted[p] <= Cardinality(Daemons) + cutPulls
    BY DEF SubmittedBounded
  <2>1. SubmissionsOf(p)
    BY DEF SubmissionInv, SubmissionsCounted
  <2>2. Marking(p) \subseteq Daemons
    BY DEF Marking
  <2>3. /\ Cardinality(Marking(p)) <= Cardinality(Daemons)
        /\ Cardinality(Marking(p)) \in Nat /\ Cardinality(Daemons) \in Nat
        /\ Cardinality(Submitting(p)) \in Nat
    BY <2>2, PartsFinite, DaemonsFinite, FS_Subset, FS_CardinalityType
  <2>4. submitted[p] \in Nat /\ cutPulls \in Nat
    BY DEF InboxTypes
  <2> QED
    BY <2>1, <2>3, <2>4 DEF SubmissionsOf
<1>3. InboxSpec => []InboxTypes
  BY InboxInvariance, PTL DEF InboxInv, PullInv
<1> QED
  BY <1>1, <1>2, <1>3, PTL

-----------------------------------------------------------------------------
(* The outbox *)

\* As much of the types as the invariant needs.
OutboxTypes ==
  /\ written \in [Events -> Nat]
  /\ outbox \in [Events -> Nat]
  /\ sent \in [Events -> SUBSET Nat]
  /\ dead \in [Events -> SUBSET Nat]
  /\ event \in [Daemons -> Events]
  /\ items \in [Daemons -> SUBSET Events]

OutboxInv == OutboxTypes /\ EventsKept

\* OutboxInit => OutboxInv
LEMMA InitOutbox == OutboxInit => OutboxInv
BY RetryAssumption DEF OutboxInit, OutboxInv, OutboxTypes, EventsKept

\* Every step keeps the invariant.
LEMMA NextOutbox == OutboxInv /\ [OutboxNext]_outboxVars => OutboxInv'
<1> SUFFICES ASSUME OutboxInv, [OutboxNext]_outboxVars PROVE OutboxInv'
  OBVIOUS
<1> USE DEF OutboxInv, OutboxTypes, EventsKept, PushTo, outboxHistory, pushers
<1>1. ASSUME NEW d \in Daemons, PushStep(d) \/ CutPush(d) PROVE OutboxInv'
  <2>1. CASE StartPush(d) \/ EndPush(d) \/ TakeEvent(d)
    <3>1. UNCHANGED <<written, outbox, sent, dead>>
      BY <2>1 DEF StartPush, EndPush, TakeEvent
    <3>2. items' \in [Daemons -> SUBSET Events]
      BY <2>1 DEF StartPush, EndPush, TakeEvent
    <3>3. CASE TakeEvent(d)
      <4>1. PICK e \in items[d] : event' \in {event, [event EXCEPT ![d] = e]}
        BY <3>3 DEF TakeEvent
      <4> QED
        BY <3>1, <3>2, <4>1
    <3>4. CASE StartPush(d) \/ EndPush(d)
      BY <3>1, <3>2, <3>4 DEF StartPush, EndPush
    <3> QED
      BY <2>1, <3>3, <3>4
  <2>2. CASE ReadEvent(d) \/ Post(d) \/ ClearRetry(d) \/ CutPush(d)
    BY <2>2 DEF ReadEvent, Post, ClearRetry, CutPush
  <2>3. CASE MoveSent(d)
    BY <2>3 DEF MoveSent
  <2>4. CASE RegisterFailure(d) \/ TruncateRetry(d) \/ WriteRetry(d) \/ ForgetRetry(d)
    BY <2>4 DEF RegisterFailure, TruncateRetry, WriteRetry, ForgetRetry
  <2>5. CASE Bury(d)
    BY <2>5 DEF Bury
  <2> QED
    BY <1>1, <2>1, <2>2, <2>3, <2>4, <2>5 DEF PushStep
<1>2. ASSUME NEW d \in Daemons, NEW e \in Events, RecordCompletion(d, e) PROVE OutboxInv'
  BY <1>2 DEF RecordCompletion
<1>3. CASE Tick
  BY <1>3 DEF Tick
<1>4. CASE UNCHANGED outboxVars
  BY <1>4 DEF outboxVars
<1> QED
  BY <1>1, <1>2, <1>3, <1>4 DEF OutboxNext

LEMMA OutboxInvariance == OutboxSpec => []OutboxInv
BY InitOutbox, NextOutbox, PTL DEF OutboxSpec

\* The last completion written of every event is in the outbox, in sent or in
\* dead.
THEOREM NoEventLost == OutboxSpec => []EventsKept
BY OutboxInvariance, PTL DEF OutboxInv

-----------------------------------------------------------------------------
(* OutboxTypes *)

RetryFiles ==
  {NoRetry, Torn} \union {Retry(n, w) : n \in 1 .. MaxAttempts - 1, w \in -MaxLag .. MaxDelay}

\* A daemon about to put an event off has not used up its attempts, and one
\* about to post has a version in hand.
Underway ==
  \A d \in Daemons :
    /\ pushing[d] \in {"put off", "rewrite"} => tries[d] \in 1 .. MaxAttempts - 1
    /\ pushing[d] = "post" => body[d] # 0

\* A power of two is a number: the number of subsets of so many elements.
LEMMA PowerOfTwo == ASSUME NEW k \in Nat PROVE 2 ^ k \in Nat \ {0}
<1>1. IsFiniteSet(1 .. k) /\ Cardinality(1 .. k) = k
  <2>1. 1 \in Int /\ k \in Int
    OBVIOUS
  <2>2. IsFiniteSet(1 .. k) /\ Cardinality(1 .. k) = IF 1 > k THEN 0 ELSE k - 1 + 1
    BY ONLY <2>1, FS_Interval
  <2> QED
    BY <2>2
<1>2. IsFiniteSet(SUBSET (1 .. k)) /\ Cardinality(SUBSET (1 .. k)) = 2 ^ k
  BY ONLY <1>1, FS_SUBSET
<1>3. Cardinality(SUBSET (1 .. k)) \in Nat /\ Cardinality(SUBSET (1 .. k)) # 0
  <2>1. SUBSET (1 .. k) # {}
    OBVIOUS
  <2> QED
    BY ONLY <1>2, <2>1, FS_CardinalityType, FS_EmptySet
<1> QED
  BY <1>2, <1>3

\* The back-off stays within its limit however many failures there were.
LEMMA BackoffBounded == ASSUME NEW n \in Nat \ {0} PROVE Backoff(n) \in 1 .. MaxDelay
<1>1. Least(n - 1, 20) \in Nat
  BY DEF Least
<1>2. PICK k \in Nat : k = 2 ^ Least(n - 1, 20) /\ k # 0
  BY <1>1, PowerOfTwo
<1>3. BaseDelay * k \in Nat \ {0}
  BY <1>2, RetryAssumption
<1> QED
  BY <1>2, <1>3, RetryAssumption DEF Backoff, Least

\* The types of everything but the retry files, their ranges named.
Held == 0 .. MaxVersions
Kept == SUBSET Versions
Counts == [Versions -> Nat]
Tries == 0 .. MaxAttempts
Lags == 0 .. MaxLag
Cuts == 0 .. MaxCutPushes

Plain ==
  /\ written \in [Events -> Held]
  /\ outbox \in [Events -> Held]
  /\ sent \in [Events -> Kept]
  /\ dead \in [Events -> Kept]
  /\ posted \in [Events -> Counts]
  /\ registered \in [Events -> Nat]
  /\ pushing \in [Daemons -> PushSteps]
  /\ items \in [Daemons -> SUBSET Events]
  /\ event \in [Daemons -> Events]
  /\ body \in [Daemons -> Held]
  /\ tries \in [Daemons -> Tries]
  /\ lag \in [Daemons -> Lags]
  /\ cutPushes \in Cuts

\* A torn retry file is being rewritten, or a push was cut off.
TornExplained ==
  \A e \in Events : retry[e] = Torn =>
    cutPushes > 0 \/ \E d \in Daemons : event[d] = e /\ pushing[d] = "rewrite"

TypesInv == Plain /\ retry \in [Events -> RetryFiles] /\ TornExplained /\ Underway

LEMMA TypesSuffice == TypesInv => OutboxTypeOK
BY DEF TypesInv, OutboxTypeOK, Plain, TornExplained, RetryFiles, Held, Kept, Counts, Tries, Lags, Cuts

LEMMA InitTypes == OutboxInit => TypesInv
<1> SUFFICES ASSUME OutboxInit PROVE TypesInv
  OBVIOUS
<1>1. NoRetry # Torn /\ NoRetry \in RetryFiles
  BY DEF NoRetry, Torn, RetryFiles
<1>2. retry \in [Events -> RetryFiles] /\ TornExplained
  BY <1>1 DEF OutboxInit, TornExplained
<1>3. Plain
  BY RetryAssumption DEF OutboxInit, Plain, PushSteps, Held, Kept, Counts, Tries, Lags, Cuts
<1>4. Underway
  BY DEF OutboxInit, Underway
<1> QED
  BY <1>2, <1>3, <1>4 DEF TypesInv

\* What a retry file holds.
LEMMA RetryFile ==
  ASSUME NEW r \in RetryFiles
  PROVE  /\ r.attempts \in 0 .. MaxAttempts - 1 /\ r.state \in {"none", "torn", "set"}
         /\ r.state = "torn" <=> r = Torn
         /\ r.state = "set" => r.wait \in -MaxLag .. MaxDelay /\ r = Retry(r.attempts, r.wait)
                               /\ r.attempts \in 1 .. MaxAttempts - 1
BY RetryAssumption DEF RetryFiles, NoRetry, Torn, Retry

\* What the steps put into those ranges.
LEMMA Ranges ==
  /\ 0 \in Held /\ 0 \in Lags
  /\ \A n \in Held : n < MaxVersions => n + 1 \in Held
  /\ \A n \in Held, S \in Kept : n # 0 => S \union {n} \in Kept
  /\ \A c \in Counts, n \in Held : n # 0 => [c EXCEPT ![n] = @ + 1] \in Counts
  /\ \A n \in Lags : n < MaxLag => n + 1 \in Lags
  /\ \A n \in Cuts : n < MaxCutPushes => n + 1 \in Cuts
  /\ \A n \in Nat : n + 1 \in Nat
BY RetryAssumption DEF Held, Kept, Counts, Lags, Cuts, Versions

\* The steps keep the types of the other variables.
LEMMA NextPlain ==
  Plain /\ retry \in [Events -> RetryFiles] /\ [OutboxNext]_outboxVars /\ Underway => Plain'
<1> SUFFICES ASSUME Plain, retry \in [Events -> RetryFiles], [OutboxNext]_outboxVars, Underway
             PROVE  Plain'
  OBVIOUS
<1> USE DEF Plain, PushTo, PushSteps, outboxHistory, pushers
<1>1. ASSUME NEW d \in Daemons, PushStep(d) \/ CutPush(d) PROVE Plain'
  <2>1. CASE StartPush(d) \/ EndPush(d)
    BY <2>1, Ranges DEF StartPush, EndPush
  <2>2. CASE TakeEvent(d)
    <3>1. PICK e \in items[d] : event' \in {event, [event EXCEPT ![d] = e]}
      BY <2>2 DEF TakeEvent
    <3>2. PICK step \in {"idle", "scan", "read"} : pushing' \in {pushing, [pushing EXCEPT ![d] = step]}
      BY <2>2 DEF TakeEvent
    <3>3. PICK left \in SUBSET Events : items' = [items EXCEPT ![d] = left]
      BY <2>2 DEF TakeEvent
    <3>4. UNCHANGED <<written, outbox, sent, dead, posted, registered, body, tries, lag, cutPushes>>
      BY <2>2 DEF TakeEvent
    <3> QED
      BY <3>1, <3>2, <3>3, <3>4
  <2>3. CASE ReadEvent(d)
    BY <2>3 DEF ReadEvent
  <2>4. CASE Post(d)
    <3>1. PICK taken \in BOOLEAN :
            posted' = IF taken THEN [posted EXCEPT ![event[d]][body[d]] = @ + 1] ELSE posted
      BY <2>4 DEF Post
    <3>2. PICK step \in {"clear", "fail"} : pushing' = [pushing EXCEPT ![d] = step]
      BY <2>4 DEF Post
    <3>3. body[d] \in Held /\ body[d] # 0 /\ event[d] \in Events
      BY <2>4 DEF Post, Underway
    <3>4. [posted[event[d]] EXCEPT ![body[d]] = @ + 1] \in Counts
      BY <3>3, Ranges
    <3>5. posted' \in [Events -> Counts]
      BY <3>1, <3>3, <3>4
    <3>6. UNCHANGED <<written, outbox, sent, dead, registered, retry, items, event, body, tries,
                      lag, cutPushes>>
      BY <2>4 DEF Post
    <3> QED
      BY <3>2, <3>5, <3>6
  <2>5. CASE ClearRetry(d) \/ TruncateRetry(d) \/ ForgetRetry(d)
    BY <2>5 DEF ClearRetry, TruncateRetry, ForgetRetry
  <2>6. CASE CutPush(d)
    BY <2>6, Ranges DEF CutPush
  <2>7. CASE WriteRetry(d)
    BY <2>7 DEF WriteRetry
  <2>8. CASE MoveSent(d)
    <3>1. outbox[event[d]] \in Held /\ sent[event[d]] \in Kept /\ 0 \in Held
      BY Ranges
    <3>2. outbox[event[d]] # 0 => sent[event[d]] \union {outbox[event[d]]} \in Kept
      BY <3>1, Ranges
    <3>3. sent' \in [Events -> Kept] /\ outbox' \in [Events -> Held]
      BY <2>8, <3>1, <3>2 DEF MoveSent
    <3>4. /\ pushing' \in [Daemons -> PushSteps]
          /\ UNCHANGED <<written, dead, posted, registered, items, event, body, tries, lag, cutPushes>>
      BY <2>8 DEF MoveSent
    <3> QED
      BY <3>3, <3>4
  <2>9. CASE Bury(d)
    <3>1. outbox[event[d]] \in Held /\ dead[event[d]] \in Kept /\ 0 \in Held
      BY Ranges
    <3>2. outbox[event[d]] # 0 => dead[event[d]] \union {outbox[event[d]]} \in Kept
      BY <3>1, Ranges
    <3>3. dead' \in [Events -> Kept] /\ outbox' \in [Events -> Held]
      BY <2>9, <3>1, <3>2 DEF Bury
    <3>4. /\ pushing' \in [Daemons -> PushSteps]
          /\ UNCHANGED <<written, sent, posted, registered, items, event, body, tries, lag, cutPushes>>
      BY <2>9 DEF Bury
    <3> QED
      BY <3>3, <3>4
  <2>10. CASE RegisterFailure(d)
    <3>1. event[d] \in Events /\ retry[event[d]] \in RetryFiles
      OBVIOUS
    <3>2. retry[event[d]].attempts \in 0 .. MaxAttempts - 1
      BY ONLY <3>1, RetryFile
    <3>3. retry[event[d]].attempts + 1 \in Tries
      BY ONLY <3>2, RetryAssumption DEF Tries
    <3>4. tries' \in [Daemons -> Tries]
      BY <2>10, <3>3 DEF RegisterFailure
    <3>5. /\ registered' \in {registered, [registered EXCEPT ![event[d]] = @ + 1]}
          /\ UNCHANGED <<written, outbox, sent, dead, posted, items, event, body, lag, cutPushes>>
      BY <2>10 DEF RegisterFailure
    <3>6. PICK step \in {"idle", "bury", "put off"} : pushing' = [pushing EXCEPT ![d] = step]
      BY <2>10 DEF RegisterFailure
    <3>7. registered' \in [Events -> Nat]
      <4>1. registered \in [Events -> Nat]
        OBVIOUS
      <4>2. registered[event[d]] \in Nat
        BY ONLY <3>1, <4>1
      <4> QED
        BY ONLY <3>1, <3>5, <4>1, <4>2, Ranges
    <3> QED
      BY <3>4, <3>5, <3>6, <3>7
  <2> QED
    BY <1>1, <2>1, <2>2, <2>3, <2>4, <2>5, <2>6, <2>7, <2>8, <2>9, <2>10 DEF PushStep
<1>2. ASSUME NEW d \in Daemons, NEW e \in Events, RecordCompletion(d, e) PROVE Plain'
  BY <1>2, Ranges DEF RecordCompletion
<1>3. CASE Tick
  <2>1. lag' \in [Daemons -> Lags]
    BY <1>3, Ranges DEF Tick
  <2> QED
    BY <1>3, <2>1 DEF Tick
<1>4. CASE UNCHANGED outboxVars
  BY <1>4 DEF outboxVars
<1> QED
  BY <1>1, <1>2, <1>3, <1>4 DEF OutboxNext

\* Another one than d is where it was, with what it had in hand.
LEMMA OtherPushes ==
  ASSUME Plain, NEW d \in Daemons, PushStep(d) \/ CutPush(d)
  PROVE  \A c \in Daemons \ {d} :
           UNCHANGED <<pushing[c], event[c], body[c], tries[c], lag[c]>>
<1> USE DEF Plain, PushTo, pushers
<1>1. CASE TakeEvent(d)
  <2>1. PICK e : event' \in {event, [event EXCEPT ![d] = e]}
    BY <1>1 DEF TakeEvent
  <2>2. PICK step : pushing' \in {pushing, [pushing EXCEPT ![d] = step]}
    BY <1>1 DEF TakeEvent
  <2> QED
    BY <1>1, <2>1, <2>2 DEF TakeEvent
<1>2. CASE StartPush(d) \/ EndPush(d) \/ ReadEvent(d) \/ ClearRetry(d) \/ MoveSent(d)
  BY <1>2 DEF StartPush, EndPush, ReadEvent, ClearRetry, MoveSent
<1>3. CASE TruncateRetry(d) \/ WriteRetry(d) \/ Bury(d) \/ ForgetRetry(d) \/ CutPush(d)
  BY <1>3 DEF TruncateRetry, WriteRetry, Bury, ForgetRetry, CutPush
<1>4. CASE Post(d)
  <2>1. PICK step : pushing' = [pushing EXCEPT ![d] = step]
    BY <1>4 DEF Post
  <2> QED
    BY <1>4, <2>1 DEF Post
<1>5. CASE RegisterFailure(d)
  <2>1. PICK step, n : pushing' = [pushing EXCEPT ![d] = step] /\ tries' = [tries EXCEPT ![d] = n]
    BY <1>5 DEF RegisterFailure
  <2> QED
    BY <1>5, <2>1 DEF RegisterFailure
<1> QED
  BY <1>1, <1>2, <1>3, <1>4, <1>5 DEF PushStep

\* An event is put off only while it has attempts left.
LEMMA NextUnderway ==
  Plain /\ retry \in [Events -> RetryFiles] /\ [OutboxNext]_outboxVars /\ Underway => Underway'
<1> SUFFICES ASSUME Plain, retry \in [Events -> RetryFiles], [OutboxNext]_outboxVars, Underway
             PROVE  Underway'
  OBVIOUS
<1>0. ASSUME UNCHANGED <<pushing, body, tries>> PROVE Underway'
  BY <1>0 DEF Underway
<1>1. ASSUME NEW d \in Daemons, PushStep(d) \/ CutPush(d) PROVE Underway'
  <2>1. ASSUME /\ pushing'[d] \in {"put off", "rewrite"} => tries'[d] \in 1 .. MaxAttempts - 1
               /\ pushing'[d] = "post" => body'[d] # 0
        PROVE  Underway'
    BY <1>1, <2>1, OtherPushes DEF Underway
  <2> USE DEF Plain, PushTo, pushers
  <2>2. CASE StartPush(d) \/ EndPush(d) \/ ClearRetry(d) \/ MoveSent(d) \/ Bury(d)
    BY <2>1, <2>2 DEF StartPush, EndPush, ClearRetry, MoveSent, Bury
  <2>3. CASE TakeEvent(d)
    <3>1. pushing'[d] \in {"idle", "scan", "read"}
      BY <2>3 DEF TakeEvent
    <3> QED
      BY <2>1, <3>1
  <2>4. CASE ReadEvent(d)
    <3>1. pushing'[d] \in {"post", "fail"} /\ (pushing'[d] = "post" => body'[d] # 0)
      BY <2>4 DEF ReadEvent
    <3> QED
      BY <2>1, <3>1
  <2>5. CASE Post(d)
    <3>1. pushing'[d] \in {"clear", "fail"}
      BY <2>5 DEF Post
    <3> QED
      BY <2>1, <3>1
  <2>6. CASE WriteRetry(d) \/ ForgetRetry(d) \/ CutPush(d)
    BY <2>1, <2>6 DEF WriteRetry, ForgetRetry, CutPush
  <2>7. CASE TruncateRetry(d)
    <3>1. pushing[d] = "put off" /\ pushing'[d] = "rewrite" /\ tries' = tries
      BY <2>7 DEF TruncateRetry
    <3> QED
      BY <2>1, <3>1 DEF Underway
  <2>8. CASE RegisterFailure(d)
    <3>1. event[d] \in Events /\ retry[event[d]] \in RetryFiles
      OBVIOUS
    <3>2. retry[event[d]].attempts \in 0 .. MaxAttempts - 1
      BY ONLY <3>1, RetryFile
    <3>3. tries'[d] = retry[event[d]].attempts + 1
      BY <2>8 DEF RegisterFailure
    <3>4. /\ pushing'[d] \in {"idle", "bury", "put off"}
          /\ pushing'[d] = "put off" => ~(retry[event[d]].attempts + 1 >= MaxAttempts)
      <4>1. CASE retry[event[d]].state = "torn"
        BY <2>8, <4>1 DEF RegisterFailure
      <4>2. CASE retry[event[d]].state # "torn"
        BY <2>8, <4>2 DEF RegisterFailure
      <4> QED
        BY <4>1, <4>2
    <3>5. pushing'[d] = "put off" => tries'[d] \in 1 .. MaxAttempts - 1
      <4>1. PICK n : n = retry[event[d]].attempts
        OBVIOUS
      <4>2. n \in 0 .. MaxAttempts - 1 /\ MaxAttempts \in Nat
        BY ONLY <3>2, <4>1, RetryAssumption
      <4>3. ~(n + 1 >= MaxAttempts) => n + 1 \in 1 .. MaxAttempts - 1
        BY ONLY <4>2
      <4> QED
        BY ONLY <3>3, <3>4, <4>1, <4>3
    <3> QED
      BY <2>1, <3>4, <3>5
  <2> QED
    BY <1>1, <2>2, <2>3, <2>4, <2>5, <2>6, <2>7, <2>8 DEF PushStep
<1>2. ASSUME NEW d \in Daemons, NEW e \in Events, RecordCompletion(d, e) PROVE Underway'
  BY <1>0, <1>2 DEF RecordCompletion, pushers
<1>3. CASE Tick \/ UNCHANGED outboxVars
  BY <1>0, <1>3 DEF Tick, outboxVars
<1> QED
  BY <1>1, <1>2, <1>3 DEF OutboxNext

\* What the steps put into a retry file.
LEMMA RetryValues ==
  /\ NoRetry \in RetryFiles /\ Torn \in RetryFiles /\ NoRetry # Torn
  /\ \A n \in 1 .. MaxAttempts - 1, late \in 0 .. MaxLag :
       Retry(n, Backoff(n) - late) \in RetryFiles /\ Retry(n, Backoff(n) - late) # Torn
<1>1. ASSUME NEW n \in 1 .. MaxAttempts - 1, NEW late \in 0 .. MaxLag
      PROVE  Retry(n, Backoff(n) - late) \in RetryFiles /\ Retry(n, Backoff(n) - late) # Torn
  <2>1. PICK b \in 1 .. MaxDelay : b = Backoff(n)
    BY RetryAssumption, BackoffBounded
  <2>2. b - late \in -MaxLag .. MaxDelay
    BY RetryAssumption
  <2> QED
    BY <2>1, <2>2 DEF RetryFiles, Retry, Torn
<1> QED
  BY <1>1 DEF RetryFiles, NoRetry, Torn

\* A tick brings the next attempt nearer and leaves a torn file torn.
LEMMA TickedFile ==
  ASSUME NEW r \in RetryFiles, NEW s,
         s = IF r.state = "set" /\ r.wait > -MaxLag THEN [r EXCEPT !.wait = @ - 1] ELSE r
  PROVE  s \in RetryFiles /\ (s = Torn <=> r = Torn) /\ s.state = r.state
<1>1. CASE r.state = "set" /\ r.wait > -MaxLag
  <2>1. PICK n \in 1 .. MaxAttempts - 1, w \in -MaxLag .. MaxDelay : r = Retry(n, w)
    BY <1>1, RetryFile
  <2>2. s = Retry(n, w - 1) /\ w > -MaxLag
    BY <1>1, <2>1 DEF Retry
  <2>3. w - 1 \in -MaxLag .. MaxDelay
    BY <2>2, RetryAssumption
  <2> QED
    BY <2>1, <2>2, <2>3 DEF RetryFiles, Retry, Torn
<1> QED
  BY <1>1

LEMMA NextRetries ==
  Plain /\ retry \in [Events -> RetryFiles] /\ [OutboxNext]_outboxVars /\ Underway /\ TornExplained
  => retry' \in [Events -> RetryFiles] /\ TornExplained'
<1> SUFFICES ASSUME Plain, retry \in [Events -> RetryFiles], [OutboxNext]_outboxVars, Underway,
                    TornExplained
             PROVE  retry' \in [Events -> RetryFiles] /\ TornExplained'
  OBVIOUS
<1>0. ASSUME UNCHANGED <<retry, pushing, event, cutPushes>>
      PROVE  retry' \in [Events -> RetryFiles] /\ TornExplained'
  BY <1>0 DEF TornExplained
<1>1. ASSUME NEW d \in Daemons, PushStep(d) \/ CutPush(d)
      PROVE  retry' \in [Events -> RetryFiles] /\ TornExplained'
  <2>0. \A c \in Daemons \ {d} : UNCHANGED <<pushing[c], event[c]>>
    BY <1>1, OtherPushes
  <2>1. event[d] \in Events /\ cutPushes \in 0 .. MaxCutPushes
    BY DEF Plain, Cuts
  <2>2. CASE \/ StartPush(d) \/ EndPush(d) \/ TakeEvent(d) \/ ReadEvent(d) \/ Post(d)
             \/ MoveSent(d) \/ RegisterFailure(d) \/ Bury(d)
    <3>1. pushing[d] # "rewrite" /\ retry' = retry /\ cutPushes' = cutPushes
      BY <2>2 DEF StartPush, EndPush, TakeEvent, ReadEvent, Post, MoveSent, RegisterFailure, Bury
    <3> QED
      BY <2>0, <3>1 DEF TornExplained
  <2>3. CASE ClearRetry(d) \/ ForgetRetry(d)
    <3>1. /\ pushing[d] # "rewrite" /\ retry' = [retry EXCEPT ![event[d]] = NoRetry]
          /\ cutPushes' = cutPushes
      BY <2>3 DEF ClearRetry, ForgetRetry
    <3> QED
      BY <2>0, <2>1, <3>1, RetryValues DEF TornExplained
  <2>4. CASE TruncateRetry(d)
    <3>1. /\ pushing'[d] = "rewrite" /\ event' = event
          /\ retry' = [retry EXCEPT ![event[d]] = Torn] /\ cutPushes' = cutPushes
      BY <2>4 DEF TruncateRetry, PushTo, pushers, Plain
    <3> QED
      BY <2>0, <2>1, <3>1, RetryValues DEF TornExplained
  <2>5. CASE WriteRetry(d)
    <3>1. PICK late \in 0 .. lag[d] :
            retry' = [retry EXCEPT ![event[d]] = Retry(tries[d], Backoff(tries[d]) - late)]
      BY <2>5 DEF WriteRetry
    <3>2. tries[d] \in 1 .. MaxAttempts - 1 /\ lag[d] \in 0 .. MaxLag
      BY <2>5 DEF WriteRetry, Underway, Plain, Lags
    <3>3. PICK r \in RetryFiles : r # Torn /\ retry' = [retry EXCEPT ![event[d]] = r]
      <4>1. late \in 0 .. MaxLag
        BY <3>2, RetryAssumption
      <4> QED
        BY ONLY <3>1, <3>2, <4>1, RetryValues
    <3>4. event' = event /\ cutPushes' = cutPushes
      BY <2>5 DEF WriteRetry, pushers
    <3> QED
      BY <2>0, <2>1, <3>3, <3>4 DEF TornExplained
  <2>6. CASE CutPush(d)
    <3>1. retry' = retry /\ cutPushes' = cutPushes + 1
      BY <2>6 DEF CutPush
    <3>2. cutPushes' > 0
      BY <2>1, <3>1
    <3> QED
      BY <3>1, <3>2 DEF TornExplained
  <2> QED
    BY <1>1, <2>2, <2>3, <2>4, <2>5, <2>6 DEF PushStep
<1>2. ASSUME NEW d \in Daemons, NEW e \in Events, RecordCompletion(d, e)
      PROVE  retry' \in [Events -> RetryFiles] /\ TornExplained'
  BY <1>0, <1>2 DEF RecordCompletion, pushers
<1>3. CASE Tick
  <2>1. retry' = [e \in Events |->
                    IF retry[e].state = "set" /\ retry[e].wait > -MaxLag
                    THEN [retry[e] EXCEPT !.wait = @ - 1] ELSE retry[e]]
    BY <1>3 DEF Tick
  <2>2. \A e \in Events : retry'[e] \in RetryFiles /\ (retry'[e] = Torn <=> retry[e] = Torn)
    BY <2>1, TickedFile
  <2>3. UNCHANGED <<pushing, event, cutPushes>>
    BY <1>3 DEF Tick
  <2> QED
    BY <2>1, <2>2, <2>3 DEF TornExplained
<1>4. CASE UNCHANGED outboxVars
  BY <1>0, <1>4 DEF outboxVars
<1> QED
  BY <1>1, <1>2, <1>3, <1>4 DEF OutboxNext

LEMMA NextTypes == TypesInv /\ [OutboxNext]_outboxVars => TypesInv'
BY NextPlain, NextUnderway, NextRetries DEF TypesInv

LEMMA TypesInvariant == OutboxSpec => []TypesInv
BY InitTypes, NextTypes, PTL DEF OutboxSpec

\* The outbox keeps its types; and a retry file is torn only while a daemon
\* rewrites it, or after a push was cut off.
THEOREM OutboxTypeCorrect == OutboxSpec => []OutboxTypeOK
BY TypesInvariant, TypesSuffice, PTL

-----------------------------------------------------------------------------
(* How often a version is posted by a daemon alone *)

Alone == \A c, d \in Daemons : c = d

\* The outbox holds the last version or none.
Latest == \A e \in Events : outbox[e] \in {0, written[e]}

\* Nothing is posted before it is written.
Unwritten == \A e \in Events, v \in Versions : v > written[e] => posted[e][v] = 0

\* The version at hand is the one in the outbox, and its retry file is whole.
EventAtHand ==
  \A d \in Daemons :
    /\ pushing[d] \in {"post", "clear", "move"} => body[d] = outbox[event[d]]
    /\ pushing[d] \in {"read", "post", "fail"} => retry[event[d]] # Torn

\* A version is posted no more, or its last post is not accounted for yet.
Settling(e, v) ==
  outbox[e] # v \/ \E d \in Daemons : event[d] = e /\ pushing[d] \in {"clear", "move", "fail"}

PostsOf(e, v) ==
  posted[e][v] <= registered[e] + cutPushes + (IF Settling(e, v) THEN 1 ELSE 0)

PostsCounted == \A e \in Events, v \in Versions : PostsOf(e, v)

PostInv == Latest /\ Unwritten /\ EventAtHand /\ PostsCounted

LEMMA InitPosts == OutboxInit => PostInv
BY RetryAssumption
DEF OutboxInit, PostInv, Latest, Unwritten, EventAtHand, PostsCounted, PostsOf, Settling, Versions

LEMMA Numbers ==
  ASSUME Plain, NEW e \in Events, NEW v \in Versions
  PROVE  posted[e][v] \in Nat /\ registered[e] \in Nat /\ cutPushes \in Nat
BY DEF Plain, Counts, Cuts

\* A step that posts nothing and, if a version may be posted again, accounts
\* for its last post.
LEMMA QuietPosts ==
  ASSUME Plain, NEW e \in Events, NEW v \in Versions, PostsOf(e, v), posted' = posted,
         \/ UNCHANGED <<registered, cutPushes>> /\ (Settling(e, v) => Settling(e, v)')
         \/ registered'[e] = registered[e] + 1 /\ cutPushes' = cutPushes
         \/ registered' = registered /\ cutPushes' = cutPushes + 1
  PROVE  PostsOf(e, v)'
<1>1. PICK n \in Nat, r \in Nat, c \in Nat :
        n = posted[e][v] /\ r = registered[e] /\ c = cutPushes
  BY Numbers
<1>2. n <= r + c + (IF Settling(e, v) THEN 1 ELSE 0)
  BY <1>1 DEF PostsOf
<1>3. posted'[e][v] = n
  BY <1>1
<1>4. CASE UNCHANGED <<registered, cutPushes>> /\ (Settling(e, v) => Settling(e, v)')
  <2>1. n <= r + c + (IF Settling(e, v)' THEN 1 ELSE 0)
    BY <1>1, <1>2, <1>4
  <2> QED
    BY <1>1, <1>3, <1>4, <2>1 DEF PostsOf
<1>5. CASE registered'[e] = registered[e] + 1 /\ cutPushes' = cutPushes
  <2>1. n <= (r + 1) + c + (IF Settling(e, v)' THEN 1 ELSE 0)
    BY <1>1, <1>2
  <2>2. registered'[e] = r + 1 /\ cutPushes' = c
    BY <1>1, <1>5
  <2> QED
    BY <1>3, <2>1, <2>2 DEF PostsOf
<1>6. CASE registered' = registered /\ cutPushes' = cutPushes + 1
  <2>1. n <= r + (c + 1) + (IF Settling(e, v)' THEN 1 ELSE 0)
    BY <1>1, <1>2
  <2>2. registered'[e] = r /\ cutPushes' = c + 1
    BY <1>1, <1>6
  <2> QED
    BY <1>3, <2>1, <2>2 DEF PostsOf
<1> QED
  BY <1>4, <1>5, <1>6

\* The post of a version that was not settling.
LEMMA PostCount ==
  ASSUME Plain, NEW e \in Events, NEW v \in Versions, PostsOf(e, v), ~Settling(e, v),
         posted'[e][v] \in {posted[e][v], posted[e][v] + 1},
         UNCHANGED <<registered, cutPushes>>, Settling(e, v)'
  PROVE  PostsOf(e, v)'
<1>1. PICK n \in Nat, r \in Nat, c \in Nat :
        n = posted[e][v] /\ r = registered[e] /\ c = cutPushes
  BY Numbers
<1>2. n <= r + c
  BY <1>1 DEF PostsOf
<1>3. PICK k \in {n, n + 1} : k = posted'[e][v]
  BY <1>1
<1>4. k <= r + c + 1
  BY <1>1, <1>2, <1>3
<1> QED
  BY <1>1, <1>3, <1>4 DEF PostsOf

\* A daemon that alone pushes keeps the account.
LEMMA AlonePushes ==
  ASSUME Alone, Plain, retry \in [Events -> RetryFiles], Underway, PostInv,
         NEW d \in Daemons, PushStep(d) \/ CutPush(d)
  PROVE  PostInv'
<1>0. Daemons = {d}
  BY DEF Alone
<1>a. event[d] \in Events /\ outbox[event[d]] \in Held
  BY DEF Plain
<1> USE DEF PushTo, outboxHistory, pushers
<1>b. ASSUME EventAtHand', outbox' = outbox, written' = written, posted' = posted,
             \A e \in Events, v \in Versions :
               \/ UNCHANGED <<registered, cutPushes>> /\ (Settling(e, v) => Settling(e, v)')
               \/ registered'[e] = registered[e] + 1 /\ cutPushes' = cutPushes
               \/ registered' = registered /\ cutPushes' = cutPushes + 1
      PROVE  PostInv'
  <2>1. PostsCounted'
    BY <1>b, QuietPosts DEF PostInv, PostsCounted
  <2> QED
    BY <1>b, <2>1 DEF PostInv, Latest, Unwritten
<1>1. CASE StartPush(d) \/ EndPush(d)
  <2>1. /\ pushing[d] \in {"idle", "scan"} /\ pushing'[d] \in {"idle", "scan"}
        /\ UNCHANGED <<written, outbox, posted, registered, retry, event, body, cutPushes>>
    BY <1>1 DEF StartPush, EndPush, Plain
  <2>2. EventAtHand'
    BY <1>0, <2>1 DEF EventAtHand
  <2> QED
    BY <1>0, <1>b, <2>1, <2>2 DEF Settling
<1>2. CASE TakeEvent(d)
  <2>1. /\ pushing[d] = "scan" /\ pushing'[d] \in {"idle", "scan", "read"}
        /\ UNCHANGED <<written, outbox, posted, registered, retry, body, cutPushes>>
    BY <1>2 DEF TakeEvent, Plain
  <2>2. pushing'[d] = "read" => retry[event'[d]].state # "torn"
    BY <1>2 DEF TakeEvent, Plain
  <2>3. EventAtHand'
    BY <1>0, <2>1, <2>2 DEF EventAtHand, Torn
  <2> QED
    BY <1>0, <1>b, <2>1, <2>3 DEF Settling
<1>3. CASE ReadEvent(d)
  <2>1. /\ pushing[d] = "read" /\ pushing'[d] \in {"fail", "post"} /\ body'[d] = outbox[event[d]]
        /\ UNCHANGED <<written, outbox, posted, registered, retry, event, cutPushes>>
    BY <1>3 DEF ReadEvent, Plain
  <2>2. EventAtHand'
    BY <1>0, <2>1 DEF EventAtHand, PostInv
  <2> QED
    BY <1>0, <1>b, <2>1, <2>2 DEF Settling
<1>4. CASE Post(d)
  <2>1. PICK taken \in BOOLEAN :
          posted' = IF taken THEN [posted EXCEPT ![event[d]][body[d]] = @ + 1] ELSE posted
    BY <1>4 DEF Post
  <2>2. /\ pushing[d] = "post" /\ pushing'[d] \in {"clear", "fail"}
        /\ UNCHANGED <<written, outbox, registered, retry, event, body, cutPushes>>
    BY <1>4 DEF Post, Plain
  <2>3. body[d] = outbox[event[d]] /\ body[d] # 0 /\ retry[event[d]] # Torn
    BY <2>2 DEF EventAtHand, PostInv, Underway
  <2>4. EventAtHand'
    BY <1>0, <2>2, <2>3 DEF EventAtHand
  <2>5. ASSUME NEW e \in Events, NEW v \in Versions
        PROVE  PostsOf(e, v)' /\ (v > written'[e] => posted'[e][v] = 0)
    <3>0. PostsOf(e, v) /\ (v > written[e] => posted[e][v] = 0)
      BY DEF PostInv, PostsCounted, Unwritten
    <3>1. CASE e = event[d] /\ v = body[d]
      <4>1. ~Settling(e, v)
        BY <1>0, <2>2, <2>3, <3>1 DEF Settling
      <4>2. Settling(e, v)'
        BY <1>0, <2>2, <3>1 DEF Settling
      <4>3. posted'[e][v] \in {posted[e][v], posted[e][v] + 1}
        BY <2>1, <3>1 DEF Plain, Counts
      <4>4. ~(v > written'[e])
        BY <2>2, <2>3, <3>1 DEF PostInv, Latest, Versions
      <4> QED
        BY <2>2, <3>0, <4>1, <4>2, <4>3, <4>4, PostCount
    <3>2. CASE ~(e = event[d] /\ v = body[d])
      <4>1. posted'[e][v] = posted[e][v]
        BY <2>1, <3>2 DEF Plain, Counts
      <4>2. Settling(e, v) => Settling(e, v)'
        BY <1>0, <2>2 DEF Settling
      <4>3. PICK n \in Nat, r \in Nat, c \in Nat :
              n = posted[e][v] /\ r = registered[e] /\ c = cutPushes
        BY Numbers
      <4>4. n <= r + c + (IF Settling(e, v)' THEN 1 ELSE 0)
        BY <3>0, <4>2, <4>3 DEF PostsOf
      <4> QED
        BY <2>2, <3>0, <4>1, <4>3, <4>4 DEF PostsOf
    <3> QED
      BY <3>1, <3>2
  <2> QED
    BY <2>2, <2>4, <2>5 DEF PostInv, PostsCounted, Unwritten, Latest
<1>5. CASE ClearRetry(d)
  <2>1. /\ pushing[d] = "clear" /\ pushing'[d] = "move" /\ retry' = [retry EXCEPT ![event[d]] = NoRetry]
        /\ UNCHANGED <<written, outbox, posted, registered, event, body, cutPushes>>
    BY <1>5 DEF ClearRetry, Plain
  <2>2. EventAtHand'
    BY <1>0, <2>1 DEF EventAtHand, PostInv
  <2> QED
    BY <1>0, <1>b, <2>1, <2>2 DEF Settling
<1>6. CASE MoveSent(d) \/ Bury(d)
  <2>1. /\ pushing[d] \in {"move", "bury"} /\ pushing'[d] \in {"idle", "scan", "forget"}
        /\ outbox' = [outbox EXCEPT ![event[d]] = 0]
        /\ UNCHANGED <<written, posted, registered, retry, event, body, cutPushes>>
    BY <1>6 DEF MoveSent, Bury, Plain
  <2>2. EventAtHand'
    BY <1>0, <2>1 DEF EventAtHand
  <2>3. Latest' /\ Unwritten'
    BY <1>a, <2>1 DEF PostInv, Latest, Unwritten
  <2>4. ASSUME NEW e \in Events, NEW v \in Versions PROVE PostsOf(e, v)'
    <3>1. Settling(e, v) => Settling(e, v)'
      <4>1. v # 0
        BY DEF Versions
      <4> QED
        BY <1>0, <1>a, <2>1, <4>1 DEF Settling, Plain
    <3> QED
      BY <2>1, <3>1, QuietPosts DEF PostInv, PostsCounted
  <2> QED
    BY <2>2, <2>3, <2>4 DEF PostInv, PostsCounted
<1>7. CASE RegisterFailure(d)
  <2>1. retry[event[d]].state # "torn"
    <3>1. retry[event[d]] \in RetryFiles /\ retry[event[d]] # Torn
      BY <1>7, <1>a DEF RegisterFailure, PostInv, EventAtHand
    <3> QED
      BY <3>1, RetryFile
  <2>2. /\ pushing[d] = "fail" /\ pushing'[d] \in {"bury", "put off"}
        /\ registered' = [registered EXCEPT ![event[d]] = @ + 1]
        /\ UNCHANGED <<written, outbox, posted, retry, event, body, cutPushes>>
    BY <1>7, <2>1 DEF RegisterFailure, Plain
  <2>3. EventAtHand'
    BY <1>0, <2>2 DEF EventAtHand
  <2>4. ASSUME NEW e \in Events, NEW v \in Versions PROVE PostsOf(e, v)'
    <3>0. PostsOf(e, v)
      BY DEF PostInv, PostsCounted
    <3>1. CASE e = event[d]
      <4>1. registered'[e] = registered[e] + 1
        BY <2>2, <3>1 DEF Plain
      <4> QED
        BY <2>2, <3>0, <4>1, QuietPosts
    <3>2. CASE e # event[d]
      <4>1. Settling(e, v) <=> Settling(e, v)'
        BY <1>0, <2>2, <3>2 DEF Settling
      <4>2. registered'[e] = registered[e]
        BY <2>2, <3>2 DEF Plain
      <4> QED
        BY <2>2, <3>0, <4>1, <4>2 DEF PostsOf
    <3> QED
      BY <3>1, <3>2
  <2> QED
    BY <2>2, <2>3, <2>4 DEF PostInv, PostsCounted, Latest, Unwritten
<1>8. CASE TruncateRetry(d) \/ WriteRetry(d) \/ ForgetRetry(d)
  <2>1. /\ pushing[d] \in {"put off", "rewrite", "forget"} /\ pushing'[d] \in {"rewrite", "scan"}
        /\ UNCHANGED <<written, outbox, posted, registered, event, body, cutPushes>>
    BY <1>8 DEF TruncateRetry, WriteRetry, ForgetRetry, Plain
  <2>2. EventAtHand'
    BY <1>0, <2>1 DEF EventAtHand
  <2> QED
    BY <1>0, <1>b, <2>1, <2>2 DEF Settling
<1>9. CASE CutPush(d)
  <2>1. /\ pushing'[d] = "idle" /\ cutPushes' = cutPushes + 1
        /\ UNCHANGED <<written, outbox, posted, registered, retry, event, body>>
    BY <1>9 DEF CutPush, Plain
  <2>2. EventAtHand'
    BY <1>0, <2>1 DEF EventAtHand
  <2> QED
    BY <1>b, <2>1, <2>2
<1> QED
  BY <1>1, <1>2, <1>3, <1>4, <1>5, <1>6, <1>7, <1>8, <1>9 DEF PushStep

\* A new version is posted for the first time.
LEMMA AloneRecords ==
  ASSUME Alone, Plain, PostInv, NEW d \in Daemons, NEW f \in Events, RecordCompletion(d, f)
  PROVE  PostInv'
<1>0. Daemons = {d}
  BY DEF Alone
<1>1. /\ pushing[d] = "idle" /\ written' = [written EXCEPT ![f] = @ + 1]
      /\ outbox' = [outbox EXCEPT ![f] = written[f] + 1]
      /\ UNCHANGED <<posted, registered, retry, pushing, event, body, cutPushes>>
  BY DEF RecordCompletion, outboxHistory, pushers
<1>2. EventAtHand'
  BY <1>0, <1>1 DEF EventAtHand
<1>3. Latest'
  BY <1>1 DEF PostInv, Latest, Plain
<1>4. \A e \in Events : written[e] \in Nat
  BY DEF Plain, Held
<1>5. Unwritten'
  <2> SUFFICES ASSUME NEW e \in Events, NEW v \in Versions, v > written'[e]
               PROVE  posted'[e][v] = 0
    BY DEF Unwritten
  <2>1. v > written[e]
    <3>1. written'[e] = IF e = f THEN written[e] + 1 ELSE written[e]
      BY <1>1 DEF Plain
    <3>2. v \in Nat
      BY RetryAssumption DEF Versions
    <3>3. CASE e = f
      <4>1. v > written[e] + 1
        BY <3>1, <3>3
      <4> QED
        BY <1>4, <3>2, <4>1
    <3> QED
      BY <3>1, <3>3
  <2> QED
    BY <1>1, <2>1 DEF PostInv, Unwritten
<1>6. ASSUME NEW e \in Events, NEW v \in Versions PROVE PostsOf(e, v)'
  <2>0. PostsOf(e, v)
    BY DEF PostInv, PostsCounted
  <2>1. CASE e = f /\ v = written[f] + 1
    <3>1. posted[e][v] = 0
      <4>1. v > written[e]
        BY <1>4, <2>1
      <4> QED
        BY <4>1 DEF PostInv, Unwritten
    <3>2. PICK r \in Nat, c \in Nat : r = registered[e] /\ c = cutPushes
      BY Numbers
    <3>3. 0 <= r + c + (IF Settling(e, v)' THEN 1 ELSE 0)
      BY <3>2
    <3> QED
      BY <1>1, <3>1, <3>2, <3>3 DEF PostsOf
  <2>2. CASE ~(e = f /\ v = written[f] + 1)
    <3>1. Settling(e, v) => Settling(e, v)'
      BY <1>0, <1>1, <2>2 DEF Settling, Plain
    <3> QED
      BY <1>1, <2>0, <3>1, QuietPosts
  <2> QED
    BY <2>1, <2>2
<1> QED
  BY <1>2, <1>3, <1>5, <1>6 DEF PostInv, PostsCounted

\* A daemon alone posts a version again only after a failure it registered or
\* a push that was cut off.
THEOREM PostsBounded ==
  ASSUME Alone
  PROVE  OutboxSpec => []DuplicatesBounded
<1>1. TypesInv /\ PostInv /\ [OutboxNext]_outboxVars => PostInv'
  <2> SUFFICES ASSUME TypesInv, PostInv, [OutboxNext]_outboxVars PROVE PostInv'
    OBVIOUS
  <2>1. ASSUME UNCHANGED <<written, outbox, posted, registered, pushing, event, body, cutPushes>>,
               \A e \in Events : retry'[e] = Torn <=> retry[e] = Torn
        PROVE  PostInv'
    <3>1. EventAtHand'
      BY <2>1 DEF EventAtHand, PostInv, TypesInv, Plain
    <3> QED
      BY <2>1, <3>1 DEF PostInv, Latest, Unwritten, PostsCounted, PostsOf, Settling
  <2>2. CASE Tick
    <3>1. \A e \in Events : retry'[e] = Torn <=> retry[e] = Torn
      BY <2>2, TickedFile DEF Tick, TypesInv
    <3> QED
      BY <2>1, <2>2, <3>1 DEF Tick, outboxHistory
  <2>3. CASE UNCHANGED outboxVars
    BY <2>1, <2>3 DEF outboxVars
  <2> QED
    BY <2>2, <2>3, AlonePushes, AloneRecords DEF OutboxNext, TypesInv
<1>2. TypesInv /\ PostInv => DuplicatesBounded
  <2> SUFFICES ASSUME TypesInv, PostInv, NEW e \in Events, NEW v \in Versions
               PROVE  posted[e][v] <= registered[e] + cutPushes + 1
    BY DEF DuplicatesBounded
  <2> QED
    BY Numbers DEF TypesInv, PostInv, PostsCounted, PostsOf
<1> QED
  BY <1>1, <1>2, InitPosts, TypesInvariant, PTL DEF OutboxSpec

-----------------------------------------------------------------------------
(* The service *)

\* A report keeps the state file to a daemon and a state, or as it was.
LEMMA Reported ==
  ASSUME ServiceTypeOK, NEW d \in Daemons, NEW s \in States, NEW fault, Report(d, s, fault)
  PROVE  heartbeat' \in {<<"nobody", "none">>} \union (Daemons \X States)
BY DEF Report, ServiceTypeOK

LEMMA InitService == ServiceInit => ServiceTypeOK
<1> SUFFICES ASSUME ServiceInit PROVE ServiceTypeOK
  OBVIOUS
<1>1. [d \in Daemons |-> 0] \in [Daemons -> Nat] /\ [d \in Daemons |-> 0] \in [Daemons -> 0 .. MaxLoops]
  BY ServiceAssumption
<1> QED
  BY <1>1, Zenon DEF ServiceInit, ServiceTypeOK, ServiceSteps

LEMMA NextService == ServiceTypeOK /\ [ServiceNext]_serviceVars => ServiceTypeOK'
<1> SUFFICES ASSUME ServiceTypeOK, [ServiceNext]_serviceVars PROVE ServiceTypeOK'
  OBVIOUS
<1> USE ServiceAssumption DEF ServiceTypeOK, counts, ServeTo, ServiceSteps
<1>1. CASE RequestStop
  BY <1>1 DEF RequestStop
<1>2. CASE UNCHANGED serviceVars
  BY <1>2 DEF serviceVars
<1>3. ASSUME NEW d \in Daemons, StartService(d) PROVE ServiceTypeOK'
  BY <1>3 DEF StartService
<1>4. ASSUME NEW d \in Daemons, SayStarting(d) PROVE ServiceTypeOK'
  BY <1>4, Reported DEF SayStarting, States
<1>5. ASSUME NEW d \in Daemons, BeginLoop(d) PROVE ServiceTypeOK'
  <2>1. CASE loops[d] < MaxLoops
    <3>1. loops' \in [Daemons -> 0 .. MaxLoops]
      BY <1>5, <2>1 DEF BeginLoop
    <3> QED
      BY <1>5, <2>1, <3>1, Reported DEF BeginLoop, States
  <2>2. CASE ~(loops[d] < MaxLoops)
    BY <1>5, <2>2 DEF BeginLoop
  <2> QED
    BY <2>1, <2>2
<1>6. ASSUME NEW d \in Daemons, CheckStop(d) PROVE ServiceTypeOK'
  BY <1>6 DEF CheckStop
<1>7. ASSUME NEW d \in Daemons, SayStopRequested(d) PROVE ServiceTypeOK'
  BY <1>7, Reported DEF SayStopRequested, States
<1>8. ASSUME NEW d \in Daemons, ClearSignal(d) PROVE ServiceTypeOK'
  BY <1>8 DEF ClearSignal, Faults
<1>9. ASSUME NEW d \in Daemons, Serve(d) PROVE ServiceTypeOK'
  BY <1>9 DEF Serve
<1>10. ASSUME NEW d \in Daemons, ClaimJob(d) PROVE ServiceTypeOK'
  BY <1>10 DEF ClaimJob
<1>11. ASSUME NEW d \in Daemons, FindNoJob(d) PROVE ServiceTypeOK'
  BY <1>11, Reported DEF FindNoJob, States
<1>12. ASSUME NEW d \in Daemons, FailQueue(d) PROVE ServiceTypeOK'
  BY <1>12 DEF FailQueue
<1>13. ASSUME NEW d \in Daemons, FinishJob(d) PROVE ServiceTypeOK'
  BY <1>13 DEF FinishJob
<1>14. ASSUME NEW d \in Daemons, CheckMaxJobs(d) PROVE ServiceTypeOK'
  BY <1>14, Reported DEF CheckMaxJobs, States
<1>15. ASSUME NEW d \in Daemons, EndService(d) PROVE ServiceTypeOK'
  BY <1>15, Reported DEF EndService, States
<1> QED
  BY <1>1, <1>2, <1>3, <1>4, <1>5, <1>6, <1>7, <1>8, <1>9, <1>10, <1>11, <1>12, <1>13, <1>14, <1>15
  DEF ServiceNext, ServiceStep

\* A daemon serves at most max_loops rounds, its report counts, and the state
\* file names one of its states (AgentdService::run).
THEOREM ServiceTypeCorrect == ServiceSpec => []ServiceTypeOK
BY InitService, NextService, PTL DEF ServiceSpec

-----------------------------------------------------------------------------
(* The executor *)

\* The turns of a job never overtake its calls, except that the last turn has
\* not run one yet: TurnsBounded follows from the type, but is not inductive.
TurnsPaid ==
  /\ executing = "loop" => turns <= steps
  /\ executing = "turn" => turns <= steps /\ ~StopDue
  /\ executing = "calls" => turns <= steps + (IF pending = 0 THEN 0 ELSE 1)

ExecutorInv == ExecutorTypeOK /\ TurnsPaid /\ TurnsBounded /\ SavedAtHome

\* Init => ExecutorInv
LEMMA InitExecutor == ExecutorInit => ExecutorInv
<1> SUFFICES ASSUME ExecutorInit PROVE ExecutorInv
  OBVIOUS
<1>1. /\ executing = "idle" /\ cwd = "home" /\ outcome = "none" /\ saved = "nowhere"
      /\ steps = 0 /\ failures = 0 /\ pending = 0 /\ turns = 0
      /\ lost \in BOOLEAN
  BY DEF ExecutorInit
<1> QED
  BY <1>1, LimitsAssumption DEF ExecutorInv, ExecutorTypeOK, TurnsPaid, TurnsBounded, SavedAtHome

\* Every step of the executor keeps the invariant, one action at a time.
LEMMA NextExecutor == ExecutorInv /\ [ExecutorNext]_executorVars => ExecutorInv'
<1> SUFFICES ASSUME ExecutorInv, [ExecutorNext]_executorVars PROVE ExecutorInv'
  OBVIOUS
<1> USE LimitsAssumption DEF ExecutorInv, ExecutorTypeOK, TurnsPaid, TurnsBounded, SavedAtHome, counters, StopDue
<1>1. CASE Skip
  BY <1>1 DEF Skip
<1>2. CASE Enter
  BY <1>2 DEF Enter
<1>3. CASE LoopHead
  BY <1>3 DEF LoopHead
<1>4. CASE ProviderError
  BY <1>4 DEF ProviderError, Counted
<1>5. CASE Answer
  BY <1>5 DEF Answer, Counted
<1>6. CASE RunCall
  BY <1>6 DEF RunCall
<1>7. CASE Panic
  BY <1>7 DEF Panic
<1>8. CASE StopInReply
  BY <1>8 DEF StopInReply
<1>9. CASE EndReply
  BY <1>9 DEF EndReply
<1>10. CASE Restore
  BY <1>10 DEF Restore
<1>11. CASE Save
  BY <1>11 DEF Save
<1>12. CASE Restart
  <2>1. /\ executing' = "idle" /\ cwd' = "home" /\ outcome' = "none" /\ saved' = saved
        /\ steps' = 0 /\ failures' = 0 /\ pending' = 0 /\ turns' = 0
        /\ lost' \in BOOLEAN
    BY <1>12 DEF Restart
  <2> QED
    BY <2>1
<1>13. CASE UNCHANGED executorVars
  BY <1>13 DEF executorVars
<1> QED
  BY <1>1, <1>2, <1>3, <1>4, <1>5, <1>6, <1>7, <1>8, <1>9, <1>10, <1>11, <1>12, <1>13
  DEF ExecutorNext, ExecutorStep

LEMMA ExecutorInvariance == ExecutorSpec => []ExecutorInv
BY InitExecutor, NextExecutor, PTL DEF ExecutorSpec

\* A job runs at most MaxSteps calls and never fails more than MaxFailures
\* times in a row, however many calls a reply holds.
THEOREM ExecutorTypeCorrect == ExecutorSpec => []ExecutorTypeOK
BY ExecutorInvariance, PTL DEF ExecutorInv

\* A job asks the model at most MaxSteps times.
THEOREM TurnsWithinSteps == ExecutorSpec => []TurnsBounded
BY ExecutorInvariance, PTL DEF ExecutorInv

\* Unless the way back failed, the record of a job is saved where the daemon
\* started.
THEOREM AtHome == ExecutorSpec => []SavedAtHome
BY ExecutorInvariance, PTL DEF ExecutorInv

-----------------------------------------------------------------------------
(* The parts, as they are checked *)

\* Each part keeps its types, whichever of them a behaviour is about.
THEOREM PartsTyped == Spec => []TypesOK
<1> DEFINE PartsInv == InboxInv /\ TypesInv /\ ServiceTypeOK /\ ExecutorInv
<1>1. Init => PartsInv
  BY InitInbox, InitTypes, InitService, InitExecutor DEF Init
<1>2. PartsInv /\ [Next]_parts => PartsInv'
  BY NextInbox, NextTypes, NextService, NextExecutor DEF Next, Inbox, Box, Service, Executor, parts
<1>3. PartsInv => TypesOK
  BY TypesSuffice, InboxTypesSplit DEF TypesOK, InboxInv, PullInv, AckInv, ExecutorInv
<1> QED
  BY <1>1, <1>2, <1>3, PTL DEF Spec
=============================================================================

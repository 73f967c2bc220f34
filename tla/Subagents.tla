------------------------------- MODULE Subagents -------------------------------
(***************************************************************************)
(* The subagents of an interactive session (SubagentManager and /agent in  *)
(* src/src/main.rs).  A run is a thread with a Runtime of its own, a copy  *)
(* of the history it continues and of the rules it is given; its answer    *)
(* comes over a channel.  Nothing can stop a thread: an interrupt, a       *)
(* cancellation and a close only drop the receiver.  The manager takes the *)
(* answers that are there before almost every command.                     *)
(***************************************************************************)
EXTENDS Naturals, Sequences, FiniteSets

CONSTANTS
  MaxAgents,   \* bound of the model: subagents of a session
  MaxLaunches  \* bound of the model: runs of a session

ASSUME SubagentBounds == {MaxAgents, MaxLaunches} \subseteq Nat

VARIABLES
  status,    \* status of each subagent, "none" before its spawn
  active,    \* run whose receiver the manager holds for it, or 0
  history,   \* its history without the system prompt: [role, run]
  profiled,  \* it was spawned under a profile that restricts the tools
  seq,       \* ids given out
  launched,  \* the runs: a sequence of [agent, asked, restricted, out]
  session    \* the session runs: an error of the manager ends it

subagentVars == <<status, active, history, profiled, seq, launched, session>>

Agents == 1..MaxAgents
RunIds == 1..Len(launched)
Outs == {"going", "ok", "error", "panic"}
Entries == [role : {"user", "assistant"}, run : 1..MaxLaunches]

SubagentsTypeOK ==
  /\ status \in [Agents -> {"none", "running", "completed", "failed", "cancelled", "closed"}]
  /\ active \in [Agents -> 0..MaxLaunches] /\ \A a \in Agents : active[a] <= Len(launched)
  /\ history \in [Agents -> Seq(Entries)] /\ profiled \in [Agents -> BOOLEAN]
  /\ seq \in 0..MaxAgents /\ session \in BOOLEAN
  /\ launched \in Seq([agent : Agents, asked : Seq(Entries), restricted : BOOLEAN, out : Outs])

SubagentsInit ==
  /\ status = [a \in Agents |-> "none"] /\ active = [a \in Agents |-> 0]
  /\ history = [a \in Agents |-> <<>>] /\ profiled = [a \in Agents |-> FALSE]
  /\ seq = 0 /\ launched = <<>> /\ session = TRUE

Message(role, run) == [role |-> role, run |-> run]

------------------------------------------------------------------------------
\* A thread: its first turn and the loop, in one step; a panic drops its sender.
RunEnds ==
  /\ session
  /\ \E r \in RunIds : /\ launched[r].out = "going"
                       /\ launched' \in {[launched EXCEPT ![r].out = o] : o \in {"ok", "error", "panic"}}
  /\ UNCHANGED <<status, active, history, profiled, seq, session>>

\* The answers of the runs in rs, which have ended, are taken: mark_finished.
Ended(a) == active[a] # 0 /\ launched[active[a]].out # "going"
Answered(a) == launched[active[a]].out = "ok"
Taken(as) ==
  [status  |-> [a \in Agents |-> IF a \notin as THEN status[a]
                                 ELSE IF Answered(a) THEN "completed" ELSE "failed"],
   active  |-> [a \in Agents |-> IF a \in as THEN 0 ELSE active[a]],
   history |-> [a \in Agents |-> IF a \in as /\ Answered(a)
                                   THEN Append(history[a], Message("assistant", active[a]))
                                   ELSE history[a]]]
Reaped == Taken({a \in Agents : Ended(a)})

Becomes(s) == status' = s.status /\ active' = s.active /\ history' = s.history
Unlaunched == UNCHANGED <<profiled, seq, launched>>

\* reap_finished: /agent list, view, status and log, and the id of a command.
Reap == session /\ Becomes(Reaped) /\ Unlaunched /\ UNCHANGED session

\* Mutant of Launch: the manager goes on with its old history, the run may not.
LaunchKeeping(a, s, h, restricted) ==
  LET r == Len(launched) + 1
  IN /\ launched' = Append(launched, [agent |-> a, asked |-> h, restricted |-> restricted,
                                      out |-> "going"])
     /\ status' = [s.status EXCEPT ![a] = "running"]
     /\ active' = [s.active EXCEPT ![a] = r]
     /\ history' = [s.history EXCEPT ![a] = Append(@, Message("user", r))]

\* launch_run of subagent a with the history h before its answer
Launch(a, s, h, restricted) ==
  LET r == Len(launched) + 1
  IN /\ launched' = Append(launched, [agent |-> a, asked |-> h, restricted |-> restricted,
                                      out |-> "going"])
     /\ status' = [s.status EXCEPT ![a] = "running"]
     /\ active' = [s.active EXCEPT ![a] = r]
     /\ history' = [s.history EXCEPT ![a] = h]

CanLaunch == session /\ Len(launched) < MaxLaunches
Asks(h) == Append(h, Message("user", Len(launched) + 1))

\* /agent spawn, with a profile or without: the only launch that reads one, and
\* the only command that does not reap.
Spawn ==
  /\ CanLaunch /\ seq < MaxAgents /\ seq' = seq + 1
  /\ \E profile \in BOOLEAN :
       /\ profiled' = [profiled EXCEPT ![seq'] = profile]
       /\ Launch(seq', [status |-> status, active |-> active, history |-> history], Asks(<<>>), profile)
  /\ UNCHANGED session

\* The error of a command is the error of the session.
Fails(s) == Becomes(s) /\ session' = FALSE /\ Unlaunched

Known(s, a) == s.status[a] # "none"

Send ==
  /\ CanLaunch
  /\ \E a \in Agents, interrupt \in BOOLEAN, fresh \in BOOLEAN :
       LET busy == Reaped.active[a] # 0
           free == [Reaped EXCEPT !.active[a] = 0]
       IN \/ busy /\ ~interrupt /\ Fails(Reaped)
          \/ /\ ~busy \/ interrupt
             /\ ~Known(Reaped, a) \/ Reaped.status[a] = "closed"
             /\ Fails(free)
          \/ /\ ~busy \/ interrupt
             /\ Known(Reaped, a) /\ Reaped.status[a] # "closed"
             /\ Launch(a, free, Asks(IF fresh THEN <<>> ELSE Reaped.history[a]), FALSE)
             /\ UNCHANGED <<profiled, seq, session>>

RetryRun ==
  /\ CanLaunch
  /\ \E a \in Agents :
       IF Reaped.active[a] # 0 \/ ~Known(Reaped, a) \/ Reaped.status[a] = "closed"
         THEN Fails(Reaped)
         ELSE /\ Launch(a, Reaped, Asks(Reaped.history[a]), FALSE)
              /\ UNCHANGED <<profiled, seq, session>>

CancelRun ==
  /\ session
  /\ \E a \in Agents :
       \/ ~Known(Reaped, a) /\ Fails(Reaped)
       \/ /\ Known(Reaped, a)
          /\ Becomes(IF Reaped.active[a] = 0 THEN Reaped
                     ELSE [Reaped EXCEPT !.active[a] = 0, !.status[a] = "cancelled"])
          /\ Unlaunched /\ UNCHANGED session

CloseAgent ==
  /\ session
  /\ \E a \in Agents :
       \/ ~Known(Reaped, a) /\ Fails(Reaped)
       \/ /\ Known(Reaped, a)
          /\ Becomes([Reaped EXCEPT !.active[a] = 0, !.status[a] = "closed"])
          /\ Unlaunched /\ UNCHANGED session

\* /agent wait: it reaps, and takes one answer more if it comes in time, of the
\* subagent named or of any.
Wait ==
  /\ session
  /\ \/ Becomes(Reaped) /\ UNCHANGED <<session, launched>>
     \/ \E a \in Agents :
          /\ ~Known(Reaped, a) /\ Becomes(Reaped) /\ session' = FALSE /\ UNCHANGED launched
     \/ \E a \in Agents, o \in {"ok", "error", "panic"} :
          /\ Reaped.active[a] # 0
          /\ launched' = [launched EXCEPT ![active[a]].out = o]
          /\ status' = [Reaped.status EXCEPT ![a] = IF o = "ok" THEN "completed" ELSE "failed"]
          /\ active' = [Reaped.active EXCEPT ![a] = 0]
          /\ history' = IF o = "ok" THEN [Reaped.history EXCEPT ![a] = Append(@, Message("assistant", active[a]))]
                                    ELSE Reaped.history
          /\ UNCHANGED session
  /\ UNCHANGED <<profiled, seq>>

SubagentsNext ==
  \/ RunEnds \/ Reap \/ Spawn \/ Send \/ RetryRun \/ CancelRun \/ CloseAgent \/ Wait

------------------------------------------------------------------------------
\* What a subagent is said to do and the conversation it goes on with are those
\* of its latest run: a subagent runs as long as the manager waits for a run of
\* it, and an answer stands in its history only right after the history that run
\* was given, however runs were interrupted, cancelled, closed and retried.
Conversation ==
  \A a \in Agents :
    /\ status[a] = "running" <=> active[a] # 0
    /\ active[a] # 0 => launched[active[a]].agent = a /\ launched[active[a]].asked = history[a]
    /\ \A i \in 1..Len(history[a]) :
         history[a][i].role = "assistant" =>
           LET run == launched[history[a][i].run]
           IN run.agent = a /\ run.asked = SubSeq(history[a], 1, i - 1)

\* "Tools outside the list are blocked" and "matching tools are blocked even if
\* broadly allowed" (README.md, Agent Profiles): every run of a subagent spawned
\* under a profile has the profile's rules.
ProfileHolds == \A r \in RunIds : profiled[launched[r].agent] => launched[r].restricted
==============================================================================

-------------------------------- MODULE Streams --------------------------------
(***************************************************************************)
(* What the provider client (src/src/provider.rs) makes of the answer to a *)
(* request: the two readers of replies with native tool calls and the two  *)
(* of plain text, with the plain request that follows an empty text.  A    *)
(* stream may end before its end mark (a reader takes that for the end),   *)
(* break off with an error (the request is made again, or the text         *)
(* protocol takes over), or lose a line (a reader skips what is no JSON).  *)
(***************************************************************************)
EXTENDS Naturals, Sequences

CONSTANTS
  MaxPieces,   \* bound of the model: pieces of one stream
  MaxRequests, \* bound of the model: requests of a turn
  MaxLost      \* bound of the model: lines lost of one stream

ASSUME StreamBounds == {MaxPieces, MaxRequests, MaxLost} \subseteq Nat

VARIABLES
  family,   \* "openai" (and DeepSeek) or "claude"
  protocol, \* "tools" or "text"
  stream,   \* "idle", "open", "ended", "plain", "ok" or "error"
  reply,    \* the calls the server began: pieces of arguments sent, all of them
  heard,    \* the same calls as the reader has them: named, ended, pieces read
  block,    \* Claude: the call whose block the reader has open, or 0
  text,     \* some text was read
  reason,   \* finish_reason or stop_reason read, or ""
  stop,     \* stop_reason of the result
  lost,     \* lines lost
  pieces, requests

streamVars == <<family, protocol, stream, reply, heard, block, text, reason, stop,
                lost, pieces, requests>>

StreamsTypeOK ==
  /\ family \in {"openai", "claude"} /\ protocol \in {"tools", "text"}
  /\ stream \in {"idle", "open", "ended", "plain", "ok", "error"}
  /\ reply \in Seq([args : Nat, whole : BOOLEAN])
  /\ heard \in Seq([named : BOOLEAN, ended : BOOLEAN, args : Nat]) /\ Len(heard) = Len(reply)
  /\ block \in 0..Len(reply) /\ text \in BOOLEAN
  /\ {reason, stop} \subseteq {"", "completed", "tool_use", "length"}

StreamsInit ==
  /\ family \in {"openai", "claude"} /\ protocol \in {"tools", "text"}
  /\ stream = "idle" /\ reply = <<>> /\ heard = <<>> /\ block = 0
  /\ text = FALSE /\ reason = "" /\ stop = "" /\ lost = 0 /\ pieces = 0 /\ requests = 0

\* The request is made, or made again: an answer of success opens the stream.
PostRequest ==
  /\ stream \in {"idle", "error"} /\ requests < MaxRequests
  /\ requests' = requests + 1
  /\ protocol' \in {protocol, "text"}
  /\ stream' \in {"open", "error"}
  /\ reply' = <<>> /\ heard' = <<>> /\ block' = 0 /\ text' = FALSE
  /\ reason' = "" /\ stop' = "" /\ lost' = 0 /\ pieces' = 0
  /\ UNCHANGED family

\* A piece of the stream, of which the reader may lose the line.
Sends(Read) ==
  /\ stream = "open" /\ reason = "" /\ pieces < MaxPieces /\ pieces' = pieces + 1
  /\ \/ Read /\ UNCHANGED lost
     \/ lost < MaxLost /\ lost' = lost + 1 /\ UNCHANGED <<block, text>>
        /\ heard' = SubSeq(heard \o <<[named |-> FALSE, ended |-> FALSE, args |-> 0]>>, 1, Len(reply'))
  /\ UNCHANGED <<family, protocol, stream, reason, stop, requests>>

Unfinished == {i \in 1..Len(reply) : ~reply[i].whole}

\* Claude sends one block at a time.
Between == family = "openai" \/ Unfinished = {}

TextPiece ==
  /\ Between /\ UNCHANGED reply
  /\ Sends(text' = TRUE /\ block' = 0 /\ UNCHANGED heard)

StartCall ==
  /\ protocol = "tools" /\ Between
  /\ reply' = Append(reply, [args |-> 0, whole |-> FALSE])
  /\ Sends(/\ heard' = Append(heard, [named |-> TRUE, ended |-> FALSE, args |-> 0])
           /\ block' = IF family = "claude" THEN Len(reply') ELSE 0
           /\ UNCHANGED text)

\* Mutant of ArgumentPiece: a piece goes to the call begun last.
ArgumentPieceToLast ==
  \E i \in Unfinished :
    LET to == IF family = "openai" THEN Len(heard) ELSE block
    IN /\ reply' = [reply EXCEPT ![i].args = @ + 1]
       /\ Sends(/\ heard' = IF to = 0 THEN heard ELSE [heard EXCEPT ![to].args = @ + 1]
                /\ UNCHANGED <<block, text>>)

\* OpenAI gives the index of the call, a piece for Claude goes to the open block.
ArgumentPiece ==
  \E i \in Unfinished :
    LET to == IF family = "openai" THEN i ELSE block
    IN /\ reply' = [reply EXCEPT ![i].args = @ + 1]
       /\ Sends(/\ heard' = IF to = 0 THEN heard ELSE [heard EXCEPT ![to].args = @ + 1]
                /\ UNCHANGED <<block, text>>)

\* Only Claude says so, with content_block_stop.
EndCall ==
  \E i \in Unfinished :
    /\ reply' = [reply EXCEPT ![i].whole = TRUE]
    /\ Sends(/\ heard' = IF block = 0 THEN heard ELSE [heard EXCEPT ![block].ended = TRUE]
             /\ block' = 0 /\ UNCHANGED text)

\* Cut by length, the last call may be unfinished.
FinishReason ==
  /\ stream = "open" /\ reason = ""
  /\ reason' \in {"length"} \cup (IF Unfinished # {} THEN {}
                                  ELSE IF reply = <<>> THEN {"completed"} ELSE {"tool_use"})
  /\ UNCHANGED <<family, protocol, stream, reply, heard, block, text, stop, lost, pieces, requests>>

------------------------------------------------------------------------------
\* The end of the stream, with its mark or before.

EndOfStream ==
  /\ stream = "open" /\ stream' \in {"ended", "error"}
  /\ UNCHANGED <<family, protocol, reply, heard, block, text, reason, stop, lost, pieces, requests>>

\* The calls of the result, in the order of their indices.
Returned ==
  {i \in 1..Len(heard) : IF family = "openai" THEN heard[i].named ELSE heard[i].named /\ heard[i].ended}

OrCompleted == IF reason = "" THEN "completed" ELSE reason

\* read_openai_sse_with_tools and read_claude_sse_with_tools
ToolsResult ==
  /\ stream = "ended" /\ protocol = "tools" /\ stream' = "ok"
  /\ stop' = IF Returned # {} /\ (family = "openai" \/ reason = "") THEN "tool_use" ELSE OrCompleted
  /\ UNCHANGED <<family, protocol, reply, heard, block, text, reason, lost, pieces, requests>>

\* openai_compat_streaming and claude_streaming
TextResult ==
  /\ stream = "ended" /\ protocol = "text"
  /\ stream' = IF text THEN "ok" ELSE "plain"
  /\ stop' = IF family = "openai" THEN OrCompleted ELSE "completed"
  /\ UNCHANGED <<family, protocol, reply, heard, block, text, reason, lost, pieces, requests>>

\* No text came: the same request without streaming; Claude keeps its stop reason.
PlainRequest ==
  /\ stream = "plain"
  /\ \/ stream' = "error" /\ UNCHANGED <<text, stop>>
     \/ /\ stream' = "ok" /\ text' \in BOOLEAN
        /\ stop' \in IF family = "openai" THEN {"completed", "length"} ELSE {"completed"}
  /\ UNCHANGED <<family, protocol, reply, heard, block, reason, lost, pieces, requests>>

StreamsNext ==
  \/ PostRequest \/ TextPiece \/ StartCall \/ ArgumentPiece \/ EndCall \/ FinishReason
  \/ EndOfStream \/ ToolsResult \/ TextResult \/ PlainRequest

------------------------------------------------------------------------------
\* The calls that run are those the model made, however the pieces of several
\* calls mix and wherever the stream ends: with no line lost, each call in the
\* result has the arguments that were sent for it, no finished call is missing,
\* and an unfinished one runs only with OpenAI, whose protocol has no mark for
\* the end of a call; a reply with calls is not taken for a completed text.
CallsFaithful ==
  stream = "ok" /\ lost = 0 =>
    /\ \A i \in Returned : heard[i].args = reply[i].args
    /\ \A i \in 1..Len(reply) : reply[i].whole => i \in Returned
    /\ family = "claude" => \A i \in Returned : reply[i].whole
    /\ Returned # {} => stop # "completed"
==============================================================================

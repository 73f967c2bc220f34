---------------------------- MODULE ToolCallParser ----------------------------
(***************************************************************************)
(* How the calls of a reply are found (extract_tool_calls of               *)
(* src/src/orchestrator/parser.rs).  Models write a call in many shapes;   *)
(* ten passes rewrite the text line by line, each one a shape, into lines  *)
(* "/toolcall TOOL ARGS", and the last two collect these and parse them.   *)
(*                                                                         *)
(* A line is its kind, what tool it names, and labels for the pieces of    *)
(* arguments it carries: the name of a parameter, or some word for text.   *)
(* The kinds say what the passes look for: where a line begins and ends,   *)
(* and whether its double quotes are balanced.  Left out: calls written as *)
(* JSON or like a function, and which characters a name or a path has.     *)
(***************************************************************************)
EXTENDS Naturals, Sequences, SequencesExt, Lists

CONSTANTS
  Blocks,    \* what replies are made of: [lines, meant], with the calls a block stands for
  MaxBlocks  \* bound of the model: blocks of a reply

VARIABLES
  message,    \* the blocks, as the model wrote them
  rewritten,  \* the lines, as rewritten so far
  pass,       \* the pass that comes next
  extracted   \* the calls

parserVars == <<message, rewritten, pass, extracted>>

Line(kind, tool, args) == [kind |-> kind, tool |-> tool, args |-> args]
Called(tool, args) == [tool |-> tool, args |-> args]

\* Lines that begin with "/toolcall ": a call, a call without a tool but with a named
\* argument, one that ends inside of quotes, one that begins a heredoc.
CallKinds == {"call", "fragment", "open_quote", "heredoc"}
FenceKinds == {"fence_shell", "fence_code", "fence"}
\* A line with an odd number of quotes.
OddKinds == {"open_quote", "end_quote", "long_tag", "long_end"}
DsmlKinds == {"dsml_calls", "dsml_calls_end", "dsml_invoke", "dsml_invoke_end", "dsml_param"}
TagKinds == {"spaced", "angle", "angle_end", "content_tag", "content_end", "file_tag", "self_tag",
             "calls", "calls_end", "invoke", "invoke_end", "param", "param_open", "param_end",
             "wrapper", "named_wrapper", "wrapper_end", "tool_name", "unknown", "unknown_end",
             "tag", "tag_end", "long_tag"} \cup DsmlKinds
LineKinds == CallKinds \cup FenceKinds \cup OddKinds \cup TagKinds
             \cup {"text", "blank", "bare", "cjk", "calling", "path", "header", "arguments", "end"}
WriteTools == {"write_file", "edit_file"}
Tools == WriteTools \cup {"bash", "read_file", "glob_search", "grep_search", "web_search", "web_fetch"}

PassNames == {"pseudo_xml", "cjk", "angle", "calling", "dsml", "content", "alias", "fences", "pairs",
              "tags", "scan", "done"}

Labels == UNION {{l.args[k] : k \in 1..Len(l.args)} : l \in UNION {ToSet(b.lines) : b \in Blocks}}
ReplyLine == [kind : LineKinds, tool : Tools \cup {"none"}, args : Seq(Labels)]
ReplyCall == [tool : Tools \cup {"none"}, args : Seq(Labels)]

ASSUME ParserBounds ==
  /\ MaxBlocks \in Nat
  /\ \A b \in Blocks : b.lines \in Seq(ReplyLine)

\* Every line a pass writes is one the passes after it know.
ParserTypeOK ==
  /\ message \in Seq(Blocks) /\ Len(message) <= MaxBlocks
  /\ pass \in PassNames
  /\ rewritten \in Seq(ReplyLine) /\ extracted \in Seq(ReplyCall)

Replies == UNION {[1..n -> Blocks] : n \in 0..MaxBlocks}

ParserInit ==
  /\ message \in Replies
  /\ rewritten = FlattenSeq([k \in 1..Len(message) |-> message[k].lines])
  /\ pass = "pseudo_xml" /\ extracted = <<>>

------------------------------------------------------------------------------
(* Rewriting. *)

\* What a pass makes of line i: the lines it writes, and where it goes on.
Gives(out, next) == [out |-> out, next |-> next, quoted |-> FALSE]
Stays(lines, i) == Gives(<<lines[i]>>, i + 1)

\* A pass over all lines; quoted is what the pass remembers of the ones before.
Sewn(made, n) ==
  LET from[at \in (1..(n + 1)) \X BOOLEAN] ==
        IF at[1] > n THEN <<>> ELSE LET r == made[at] IN r.out \o from[<<r.next, r.quoted>>]
  IN from[<<1, FALSE>>]
Rewritten(lines, At(_, _, _)) ==
  Sewn([at \in (1..Len(lines)) \X BOOLEAN |-> At(lines, at[1], at[2])], Len(lines))

\* The first line after i of one of the kinds; 0 if there is none.
After(lines, i, kinds) ==
  LET at == {j \in (i + 1)..Len(lines) : lines[j].kind \in kinds}
  IN IF at = {} THEN 0 ELSE CHOOSE j \in at : \A k \in at : j <= k

IsKind(lines, j, kinds) == j # 0 /\ lines[j].kind \in kinds
Filled == LineKinds \ {"blank"}
Body(lines, i, j) == SubSeq(lines, i + 1, j - 1)
Full(body) == Picked(body, {k \in 1..Len(body) : body[k].kind # "blank"})
ArgsOf(body) == FlattenSeq([k \in 1..Len(body) |-> body[k].args])

\* A call with the lines of a body as one argument: glued to the name, in quotes, or
\* as a heredoc.  Of the first two only the first line is on the line of the call.
GluedCall(tool, body) ==
  IF Full(body) = <<>> THEN <<Line("call", tool, <<>>)>>
  ELSE <<Line("call", tool, Head(Full(body)).args)>> \o Tail(Full(body))
QuotedCall(tool, args, body) ==
  IF Len(body) < 2 THEN <<Line("call", tool, args \o ArgsOf(body))>>
  ELSE <<Line("open_quote", tool, args \o Head(body).args)>> \o SubSeq(body, 2, Len(body) - 1)
       \o <<Line("end_quote", "none", body[Len(body)].args)>>
HeredocCall(tool, args, body) == <<Line("heredoc", tool, args)>> \o body \o <<Line("end", "none", <<>>)>>

------------------------------------------------------------------------------
(* The passes, each for its line i. *)

\* promote_bare_tool_call_line: the line after a marker that begins with a tool
PseudoXmlAt(lines, i, quoted) ==
  LET j == After(lines, i, Filled)
      blanks == Body(lines, i, j)
      promoted == Gives(blanks \o <<[lines[j] EXCEPT !.kind = "call"]>>, j + 1)
  IN CASE lines[i].kind \in {"spaced", "wrapper", "wrapper_end"} /\ IsKind(lines, j, {"bare"}) -> promoted
       [] lines[i].kind = "spaced" /\ ~IsKind(lines, j, {"bare"}) -> Gives(<<>>, i + 1)
       [] OTHER -> Stays(lines, i)

CjkBracketAt(lines, i, quoted) ==
  IF lines[i].kind = "cjk" THEN Gives(<<[lines[i] EXCEPT !.kind = "call"]>>, i + 1) ELSE Stays(lines, i)

InlineAngleAt(lines, i, quoted) ==
  CASE lines[i].kind = "angle" -> Gives(<<[lines[i] EXCEPT !.kind = "call"]>>, i + 1)
    [] lines[i].kind = "angle_end" -> Gives(<<>>, i + 1)
    [] OTHER -> Stays(lines, i)

\* A marker takes the fenced block that follows it for its arguments.
CallingAt(lines, i, quoted) ==
  LET j == After(lines, i, Filled)
      k == IF IsKind(lines, j, FenceKinds) THEN After(lines, j, {"fence"}) ELSE 0
  IN CASE lines[i].kind = "calling" /\ k # 0 -> Gives(GluedCall(lines[i].tool, Body(lines, j, k)), k + 1)
       [] lines[i].kind = "calling" /\ k = 0 -> Gives(<<Line("call", lines[i].tool, <<>>)>>, i + 1)
       [] OTHER -> Stays(lines, i)

\* normalize_dsml_fenced_tags: the sentinel of every tag is taken out.
Plain == [dsml_calls |-> "calls", dsml_calls_end |-> "calls_end", dsml_invoke |-> "invoke",
          dsml_invoke_end |-> "invoke_end", dsml_param |-> "param"]
DsmlAt(lines, i, quoted) ==
  IF lines[i].kind \in DsmlKinds THEN Gives(<<[lines[i] EXCEPT !.kind = Plain[@]]>>, i + 1) ELSE Stays(lines, i)

\* A tag whose attribute content is a heredoc of several lines; one that is not
\* closed is left alone.
ContentAt(lines, i, quoted) ==
  LET j == After(lines, i, {"content_end"})
  IN IF lines[i].kind = "content_tag" /\ j # 0
       THEN Gives(HeredocCall(lines[i].tool, lines[i].args, Body(lines, i, j)), j + 1)
       ELSE Stays(lines, i)

\* <file .../> is the tool its attributes tell.
FileAlias(keys) ==
  IF "content" \in keys THEN "write_file"
  ELSE IF keys \cap {"old_text", "new_text"} # {} THEN "edit_file" ELSE "read_file"
FileAliasAt(lines, i, quoted) ==
  IF lines[i].kind = "file_tag"
    THEN Gives(<<Line("self_tag", FileAlias(ToSet(lines[i].args)), lines[i].args)>>, i + 1)
    ELSE Stays(lines, i)

\* Mutant of Promoted: a fence around calls is a shell block, too.
PromotedAround(opening, body) ==
  IF opening.kind = "fence_shell" /\ Full(body) # <<>> THEN QuotedCall("bash", <<>>, body) ELSE <<>>

\* fenced_block_to_toolcall: the lines of a call, or none
Promoted(opening, body) ==
  IF Full(body) = <<>> \/ \E l \in ToSet(body) : l.kind \in CallKinds THEN <<>>
  ELSE IF opening.kind = "fence_shell"
    THEN IF \E l \in ToSet(Full(body)) : l.kind # "path" THEN QuotedCall("bash", <<>>, body) ELSE <<>>
  ELSE IF body[1].kind = "path" /\ Full(Tail(body)) # <<>>
    THEN HeredocCall("write_file", body[1].args, Tail(body)) ELSE <<>>

\* strip_markdown_fences: what is left of a fence is a line break, and the language.
Stripped(l) == CASE l.kind \in {"fence_shell", "fence"} -> [l EXCEPT !.kind = "blank"]
                 [] l.kind = "fence_code" -> [l EXCEPT !.kind = "text"]
                 [] OTHER -> l

\* promote_fenced_blocks_to_toolcalls: not inside of quotes, which lines open and close
FencesAt(lines, i, quoted) ==
  LET j == After(lines, i, FenceKinds)
      call == IF j = 0 THEN <<>> ELSE Promoted(lines[i], Body(lines, i, j))
  IN IF ~quoted /\ lines[i].kind \in {"fence_shell", "fence_code"}
       THEN IF call # <<>> THEN Gives(call, j + 1) ELSE Stays(lines, i)
       ELSE [Stays(lines, i) EXCEPT !.quoted = (quoted # (lines[i].kind \in OddKinds))]

\* Lines "Tool: ..." with the lines "Arguments: ..." and the blank ones after it
PairsAt(lines, i, quoted) ==
  LET others == {j \in (i + 1)..Len(lines) : lines[j].kind \notin {"blank", "arguments"}}
      last == IF others = {} THEN Len(lines) ELSE (CHOOSE j \in others : \A k \in others : j <= k) - 1
      args == ArgsOf(SubSeq(lines, i + 1, last))
  IN IF lines[i].kind = "header" /\ args # <<>>
       THEN Gives(<<Line("call", lines[i].tool, args)>>, last + 1)
       ELSE Stays(lines, i)

------------------------------------------------------------------------------
(* Tags. *)

\* coalesce_param_blocks: a parameter of several lines becomes one, long.
LongParam(l, body) == Line("param_open", l.tool, l.args \o ArgsOf(body))
CoalesceAt(lines, i, quoted) ==
  LET j == After(lines, i, {"param_end"})
  IN IF lines[i].kind = "param_open" /\ j # 0
       THEN Gives(<<LongParam(lines[i], Body(lines, i, j))>>, j + 1)
       ELSE Stays(lines, i)
Params(lines) == Picked(lines, {k \in 1..Len(lines) : lines[k].kind \in {"param", "param_open"}})

\* The call of a tool with parameters; a long one leaves it with a quote open, to be
\* closed on a line of its own.
CallWith(tool, params) ==
  IF \E l \in ToSet(params) : l.kind = "param_open"
    THEN <<Line("open_quote", tool, ArgsOf(params)), Line("end_quote", "none", <<>>)>>
    ELSE <<Line("call", tool, ArgsOf(params))>>

\* infer_tool_name_from_legacy_args
Inferred(args) ==
  LET has(k) == k \in ToSet(args)
  IN CASE has("command") -> "bash"
       [] ~has("command") /\ has("url") -> "web_fetch"
       [] ~(has("command") \/ has("url")) /\ has("path") ->
            IF has("old_text") \/ has("new_text") THEN "edit_file"
            ELSE IF has("content") THEN "write_file"
            ELSE IF has("pattern") THEN "grep_search"
            ELSE IF has("query") THEN "web_search" ELSE "read_file"
       [] ~(has("command") \/ has("url") \/ has("path")) /\ (has("query") \/ has("pattern")) ->
            IF has("pattern") THEN "glob_search" ELSE "web_search"
       [] OTHER -> "none"

\* body_starts_with_named_param_tag
StartsWithParam(body) == Full(body) # <<>> /\ Head(Full(body)).kind \in {"param", "param_open"}

\* parse_tool_call_wrapper: the lines of the call, or none.  The tool is the one the
\* wrapper names, or its first child, or the last line that names one, or what the
\* parameters tell.
WrapperCall(name, body) ==
  LET inner == Full(body)
      lines == Rewritten(body, CoalesceAt)
      named == Picked(lines, {k \in 1..Len(lines) : lines[k].kind \in {"tool_name", "invoke"}})
      params == Params(lines)
      tool == IF named # <<>> THEN named[Len(named)].tool
              ELSE IF name # "none" THEN name ELSE Inferred(ArgsOf(params))
  IN IF name = "none" /\ inner # <<>> /\ Head(inner).kind = "tag"
       THEN GluedCall(Head(inner).tool, Tail(inner))
     ELSE IF tool = "none" THEN <<>> ELSE CallWith(tool, params)

\* parse_function_calls_block: the calls between the tags, each begun by a line that
\* names its tool and ended by a closing tag
Outside(out) == [in_call |-> FALSE, tool |-> "none", params |-> <<>>, out |-> out]
InCall(tool, params, out) == [in_call |-> TRUE, tool |-> tool, params |-> params, out |-> out]
BlockLine(s, l) ==
  CASE l.kind \in {"invoke", "named_wrapper"} /\ ~s.in_call -> InCall(l.tool, <<>>, s.out)
    [] l.kind = "invoke" /\ s.in_call -> InCall(l.tool, s.params, s.out)
    [] l.kind = "wrapper" /\ ~s.in_call -> InCall("none", <<>>, s.out)
    [] l.kind \in {"invoke_end", "wrapper_end"} /\ s.in_call /\ s.tool # "none" -> Outside(s.out \o CallWith(s.tool, s.params))
    [] l.kind = "wrapper_end" /\ s.in_call /\ s.tool = "none" -> Outside(s.out)
    [] l.kind = "self_tag" /\ ~s.in_call -> Outside(Append(s.out, [l EXCEPT !.kind = "call"]))
    [] l.kind \in {"param", "param_open"} /\ s.in_call -> InCall(s.tool, Append(s.params, l), s.out)
    [] OTHER -> s
CallsOfBlock(body) ==
  LET lines == Rewritten(body, CoalesceAt)
      upto[n \in 0..Len(lines)] == IF n = 0 THEN Outside(<<>>) ELSE BlockLine(upto[n - 1], lines[n])
  IN upto[Len(lines)].out

\* The body of a tag with a tool's name: named parameters, or text
TagCall(l, body) ==
  LET params == Params(Rewritten(body, CoalesceAt))
  IN IF StartsWithParam(body)
       THEN IF WrapperCall("none", body) # <<>> THEN WrapperCall("none", body) ELSE CallWith(l.tool, params)
     ELSE IF Full(body) = <<>> THEN <<Line("call", l.tool, l.args)>> ELSE HeredocCall(l.tool, l.args, body)

\* normalize_tag_style_toolcalls: the first reading that fits; a tag that is not
\* closed stays a line.
TagsAt(lines, i, quoted) ==
  LET l == lines[i]
      end == CASE l.kind = "calls" -> After(lines, i, {"calls_end"})
               [] l.kind \in {"wrapper", "named_wrapper"} -> After(lines, i, {"wrapper_end"})
               [] l.kind = "unknown" -> After(lines, i, {"unknown_end"})
               [] l.kind = "tag" -> After(lines, i, {"tag_end"})
               [] l.kind = "long_tag" -> After(lines, i, {"long_end"})
               [] OTHER -> 0
      body == Body(lines, i, end)
      call == CASE l.kind \in {"wrapper", "named_wrapper"} -> WrapperCall(l.tool, body)
                [] l.kind = "unknown" /\ StartsWithParam(body) -> WrapperCall("none", body)
                [] l.kind = "tag" -> TagCall(l, body)
                [] l.kind = "long_tag" -> QuotedCall(l.tool, l.args, Append(body, lines[end]))
                [] OTHER -> <<>>
  IN IF l.kind = "self_tag" THEN Gives(<<[l EXCEPT !.kind = "call"]>>, i + 1)
     ELSE IF end = 0 THEN Stays(lines, i)
     ELSE IF l.kind = "calls" THEN Gives(CallsOfBlock(body), end + 1)
     ELSE IF call # <<>> THEN Gives(call, end + 1) ELSE Stays(lines, i)

------------------------------------------------------------------------------
(* Collecting the calls. *)

\* A line that begins with "/toolcall ", with the lines it captures: a heredoc or
\* quoted text of a tool that writes, the next line of a tool without arguments.
CapturedCall(kind, tool, args, first, last, closed) ==
  [kind |-> kind, tool |-> tool, args |-> args, first |-> first, last |-> last, closed |-> closed]
CaptureAt(lines, i, quoted) ==
  LET l == lines[i]
      next == After(lines, i, Filled)
      end == CASE l.kind = "heredoc" /\ l.tool \in WriteTools -> After(lines, i, {"end"})
               [] l.kind = "open_quote" /\ l.tool \in WriteTools -> After(lines, i, OddKinds)
               [] l.kind = "call" /\ l.args = <<>> /\ next # 0 ->
                    IF lines[next].kind \in CallKinds \cup TagKinds \cup FenceKinds THEN next - 1 ELSE next
               [] l.kind = "call" /\ l.args = <<>> /\ next = 0 -> 0
               [] OTHER -> i
      last == IF end = 0 THEN Len(lines) ELSE end
      closed == l.kind # "open_quote" \/ (l.tool \in WriteTools /\ end # 0)
  IN IF l.kind \in CallKinds
       THEN Gives(<<CapturedCall(l.kind, l.tool, ArgsOf(SubSeq(lines, i, last)), i, last, closed)>>, last + 1)
       ELSE Gives(<<>>, i + 1)

\* Named arguments on a line of their own go to the call that ends on the line
\* before; that call must name a tool and have no heredoc.
Merge(items, c) ==
  LET l == Last(items)
  IN IF c.kind = "fragment" /\ items # <<>> /\ l.last + 1 = c.first /\ l.kind \in {"call", "open_quote"} /\ l.tool # "none"
       THEN Append(Front(items), CapturedCall(l.kind, l.tool, l.args \o c.args, l.first, c.last, l.closed))
       ELSE Append(items, c)
AllMerged(items) ==
  LET upto[n \in 0..Len(items)] == IF n = 0 THEN <<>> ELSE Merge(upto[n - 1], items[n])
  IN upto[Len(items)]

\* What parses is called, and the same call only once.
Distinct(calls, c) ==
  IF ~c.closed \/ \E k \in 1..Len(calls) : calls[k] = Line(c.kind, c.tool, c.args)
    THEN calls ELSE Append(calls, Line(c.kind, c.tool, c.args))
AllDistinct(items) ==
  LET upto[n \in 0..Len(items)] == IF n = 0 THEN <<>> ELSE Distinct(upto[n - 1], items[n])
  IN upto[Len(items)]

Extracted(lines) ==
  LET calls == AllDistinct(AllMerged(Rewritten(lines, CaptureAt)))
  IN [k \in 1..Len(calls) |-> Called(calls[k].tool, calls[k].args)]

------------------------------------------------------------------------------
Pass(this, At(_, _, _), next) ==
  /\ pass = this /\ rewritten' = Rewritten(rewritten, At) /\ pass' = next
  /\ UNCHANGED <<message, extracted>>

PseudoXml == Pass("pseudo_xml", PseudoXmlAt, "cjk")
CjkBracket == Pass("cjk", CjkBracketAt, "angle")
InlineAngle == Pass("angle", InlineAngleAt, "calling")
CallingMarkdown == Pass("calling", CallingAt, "dsml")
DsmlTags == Pass("dsml", DsmlAt, "content")
XmlContent == Pass("content", ContentAt, "alias")
FileTagAliases == Pass("alias", FileAliasAt, "fences")
MarkdownFences ==
  /\ pass = "fences" /\ pass' = "pairs"
  /\ LET promoted == Rewritten(rewritten, FencesAt)
     IN rewritten' = [k \in 1..Len(promoted) |-> Stripped(promoted[k])]
  /\ UNCHANGED <<message, extracted>>
ArgumentPairs == Pass("pairs", PairsAt, "tags")
TagStyle == Pass("tags", TagsAt, "scan")
Extract ==
  /\ pass = "scan" /\ extracted' = Extracted(rewritten) /\ pass' = "done"
  /\ UNCHANGED <<message, rewritten>>

ParserNext ==
  \/ PseudoXml \/ CjkBracket \/ InlineAngle \/ CallingMarkdown \/ DsmlTags \/ XmlContent
  \/ FileTagAliases \/ MarkdownFences \/ ArgumentPairs \/ TagStyle \/ Extract

------------------------------------------------------------------------------
\* The calls the blocks of a reply stand for, in their order, each once.
Meant ==
  LET all == FlattenSeq([k \in 1..Len(message) |-> message[k].meant])
      once(calls, c) == IF c \in ToSet(calls) THEN calls ELSE Append(calls, c)
  IN FoldLeft(once, <<>>, all)

\* Whatever shapes a reply mixes, the calls found are the ones it writes, in their
\* order: no pass takes lines of another block for its own, no line of a body is
\* called, and no call is lost (extract_tool_calls).
CallsFound == pass = "done" => extracted = Meant
=============================================================================

----------------------------- MODULE MCAutoLoop -----------------------------
EXTENDS AutoLoop

Answer == [stop |-> "completed", tool |-> FALSE, ok |-> FALSE, wrote |-> FALSE, fault |-> "none",
           text |-> "prose", mixed |-> FALSE, plan |-> FALSE, conf |-> "none", valid |-> TRUE,
           calls |-> <<>>]
Lost == [Answer EXCEPT !.stop = "provider_error"]
Cut == [Answer EXCEPT !.stop = "halted"]
Says(text) == [Answer EXCEPT !.text = text]
Calls(calls) == [Answer EXCEPT !.text = "calls", !.calls = calls]
Declares(r, conf) == [r EXCEPT !.conf = conf]
Plans(r) == [r EXCEPT !.plan = TRUE]
Mixes(r) == [r EXCEPT !.mixed = TRUE]
Native(ok, wrote, fault) ==
  [Answer EXCEPT !.stop = "tool_use", !.tool = TRUE, !.ok = ok, !.wrote = wrote, !.fault = fault]

Risk == Calls(<<"read", "risky">>)
StrictReplies ==
  {Answer, Lost, Cut, Risk, Declares(Risk, "low"), Declares(Risk, "high"),
   Plans(Declares(Risk, "high")), Plans(Answer), Calls(<<"other">>)}
BatchReplies ==
  {Answer, Lost, Calls(<<"read", "read", "risky">>), Calls(<<"risky", "read", "read", "read">>),
   Native(TRUE, TRUE, "none"), Native(FALSE, FALSE, "failed"), Native(TRUE, FALSE, "blocked")}
EditReplies == {Answer, Calls(<<"risky">>)}
PlainReplies ==
  {Answer, Lost, Cut, Says("none"), Says("nudge"), Says("promise"), Says("malformed"),
   Mixes(Calls(<<"read">>)), Mixes(Says("prose")), Native(TRUE, FALSE, "none"),
   Calls(<<"read", "read">>)}
ReviewReplies ==
  {Answer, Lost, [Answer EXCEPT !.valid = FALSE], Calls(<<"read">>), Native(TRUE, FALSE, "none"),
   [Calls(<<"read">>) EXCEPT !.valid = FALSE], Cut}
ReportReplies ==
  {Answer, Lost, Says("none"), Mixes(Says("prose")), Calls(<<"risky">>), Native(TRUE, TRUE, "none"),
   Native(FALSE, FALSE, "failed")}

\* The allowances of the code; those a run does not exercise may be smaller.
CodeAllowance ==
  [compact |-> 0, repair |-> 3, schema |-> 2, bilingual |-> 2, plan |-> 1, forced |-> 2,
   nudge |-> 1, promise |-> 2, malformed |-> 1]
SmallAllowance == [CodeAllowance EXCEPT !.repair = 1, !.promise = 1, !.compact = 1]

Batches ==
  [replies |-> BatchReplies, maxSteps |-> 8, maxFailures |-> 4, maxBlocks |-> 3,
   maxNoProgress |-> 3, maxGate |-> 2, maxTests |-> 2, allowance |-> CodeAllowance,
   strict |-> FALSE, prompt |-> FALSE, concurrent |-> TRUE, task |-> "plain"]
Edits == [Batches EXCEPT !.replies = EditReplies]
StrictPlans ==
  [Batches EXCEPT !.replies = StrictReplies, !.maxSteps = 5, !.maxTests = 0, !.strict = TRUE,
                  !.prompt = TRUE]
Plain ==
  [Batches EXCEPT !.replies = PlainReplies, !.maxSteps = 5, !.maxBlocks = 2, !.maxTests = 0,
                  !.allowance = SmallAllowance, !.prompt = TRUE, !.concurrent = FALSE]
Review ==
  [Plain EXCEPT !.replies = ReviewReplies, !.allowance = CodeAllowance, !.prompt = FALSE,
                !.task = "review"]
Reports ==
  [Plain EXCEPT !.replies = ReportReplies, !.maxTests = 1, !.prompt = FALSE, !.task = "bilingual"]

AllProfiles == {Batches, StrictPlans, Plain, Review, Reports}
BatchProfile == {Batches}
EditProfile == {Edits}
=============================================================================

# A TLA+ model of ASI Code

ASI Code (`src/`) is a coding agent for the command line, written in Rust: it
asks a language model, runs the tool calls of its answers, and feeds the
results back. Beside the interactive session it has an auto-agent loop that
goes on by itself, a daemon (`agentd`) that executes queued jobs, and the stores
and servers these need. This directory holds a formal model of it: TLA+ modules
that follow the source, TLC configurations that check them on small instances,
and TLAPS proofs of the results that matter most.

Paths below are relative to `src/src/`. `PROJECT.json` maps every definition
to the lines it models and lists the runs, the mutants that show that each
property can fail, the findings, the hazards and the theorems.

    tlc -config JobQueueClaims.cfg MCJobQueue.tla     # one run
    tlapm JobQueueProofs.tla                          # one module of proofs

## 1. The system

| Component | State it keeps | Operations | What is hard about it |
|---|---|---|---|
| Job queue (`agentd/job_queue.rs`, `mod.rs`, `types.rs`, `result_store.rs`) | one JSON file per job, one lock file per claimed job, result files | submit, cancel, retry, claim, finish, release | several daemons and commands, nothing but files between them; locks that expire; writes that truncate first; kills |
| Remote link, inbox half (`agentd/remote_link.rs`, `pull_once`) | inbox directory, one *seen* file per payload, acks | pull, submit, mark, ack, move | four writes per message, any of which may be the last; several daemons |
| Remote link, outbox half (`push_outbox_once`, `record_completion`) | completions and acks, retry files, sent, dead | post, retry with backoff, give up | lost answers, interrupted pushes, newer events under the same name |
| Service loop (`agentd/service.rs`, `checkpoint.rs`) | report, state file, stop signal | one round: stop?, pull, push, claim, execute, count | a signal shared by all daemons; errors that leave the loop |
| Executor (`agentd/executor.rs`) | working directory of the process, counters of the job | scaffold job, runtime_turn job | `chdir` of the whole process; a panic; limits |
| Auto-agent loop (`orchestrator/loop.rs`, `engine.rs`, `scheduler.rs`, `confidence.rs`, `types.rs`) | the reply at hand, a dozen counters, changed files, stop reason | about twenty branches that steer, gate, batch, run, test | every branch has a counter of its own; a reply replaced by a repair must pass the gate again |
| Turn engine (`runtime.rs`) | history of messages, totals, the model in use | a turn, native tool rounds, retries, batches, compaction, clear, load | fallback after tools have run; a limit of turns that a compaction has to stay ahead of |
| Permissions, security, audit (`runtime.rs`, `permissions.rs`, `security.rs`, `audit.rs`) | mode, allow and deny rules, grants for the next call | decide, ask, remember, log | order of rules; three ways to the gate; snapshots on worker threads |
| Hooks (`runtime.rs`, `/hooks` in `main.rs`) | the file of handlers, environment variables | configure, run an event | two ways to find the file; what counts as a refusal |
| Tools (`tools.rs`, `sandbox/*`, `notebook.rs`, `git_tools.rs`) | files of the project, child processes | read, write, edit, bash, search, bridges | forms of a call and their decoding, line ends, read and write without a lock; timeouts and inherited pipes |
| Parser (`orchestrator/parser.rs`, `json_toolcall.rs`) | none | text to tool calls | ten passes that rewrite one another's lines |
| Providers (`provider.rs`) | partial tool calls of a stream | request, read stream | pieces of several calls mixed, streams that end early |
| Settings (`config.rs`, `policy.rs`, commands of `main.rs`) | a file per project, the configuration, its copies in the runtime | change provider, model, mode, flags, project; remote policy | every command changes some of the three by itself |
| Voice (`voice.rs`, `main.rs`) | variables of the session, environment, configuration, file | settings, listen, speak | four places for one setting |
| Work log (`main.rs`, `orchestrator/loop.rs`) | changed files, change events, synopses, failures | note, tell, validate, test, export | five routes into two lists, a journal that restores one |
| Subagents (`main.rs:490-1010`) | states and channels of threads | spawn, send, wait, wait-any, cancel, close | cancel only drops the channel; the thread goes on |
| Sessions and journal (`session.rs`, `main.rs`) | session files, one checkpoint file | save, load, journal, detect an interrupted loop | several writers of one file, crashes |
| Gateway (`gateway.rs`) | sessions under one lock | turn, list, save | lock held during a turn, poisoned by a panic |
| MCP servers (`mcp.rs`) | records in three scopes, pids | add, start, stop, set scope, export, import | one lock, taken twice; moves of two writes |
| Tokens (`oauth.rs`) | one list per session, project and user | login, logout, status, link | load, change and save without a lock; a list that is saved somewhere else |
| Plugins, skills (`plugin.rs`, `skills.rs`) | records with trust hashes | enable, trust, verify | hash checked before the use; concurrent sessions |
| Wiki (`wiki.rs`) | pages, index, log | init, ingest, query, lint | three files per operation, no lock |
| Other stores (`cron.rs`, `todo.rs`, `memory.rs`) | one file each | load, change, save | no lock; unreadable counts as empty |
| Worktrees (`worktree.rs`) | where the session came from | create, enter, exit | a refused removal forgets the way back |
| Benchmarks (`bench.rs`) | a runtime per round, a fixture in README.md, a report | run the cases of a suite in rounds | a file changed and put back beside users, agents and other runs |
| External runs (`autoresearch.rs`, `tokenizer.rs`) | result tables | run with a timeout | kill and join of pipe readers |
| Self-update (`self_update.rs`) | staged executable | download, verify, hand over | a script outside the program |
| Rendering (`ui.rs`, `markdown.rs`), telemetry, cost, scripts | - | show, log, estimate | text and I/O |

How they interact. The interactive session and the `prompt` command call the
turn engine and then the auto-agent loop, which calls the turn engine back for
every further reply and every tool call; the turn engine calls providers,
permissions, hooks and tools. The daemon's service loop calls the inbox, the
outbox, the queue and the executor one after the other; the executor has a turn
engine of its own. Processes - daemons, commands, the interactive session - share
only files. Threads exist in the tools (pipe readers), the concurrent batches
of the turn engine, subagents and the gateway.

What makes each of them correct: *queue* - a job runs once per request; *inbox,
outbox* - nothing is lost, and repetitions are bounded by faults; *executor,
loop, engine* - they end, at a bounded price, and leave a history that can be
continued; *gate* - a decision given for one call is used for one call, a
refusal stays; *streams, parser* - what is run is what the model sent; *file
tools, bash* - the results say what is so; *settings, voice, work log* - copies
of one thing agree; *stores* - what was saved is there until somebody changes
it; *subagents, gateway* - an answer belongs to the conversation it was asked in.

## 2. The modules

| Module | Models | Extends / uses |
|---|---|---|
| `JobLedger` | what the job queue promises, without files or processes | |
| `JobQueue` | job files, locks, daemons and commands, one action per file operation | `JobLedger` as `INSTANCE` (refinement) |
| `RemoteInbox` | `pull_once` of any number of daemons | `AgentdRoot` |
| `Outbox` | `push_outbox_once`, `record_completion` | `AgentdRoot` |
| `AgentdService` | `AgentdService::run` of any number of daemons | `AgentdRoot` |
| `JobExecutor` | `Executor::execute`, one job after another | |
| `AgentdRoot` | the daemons that share a directory | |
| `AutoLoop` | `run_tool_loop_core` | |
| `TurnEngine` | one `Runtime`: turns, native rounds, retries, fallback, compaction, and the pre-turn guards of the REPL and the loop | |
| `ToolGate` | what a call passes before it runs: rules, mode, approval, review | |
| `Hooks` | the file of handlers, `/hooks config`, `run_event_hooks` | |
| `Settings` | file, configuration and runtime, and every command that changes one of them | |
| `Voice` | the settings of voice, listening and speaking | |
| `WorkLog` | changed files, events, synopses, validation and tests of a turn | |
| `LoopJournal` | the checkpoint file with all who write it, crash and resume | |
| `Subagents` | `SubagentManager` and its threads | |
| `Streams` | the readers of provider replies | |
| `ToolCallParser` | `extract_tool_calls` | |
| `FileTools` | read, write, edit and search, and the forms of a call | |
| `ChildProcess` | bash, `run_command_with_timeout` and hooks as processes with pipes | |
| `Gateway` | HTTP requests, the lock and the session files | |
| `Plugins` | plugin records of several processes, trust and hashes | |
| `McpServers` | MCP records in three scopes, processes of servers | |
| `OAuthTokens` | tokens in the files of session, project and user, of several processes | |
| `Worktree` | git worktrees of a session | |
| `Wiki` | pages, index and log of several runs | |
| `Bench` | `asi bench` of several processes | |
| `Stores` | todos, scheduled prompts and notes of several sessions | |
| `Lists` | the picks from a list that several modules make, by places | |
| `MCJobQueue`, `MCAutoLoop`, `MCTurns`, `MCAgentd`, `MCSession` | instances for TLC | the modules above |
| `JobQueueProofs` | theorems about `JobQueue` | `JobQueue` |
| `AgentdProofs` | theorems about the four parts of the daemon | `MCAgentd` |
| `TurnsProofs` | theorems about `AutoLoop` and `TurnEngine` | `MCTurns` |
| `ListProofs` | lemmas about what is made of a list along its numbers, and what is picked of one | `Lists` |
| `ToolProofs` | theorems about `ToolGate`, `ChildProcess`, `Hooks`, `FileTools` and `ToolCallParser` | the five, `ListProofs` |
| `SessionProofs` | theorems about `Settings`, `Plugins`, `Voice`, `Streams`, `LoopJournal`, `Gateway`, `Subagents`, `McpServers` and `Worktree` | the nine |
| `StoresProofs` | theorems about `OAuthTokens`, `Stores`, `WorkLog`, `Wiki` and `Bench` | the five, `ListProofs` |
| `MCSessionProofs` | what these prove of the parts, of a behaviour of `MCSession` | `MCSession`, the three |

### JobQueue

`file`, `lock` and `stored` are the job files, lock files and result files. A
job file holds a record, or is absent, empty (`fs::write` has truncated it) or
garbled (two writers overlapped). A worker walks through `claim_next`: it lists
(`unread`, `listed`), picks the oldest queued record of the newest `ListLimit`,
acquires the lock in three steps (look, remove if stale, create), reads again,
saves `running` in two steps, executes, stores the result, saves the outcome and
releases. By default a daemon ends the first time there is nothing to claim, and
otherwise at a limit of loops or jobs or when it is told to stop: `EndTurn` lets it
end after any turn of its loop. A client submits, cancels or retries without any
lock, as the code does. Expiry of a lock is an event; a kill may hit any process at any step.

`JobLedger` is the abstract specification: executions of a job never overlap
and each has a request of its own. `LedgerSpec` maps `executing` to "some worker
is between saving `running` and finishing".

### RemoteInbox, Outbox, AgentdService, JobExecutor

The four parts of the daemon beside the queue. A pull and a push are sequences
of file operations per daemon; `CutPull` and `CutPush` end one between any two of
them (an error that returns, or a kill), `RefuseUnread` is the error that refuses
a message for good, `MarkTruncate` and `TruncateRetry` leave the half-written
file behind. An ack is named after its file and the second it is written in, so
that of two daemons in one second the later takes the place of the earlier: `PutAck`
chooses whether a second has passed, and `overtaken` has the files it happened to. The service's actions are the statements of `run`, with pull, push,
claim and execution reduced to their outcomes; a fault of the disk is a choice
in every write of the state file and every removal of the signal. The executor
models the working directory because every path of the daemon is derived from
it (`agentd/mod.rs`, `agentd_root`).

They share no variable in the model. `MCAgentd` checks them in one run: `part`
says which of them a behaviour is about, so that the state space is the sum of
theirs. It is not a composition: that is the next step of the plan. `MCSession`
does the same for the modules below, `MCTurns` for `AutoLoop` and `TurnEngine`.

### AutoLoop

One action per branch of `run_tool_loop_core`, in the order of the code: the
guard of a branch is the negation of the earlier ones and its own condition.
The model's answers are a set of flags (`Reply`) - what stop reason, which kind
of text, which tool calls, whether it declares a confidence - and every call,
test and confidence retry may go either way. A `profile` fixes the limits and
modes of one loop; a run checks several profiles at once.

### TurnEngine, ToolGate, Hooks, Streams, ToolCallParser: a turn

`TurnEngine` is one `Runtime`. `messages` is the history, as tags: what matters is
where announced calls and their results stand. `phase` follows `run_turn`: the
request, the native rounds, the retry, the change of model, the fallback to the
text protocol after a call may have run, and the continuation of a reply that was
cut. The guards before a turn are part of it, because the limit of turns is kept by
them: `NearLimit` is the one of the REPL, the automatic compactions of the loop are
counted in `compactions`. `Engine` is what the thread of the session does by
itself; the provider's answers are its choices.

`ToolGate` takes a call from its arrival to its audit entry: the hooks, deny rules,
grants, allow rules, mode, question and review in the order of the three paths of
the code (native, `/toolcall`, batch with a snapshot of the rules). A rule is a
sequence of words and covers what begins with it. `Hooks` decides which handlers
an event runs - from which file, in which order, under which policy - and
`ChildProcess` how one runs. `Streams` has what a provider may send in the order it
may send it, and the readers' tables of partial calls. In `ToolCallParser` a line is
a kind with labels; a pass is one action, a fold over the lines that rewrites them.
The instance builds every message of up to `MaxBlocks` blocks out of one block per
shape, and `Meant` is what the blocks say by themselves.

### Settings, Voice, WorkLog, LoopJournal, Subagents, Worktree: the session

`Settings` has `file`, `cfg` and `rt`, and an action per command; `flags` stands for
the fields that `apply_runtime_flags_from_cfg` copies. `Voice` has the same problem
with four places. `WorkLog` has the lists, with an action per route on which a file
gets into them and the limits of validation; a session may crash and resume from the
journal. `LoopJournal` is the checkpoint file with every writer of it; the write is
two steps, so that a crash leaves it torn, and one that fails may too (`FillFails`). `Subagents` has `launched`, a run per
thread, and `active`, the run the manager waits for; a run that is dropped goes on.
`Worktree` has paths as sequences of branches because `git rev-parse` is asked
wherever the session is.

### FileTools, ChildProcess, Gateway, McpServers, OAuthTokens, Plugins, Wiki, Bench, Stores

`FileTools` has one file, a user who writes it at any time, an edit in two steps
and a reader who pages through it; `known` is what a reader of the results alone
would believe. `ChildProcess` has the shell, a process it left behind, pipes of
bounded size and the reader threads, for the three runners of the code. In the
other modules the files are variables, every process reads and writes them in
steps of its own (one step where a note in the module says so), and a write may
fail or be cut where the code has an error path for it.

`std::fs::write` truncates the file before it writes, so a write that fails, or that
the end of the process cuts short, leaves less than there was. The modules whose
properties are about what a file keeps have this: `Gateway` loses a session with all
its turns (`CutFile`, `KillGateway`), `Wiki` a part of the index, of the log or of a
page (`CutIndex`, `CutLog`, `CutPage`, `CutFiles`), `OAuthTokens` a list
(`TornTokens`), `Bench` a part of README.md, after which no fixture is held that could
put it back (`PrepareWrite`, `CutReadme`), `Stores` a list or the end of the notes
(`LeftByCut`), `FileTools` a part of the text (`CutWrite`), `Plugins` the records
(`Saves`). One who reads such a file while it is written sees a part of it
(`ReadIndex`, `ReadLog`, `ReadThe` of `Bench`). A file that exists but cannot be read
counts as empty and is written over without a word in `Stores` (`Reading`),
`OAuthTokens` (`ReadFails`), `Plugins` (`LoadRecords`) and for the log of the wiki
(`ReadLog`). What is lost so is recorded - `cut_files`, `torn_index`, `torn_log`, the
third part of `bench_edits`, `stale` - and the properties excuse it by name: they say
that nothing else is lost.

## 3. The runs

| Run | Instance | Shows |
|---|---|---|
| `jobqueue_claims` | 2 workers, 1 client, 1 job, 2 requests, 1 expired lock, 1 kill | overlap bounded by removed locks; no execution without a request while no lock was removed; without a kill nothing is orphaned; a cancel is final |
| `jobqueue_ledger` | 2 workers, 1 client, 2 jobs, no expiry, 1 kill | refinement of `JobLedger` |
| `jobqueue_window` | 1 worker that may end after any turn of its loop, 1 client, 2 jobs, window of 1, fairness | a queued job in the window is served as long as daemons are started (liveness) |
| `agentd_alone` | 1 daemon, 3 files of 2 payloads, 1 event in 2 versions, up to 3 cut pulls and 2 cut pushes, 4 attempts, 6 rounds, 5 steps per job | what one daemon promises, and that messages, events and jobs come to an end |
| `agentd_race` | 2 daemons (symmetric), 1 cut pull, 1 cut push, disk faults | what still holds when daemons race |
| `turns` | `AutoLoop` with 5 profiles: strict, plain, review, bilingual reports, concurrent batches; `TurnEngine` with 3 inputs, 2 calls of a reply, 1 retry, 2 continuations | the turns of a loop are bounded by its limits, and it ends; every prompt finds room, the history can be continued, and every turn ends |
| `autoloop_tests`, `autoloop_progress`, `autoloop_stopped` | one profile each | findings, see below |
| `session` | one component at a time, two processes where processes share files | the nineteen other modules of the session and the services beside it |
| `session_resume`, `session_profile` | the same, `LoopJournal` and `Subagents` only | findings, see below |

Why the bounds are enough. Two workers are what a race on a lock or a file
needs, and one expired lock lets a third owner in the overlap of two; the bound
of `BoundedOverlap` is proved for all numbers. Three inbox files are two of one
payload (a duplicate) and an invalid one; one event in two versions is an event
that is written anew during a push; four attempts reach the cap of the backoff
(1, 2, 2) before the event dies. Step limits of 5 to 8 in `AutoLoop` are larger
than every batch, so each limit is reached from both sides. `MaxReclaims`,
`MaxCrashes`, `MaxRequests`, `MaxTime`, `MaxCutPulls`, `MaxCutPushes`, `MaxVersions`,
`MaxLag` and `MaxCalls` are bounds of the model; `ListLimit`, `MaxAttempts`,
`BaseDelay`, `MaxDelay`, `MaxLoops`, `MaxJobs`, `MaxSteps`, `MaxFailures` and the
fields of `Profile` are parameters of the program.

In `turns`, with `MaxTurns` = 3, a threshold of 3 and `KeepLast` = 2 the limit of
turns is met by follow-ups of the loop after each kind of compaction, and a
compaction leaves something to remove. Three prompts and commands are one that
fills the history, one that compacts and one that must pass. In `session`, two blocks
of a message show how one shape takes lines of another; with `MaxBlocks` = 3 (335,172
states) `CallsFound` holds too. `MaxWork` = 4 reaches a file that is
changed on two routes, a crash and a resume; it does not reach an ordinary reply with
changes after a crash, which `ChangesTold` covers for every bound. Texts of up to five lines are read in
pages of 1 (default), 2 and at most 3 lines. The search has limits of 2, with trees
of up to 3 files, so that each limit is met and passed. Two runs of the wiki at once
of three in all are a page of the same second and a cut one; two processes with two
ids and two directories are every way of sharing the three token files; three
commands on a list are an item added, removed and added again, and two of them may
overlap. `Bench` has a plain case and the one with the fixture, in two rounds and in one, with
as many turns as the first round uses up, and two seconds for the reports; which of them a
report falls into is chosen when it is written. One cut file (`MaxHttpFaults`, `MaxTears`,
`MaxBenchFaults`, `MaxKeepFaults`) is what it takes to lose what was there; two losses
in a row lose no more. The limits
`MaxHookOps` = 1 and `MaxVoiceOps` = 3 count commands besides a start or an event;
one file of hooks written by hand stands before the command.
`Max...` constants that name a parameter of the program are `MaxTurns`, `MaxCapture`,
`MaxLines`, `MaxHits` and `MaxVisited`, and `MaxRepeat` of `Bench`; the others are
bounds of the model.

The properties worth a reader's time:

- `BoundedOverlap`, `LaunchesRequested`, `LedgerSpec`: what the lock protocol gives
  although the stale-lock check is not atomic and the release does not look at
  the owner. Each removed lock costs one overlap, never more.
- `CancelSticks`: `cancel_job` takes no lock; a worker that had claimed may write
  over it, but one that only saw the old listing cannot.
- `MessagesKept`, `SubmittedBounded`, `Handled`: no message is lost and an ack says what
  was done with it, unless another daemon wrote its own over it in the same second; double
  submission is bounded by the daemons and the interruptions, and a seen file that stays
  torn is the only thing that blocks the inbox.
- `EventsKept`, `DuplicatesBounded`, `Settled`: the same for events. Those that hold
  for one daemon only say so.
- `SavedAtHome`, `TurnsBounded` (`JobExecutor`): records are saved where they belong;
  a job has a price. `TurnsBounded`, `LoopEnds` (`AutoLoop`): so has a loop, and it
  ends.
- `PromptAccepted`: a prompt is never turned away for the number of turns, because
  room is made first. `CallsAnswered`: no request ever shows calls without results,
  through every fallback and compaction. `TurnEnds`: a turn ends.
- `NextIsForNext`, `DenialHolds`: a grant for the next call does not survive it, a
  refusal for good does not yield to anything but another mode.
- `CallsFaithful`, `CallsFound`: what is run is what the model sent, over both stream
  protocols, and what it wrote, in every mixture of two shapes.
- `RuntimeFollows`, `VoiceSurvives`, `ChangesAgree`: the copies of a setting, and of
  the record of the work, agree after any sequence of commands, crashes included.
- `FinishedNotOffered`: a loop that ended is not offered for resume. `Conversation`: an
  answer of a subagent stands after the history it was asked with.
- `FilesTold`: a reader who follows pages and edits knows the file. `OutputFaithful`:
  the output of a command is the prefix of what it said and what is left out is
  counted.
- `TurnsKept`, `OnlyTrusted`, `TokensAccounted`, `WikiAccounts`, `BenchAccounts`,
  `StoresAccounted`: what the stores keep beside other processes and failing
  writes, with the damage bounded by its causes, which include the parts of a file that
  were torn off. `TypesOK` says for `McpServers` that
  a record is in the file of the scope it names, also between the writes of a move,
  and for `Worktree` that a branch is checked out once.

### Findings

- `autoloop_tests`: README.md promises a limit on *consecutive* test failures; the
  counter is never reset (`orchestrator/loop.rs:1394`).
- `autoloop_progress`: README.md says that a round with a successful tool call is
  progress; successful calls of the round itself are not looked at (`:195`).
- `autoloop_stopped`: "auto-agent stopped" is printed inside a batch and the loop
  goes on (`:1181`).

- `session_resume`: README.md:71 says that a session which starts after a crash in a
  loop asks whether to resume it; another loop or the checkpoint of the session may
  have written the one file since (`main.rs:14862`).
- `session_profile`: README.md:621 says the tools of an agent profile are enforced in
  the runtime of the subagent; `/agent send` and `/agent retry` start a run with the
  configuration of the session (`main.rs:4125`).

### Other disagreements and surprises

Met while modelling; the modules follow the code. They are listed here without a run
of their own.

- *Hooks.* README.md:831-832 says explicit denies block always and other failures
  under fail-closed only. `{"allow": false}` without `is_error` and a plain non-zero exit
  pass under fail-open, and output that is no JSON with exit 0 allows. A file named by
  `ASI_HOOK_CONFIG_PATH` that cannot be read is ignored. `/hooks config validate` accepts
  names of events the runtime never matches and refuses `*`; without the variable the
  commands write `.asi/hooks.json`, which the runtime never reads.
- *Parser.* A fenced shell block of several lines that are no calls is dropped; fences
  inside the body of a heredoc are rewritten; a stray quote hides the fence after it.
- *Voice.* A timeout of hold-listen counts an attempt and no outcome; a session on a
  platform without voices saves `voice_enabled=false` at its end; an error of
  `/voice config` ends the session without its regular save.
- *Work log.* README.md:48 promises change tracking: native writes of the first reply
  and of gate turns are never listed when the loop goes on; those of forced
  execution and report turns are listed but are no events, so not validated. The events
  of the last turn are doubled; a `/changes export` that cannot be written ends the
  session; the error "not found" of bash is told as `status=ok`; an edit does not
  invalidate the synopsis of its file.
- *File tools.* `start_line` without `max_lines` reads from line 1 again, and that is what
  the hint at the end of a page suggests (`provider.rs:143`, `tools.rs:1604`). A heredoc or
  native write whose text contains `content=` or `path=` is taken for named arguments:
  with one it is refused, with both it writes another file (`tools.rs:160-170`, `:658`).
  A text is cut at a line `CONTENT` or `<<<END` in native calls too. A native edit loses
  the newlines at the end of its texts. In a file of mixed line ends an edit accepts
  a text that occurs twice up to them, and the fallback makes all of them CRLF; an
  old text that begins with a newline leaves a stray CR. `grep` and `glob` stop at 300
  without a word.
- *Wiki.* The log, "Append-only" (`wiki.rs:809-812`), is read and written anew: one that
  cannot be read is replaced, and runs at once lose entries. Two saved queries of one
  second share a page. Reports of `lint` are never indexed and count as missing and as
  orphans; a link from the index does not count as inbound.
- *Bench.* Nothing compacts the runtime a round shares, so its later cases fail at
  `max_turns`. Two runs at once leave the fixture in README.md; what others write while
  a case has the file is written over; a failed restore discards all results. The
  fallback commands can pass a case the model failed. Reports of one second
  overwrite each other.
- *Tokens.* `/oauth login` copies the list of the project, tokens of its MCP servers
  included, into the user's file if that is missing; if that cannot be written its
  list goes over the project's. A process id that comes again finds the tokens of an
  old session. `--link-auth` copies the token into the record of the server, where a
  logout leaves it. A logout of all scopes stops at the first error. The empty list a
  logout leaves in the user's file hides a token in the project's.
- *Stores.* `cron.rs` and `/cron run-once` say that a scheduler of the daemon fires the
  jobs of `cron.json`; nothing in `agentd/` reads it. A schedule file that does not parse
  starts the ids anew although they are "never reused" (`cron.rs:37`); the id of the last
  todo is given again once it is removed. `/todo done` and `/todo rm` of an unknown id
  save all the same, and so replace a file that does not parse by an empty one. A step
  on a single value (`5/15`) means that value only.
- *MCP servers.* A start of a server that is not known takes a lock that the same thread
  holds (`mcp.rs:466`, `:312`): the session waits for ever. `hung` in `McpServers` has
  these sessions.

### Fairness

`jobqueue_window`: a running daemon takes its steps (its loop has no other
wait than a sleep) and a command once begun ends; no user acts. Nothing in the code
keeps a daemon running: `stop_when_idle`, the default, ends it the first time
`claim_next` returns none (`service.rs:101-113`), `max_loops` and `max_jobs` end it sooner
(`:38-47`), and an error leaves the loop. Nor does the code start one. So `QueuedIsServed`
has `NoDaemon` beside the claim: a job is served as long as daemons are started, whichever
turn of its loop each of them ends with. `agentd_alone`: the service pulls and pushes in every
round, and pulls and pushes go on, be it of a daemon that somebody starts again
(`PushStep`, `PullStep`): what `Handled` and `Settled` promise, they promise to one who
keeps starting daemons. The clock runs (`Tick`), and the calls of a running job return (`ExecutorStep`: the
HTTP client and the tools have timeouts; that of `bash` is less certain than it
looks, see the hazards). `turns`: the loop is sequential, so weak fairness of
its next step says only that turns and tools return; of `TurnEngine`, the steps that
are not inputs are fair: the thread of the session waits for nothing but the
provider, whose client has a timeout. `session` has no liveness. No fairness is
assumed of faults, kills, expiry, users or senders.

## 4. The proofs

The theorems hold for every value of the constants that satisfies the
assumptions in the modules: bounds are naturals, sets that are counted are finite
(`WorkersFinite`, `DaemonsFinite`), ids of tokens can be distinct (`TokenBounds`).
Where a theorem needs more, the row says so. A specification that only the proofs
name (`GatewaySpec`, `StoresSpec`, ...) is the `Init` and `Next` of the component
that the runs of `MCSession` take.

| Theorem | Argument |
|---|---|
| `JobQueueProofs!TypeCorrect` | `TypeOK` is not inductive: `TypeInv` adds what a process holds at which step (a job where it works on one, a record where it will write one) |
| `JobQueueProofs!OverlapBounded` | a worker becomes a holder only by creating a lock, which needs its absence; the lock goes away by a holder that leaves or by a removal that `reclaimed` counts. Needs finite sets and their cardinalities (`HoldersStep`) |
| `JobQueueProofs!LaunchesBounded` | `LaunchInv` counts the request a worker has read and not yet turned into an execution (`Pending`); with `reclaimed = 0`, `OverlapBounded` makes the worker the only holder |
| `JobQueueProofs!OrphansExplained` | `OrphanInv`: while nobody was killed every lock, every `running` record and every empty file has a process `Attended` to it, and a step either is that process's or leaves its reason alone |
| `JobQueueProofs!CancelsStick` | an action property: by cases of the steps that write a job file, each of which needs a claim or a record it has read |
| `JobQueueProofs!QueueImplementsLedger` | if locks never expire (`MaxReclaims = 0`): the invariants above make every step of the queue a request, a launch, an end or a stutter of the ledger |
| `AgentdProofs!InboxTypeCorrect`, `NoMessageLost` | a file that was listed never comes back, what is seen was submitted, and a daemon about to tell the sender has a reason (`VerdictHolds`) that no other daemon can take away; the last ack of a file is that of the daemon about to move it, or was written over another's in the same second |
| `AgentdProofs!SubmissionsBounded` | `SubmissionsCounted`: the submissions of a payload are at most one, one for each daemon that has looked and not yet marked (`MarkingSeen`), and the cuts between the two; counted over finite sets that differ in one daemon (`OneApart`) |
| `AgentdProofs!NoEventLost`, `OutboxTypeCorrect` | the newest version is written into the outbox, and every move of what is there keeps it; a torn retry file has a daemon at work on it or a cut push (`TornExplained`) |
| `AgentdProofs!PostsBounded` | of one daemon (`Alone`): a version is posted as often as failures were registered, pushes cut and one more while it is underway (`PostsCounted`, `Settling`); versions not yet written have no posts (`Unwritten`) |
| `AgentdProofs!ServiceTypeCorrect`, `ExecutorTypeCorrect`, `TurnsWithinSteps`, `AtHome` | `TurnsPaid`: between turns the calls run are at least the turns; the directory follows the step the job is at |
| `AgentdProofs!PartsTyped` | the four together, whichever part moves |
| `TurnsProofs!LoopTypeCorrect`, `AskedBounded` | `TurnsBounded` is far from inductive. `WithinLimits` bounds every counter of the loop by its limit, `TurnsPaid` says that each turn asked was paid for by one of them (`Price`: the budgets spent, the steps, the retries of the gate, and what the branch at hand still owes); each of the twenty branches moves a unit from one to the other |
| `TurnsProofs!EngineTypeCorrect`, `CallsHaveResults` | histories are a system prompt and a body in which announced calls stand before their results; the lemmas say that appending, cutting and compacting keep that form |
| `TurnsProofs!PromptsFit` | `PromptFits`: what the guards leave is below the limit, if the limit exceeds what a compaction keeps |
| `TurnsProofs!TurnsTyped` | loop and engine together, as `MCTurns` runs them |
| `ToolProofs!GateTypeCorrect`, `GrantedOnce` | a `/toolcall` takes its grants along before it runs (`ManualTakesNext`) |
| `ToolProofs!RefusalsHold` | `RefusalsSaid`: a refusal leaves the rule it suggests, and that rule covers the call (`SuggestedCovers`); `PastApproval`: the place where a call stands remembers that it passed |
| `ToolProofs!ChildTypeCorrect`, `OutputKept` | `InLine`: the collected lines of a pipe are its first, those in the channel come after them and the dropped ones, and then comes what is to be read. `Full`: once a line was dropped there is no room again. `TextRead` and `Ended` say why a reader stopped, `Outcome` that nobody can tell the thread more when it is done. The lists of two pipes are mixed: `PiecesOf` counts, and `FollowsOn` says what a list continued by another has |
| `ToolProofs!HooksTypeCorrect` | every command makes a list of handlers of a list of handlers; an import is a fold along the incoming list (`Merged`), whose value exists and stays in the set by `ListProofs!FoldExists` and `FoldStays` |
| `ToolProofs!FilesTypeCorrect` | texts are joined, split into lines and cut by functions along their places; each is shown to be a text for every text. A search walks its tree in a fold, whose state after any number of files has at most `MaxHits` hits (`WalkTyped`) |
| `ToolProofs!PagesFollow`, `SearchFindsAll` | the first: a page begins where the one before ended, and any write ends `same`; so `PagesTold` is inductive with the types. The second: as long as neither limit was met, the walk has the hits of every file it has been at (`WalkedBy`, `WalkFinds`) |
| `ToolProofs!ParserTypeCorrect` | a pass is a fold along the lines (`Rewritten`): at every place what it puts there are lines, for each shape it knows; the calls at the end are picked and merged, which makes none |
| `SessionProofs!SubagentsTypeCorrect`, `ConversationKept` | `AgentsOK` relates, per subagent, its state, its history, the run it waits for and what that run was given; a run that was dropped can tell nobody |
| `SessionProofs!GatewayTypeCorrect`, `OneInside`, `NoTurnLost` | a request past the lock has it (`Exclusive`), what it loaded is what is stored (`LoadedIsStored`), and the file is what was there and what was answered, or a write cut it and it does not load (`StoredUnder`) |
| `SessionProofs!McpTypeCorrect` | that a record is in the file of the scope it names holds of the writes a session has yet to do, too (`StepsOK`), so also between the two writes of a move |
| `SessionProofs!WorktreeTypeCorrect` | the type invariant, which says that a branch is checked out once, is inductive as it stands; paths are sequences of branches that are extended and cut |
| `SessionProofs!VoiceTyped`, `StreamsTyped`, `JournalTypeCorrect` | the first two from the invariants of `VoiceKept` and `CallsHeard`; for the journal, that a save which says a loop runs names it (`LiveNamed`) |
| `SessionProofs!SettingsTyped`, `CopiesInStep` | `RuntimeFollows` with the types is inductive; one step per command |
| `SessionProofs!HooksTrusted`, `PluginsTyped` | `Trusted` of the file, the export and every copy in memory, also of what an event has in hand |
| `SessionProofs!VoiceKept` | while a session is open, variables and environment are `InStep`; what a command changes in one place it changes in the other, or saves (`Kept`) |
| `SessionProofs!CallsHeard` | as long as nothing is lost, the reader's table has what was sent so far of every call (`AllHeard`), and where a stream may end is known from its state |
| `SessionProofs!FinishedStays` | an action property: `OneWriter` and `EndedStays` say that nobody is left who could write a live record of a loop that ended |
| `StoresProofs!TokensTypeCorrect`, `TokensHold` | `OwnIds`; a process at an operation holds lists that fit what it will write (`OpsFit`); while nothing overlapped or failed, a cleared token is in no list (`Cleared`) and the last one saved is the first found (`SavedLast`) |
| `StoresProofs!StoresTypeCorrect`, `StoresHold` | `Numbered`: ids of a list are distinct and below the next one; what a command has read is numbered too (`Read`), also if it could not read and took the file for empty; `AsTold` and `NewIds` tie the file to what the user was told, from the last write that was cut or did not know the file. `retain` is by ranks (`Ranks`, `Fields`), and the recursion of a schedule's steps is solved by a formula and a least counterexample (`Steps`, `Least`) |
| `StoresProofs!ChangesTold` | `OneStory`: the lists of now and those of the journal fit, and the disk has what the last reply did; `InSight`: what the end of the turn will look at has all that is owed; `SeenTo` between turns. A list is extended by ranks of first places (`PushedHas`); a Python file that is not validated needs more than the limit before it (`Enough`), and a resume only adds (`KindsGrow`) |
| `StoresProofs!WorkTyped` | beside the invariant of `ChangesTold`, `WorkTypes`: lists are picked and extended by places, so that none names a path twice and none is longer than it is cut to (`ListProofs`) |
| `StoresProofs!WikiTypeCorrect`, `WikiHolds` | damage is counted together with what the runs under way may still do: entries that are in no log, or not in one about to be written (`LogsAtRisk`), and the runs at work (`Busy`) number at most one more than the causes (`Covers`); so with pages and the index (`PagesAtRisk`, `Indexing`), and every source has its name or is waiting to take it (`Named`). Only a run that begins beside another adds a cause, and only a run that ends leaves damage. What a run did not see of the index or the log because it read a part, or is about to lose by a part of its own, is in `torn_index` and `torn_log` by the time it is missing |
| `StoresProofs!BenchTypeCorrect`, `BenchHolds` | without an excuse one run has README.md, what it will put back is without the fixture, and so is the file until the run writes it (`FixtureKept`); what is safe is in the file and in all that may be put back (`SafeKept`), but for what was torn off by then; a paper of a name is of a run that has the name (`Filed`). Counts by rounds and by dimensions add up since places and ranks correspond one to one (`Summed`). That first cases have their turn needs `BenchTurns` > 0: flags and policy clamp it to 1 (`app/commands.rs:133`, `policy.rs:62`), a configuration file may say 0 (`config.rs:267`), which refuses every turn |
| `MCSessionProofs!SessionTyped`, `SessionKept` | the initial states of the run are initial states of each part (`PartsBegin`), and a step of it is a step of one part and a stutter of the others (`PartsStep`): so `TypesOK`, and with it the promises of all parts that are proved, are theorems of the specification the run checks, for every value of its constants |

How data is treated. Induction over data would need an operator as a parameter of
the theorem. What a fold makes of a list is written as a function along the
numbers; that such a function exists and that its values stay in a set their steps
stay in is proved once, in `ListProofs`, with the least counterexample in the place
of the induction. `Lists!Picked` selects by places, so that facts about places suffice.

Proofs changed the model. The attempt to prove the types of `ToolGate` found the
rule suggested for a call without arguments: `edit_file` and `write_file`
without any suggest the tool alone (`FirstWords` of `ToolGate`), where the model had
read a first word that does not exist. The types of `Plugins` did not hold without any
plugin, because a process at rest names one; they say so now. `OAuthTokens`, `Stores`,
`ChildProcess`, `WorkLog`, `Wiki`, `Bench`, `Hooks`, `ToolCallParser` and `FileTools` were
written anew where they used folds and selections over sequences, which the
provers have no facts about: by places, ranks and numbers instead; the runs reach the same
numbers of states.

What stays with TLC:

- liveness (`QueuedIsServed`, `Handled`, `Settled`, `JobEnds`, `LoopEnds`, `TurnEnds`),
  as this prover does not treat fairness and `ENABLED`;
- `CallsFound` of the parser: it holds of the blocks of the instance (`Meant` is given with
  each), not of any set of blocks, so there is nothing to prove for every one;
- `FilesTold` as a whole. Of its four parts `PagesTold` and `SearchTold` are proved.
  `KnownTold` and `DiffTold` are false for arbitrary texts, and rightly so: a text with two carriage
  returns before a newline is not what it is after its line ends were unified twice,
  and the diff of an edit whose old text begins inside a CRLF names another line than the
  one it is at. `Texts` and `Edits` of the instance have neither, so the run says what is true of files
  without them.

No module declares a `RECURSIVE` operator.

## 5. What is abstracted

- Texts, prompts, rendering and logs. The heuristics on texts are flags of a
  reply that the environment sets; it may set them as it likes.
- File contents are what the properties tell apart: a record, empty, garbled; a
  payload; a version; attempts and time to wait. Torn states are modelled for job, seen,
  retry and ack files, the checkpoint, session files, records of MCP servers and plugins,
  tokens, todos, schedules and notes, the pages, index and log of the wiki, README.md
  under a benchmark, and edited files. A completion and the state file of the daemon are
  written in one step, as are the file of the settings and the reports of `asi bench`: a
  write of these that fails leaves the file as it was. Records of MCP servers that exist
  but cannot be read count as empty in the code; the model has that only for a file that
  was cut.
- Times: the 1800 s of a lock are an event; the clock of the outbox ticks while a
  push lasts at most `MaxLag`. Without an endpoint a push does nothing; it is left
  out. Acks in the outbox behave like completions that are written once.
- The inbox has files that are written once, as by a sender that uses fresh
  names; a file replaced between its two reads (`remote_link.rs:106`, `:136`) is
  not modelled.
- The journal and the automatic checkpoint that the loop writes on its way are in
  `LoopJournal`; that of `asi prompt` which a session resumes is only there.
- `MCSession` and `MCTurns` are sums of components, not compositions: `part` is one of them, the
  others stand still. What one asks of another is a choice there: `ToolGate` does not
  know which hook denied, `TurnEngine` not which call was refused.
- `ChildProcess` leaves out the heartbeat of a long command, an error of `try_wait` and the
  second attempt of a `yarn` command on Windows; `ToolGate` leaves out hooks that
  answer with JSON of their own rules. A plugin's files are hashed when an event
  begins, and what is edited between that and the run of its hook is not seen.
- `Gateway`: a turn may take less than a millisecond, or longer; names of sessions are
  milliseconds either way. The conversion of options of the command line into
  commands of the session is left out.
- `FileTools`: every old text of an edit begins with a word. The forms of a call are in,
  the schema of its JSON is not.
- `McpServers`: the mode of one state file (`ASI_MCP_STATE_PATH`) is left out.

### Not modelled

- Identity, health, notifications and the safety gate of the daemon: an identity that is
  written once, a snapshot for display, a POST whose errors are ignored, a pure check.
- Self-update: download, hash, and a script that waits for the parent and copies.
  What can go wrong happens in that script.
- Path and command guards (`security.rs`), the audit log, telemetry and cost: text work,
  or lines appended that nothing reads back.
- Bridges of the tools (web, git, notebooks, research), the metrics and result tables of
  `autoresearch.rs` and `tokenizer.rs`, skills, rendering, commands that only print.
- Calls written as JSON or in the form of a function (`json_toolcall.rs`, the last part of
  `parser.rs`), whose shapes are matters of characters.
- Scripts, installers and CI.

`PROJECT.json` has the same list by component.

## 6. The plan

Done: the queue with its abstract specification, the four parts of the daemon, the
auto-agent loop, the modules of the session and of the services beside it, and
the proofs above, with the types of every module among them. Next, in this order:

1. Abstract specifications: a gateway whose turns are atomic, a store whose commands
   are, each implemented by the module with its steps as long as nothing overlaps.
2. `Agentd`: the service loop composed with the inbox, the ledger of jobs (in the
   place of the queue, which implements it), the executor's outcome and the
   outbox; end to end: every accepted message becomes a job whose completion is
   posted or dead, a stop leaves nothing claimed, a restart repeats no job that
   was finished.
3. A turn end to end: `TurnEngine` with `ToolGate` in the place of its calls, then with
   the journal of the loop.

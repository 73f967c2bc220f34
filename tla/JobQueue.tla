------------------------------ MODULE JobQueue ------------------------------
(***************************************************************************)
(* The persistent job queue of the agent daemon (src/src/agentd): a        *)
(* directory with one JSON file per job, a directory with one lock file    *)
(* per claimed job, worker processes that run AgentdService's loop over    *)
(* JobQueue, and command-line processes that submit, cancel and retry      *)
(* jobs.  Nothing but these files connects the processes, so one action is *)
(* one file operation.                                                     *)
(***************************************************************************)
EXTENDS Naturals, FiniteSets

CONSTANTS Jobs,         \* sanitised job ids: the names of the job files
          Workers,      \* daemon processes
          Clients,      \* command-line processes
          ListLimit,    \* list_jobs(500) in claim_next
          MaxRequests,  \* bound: submits and retries begun per job
          MaxReclaims,  \* bound: a lock expires while fewer were reclaimed
          MaxCrashes,   \* bound: processes killed
          MaxTime       \* bound: seconds on the wall clock

ASSUME BoundsAssumption ==
  /\ ListLimit \in Nat \ {0}
  /\ MaxRequests \in Nat
  /\ MaxReclaims \in Nat
  /\ MaxCrashes \in Nat
  /\ MaxTime \in Nat

ASSUME WorkersFinite == IsFiniteSet(Workers)

VARIABLES
  file,       \* the job files: a record, or Absent, Empty or Garbled
  lock,       \* the lock files: "none", "fresh" or "stale" (1800 s old)
  stored,     \* whether results/<id>.result.json was written
  pc,         \* what each worker does next
  unread,     \* the files a listing has still to read
  listed,     \* the records a listing has read; then claim_next's candidates
  mine,       \* the job a worker is trying to claim, or has claimed
  copy,       \* a worker's in-memory JobRecord
  cpc,        \* what each client does next
  cjob,       \* the job a client writes
  ccopy,      \* the JobRecord it is going to write
  now,        \* epoch_seconds
  requests,   \* history: how often a job's file was written as queued
  launched,   \* history: how often a worker won the right to execute it
  reclaimed,  \* history: how often its lock was removed as stale
  crashes     \* history: processes killed so far

fileVars == <<file, lock, stored>>
workerVars == <<pc, unread, listed, mine, copy>>
clientVars == <<cpc, cjob, ccopy>>
history == <<requests, launched, reclaimed, crashes>>
vars == <<file, lock, stored, pc, unread, listed, mine, copy, cpc, cjob, ccopy,
          now, requests, launched, reclaimed, crashes>>

-----------------------------------------------------------------------------
(* Records *)

JobStates == {"queued", "running", "succeeded", "failed", "canceled"}

\* error is None, "canceled_by_user" or the executor's message.
JobRecord == [state : JobStates, attempts : Nat, created : Nat, updated : Nat,
              result : BOOLEAN, error : {"none", "canceled", "exec"}]

Absent == [state |-> "absent"]
\* fs::write has truncated the file and not written it yet.
Empty == [state |-> "empty"]
\* Two writers truncated, then both wrote: the longer text's tail stays.
Garbled == [state |-> "garbled"]
Unreadable == {Absent, Empty, Garbled}

NoRecord == Absent
NoJob == "no job"

Entry == [job : Jobs, state : JobStates, created : Nat, updated : Nat]

NewRecord == [state |-> "queued", attempts |-> 0, created |-> now,
              updated |-> now, result |-> FALSE, error |-> "none"]

\* What fs::write leaves: its record, unless another writer's text was put
\* into the file since it truncated it.
Written(j, r) == IF file[j] = Empty THEN {r} ELSE {r, Garbled}

WorkerPCs == {"idle", "listing", "claiming", "check_stale", "remove_stale", "create_lock",
              "reread", "abandon", "claim_truncate", "claim_write",
              "executing", "persist", "finish_truncate", "finish_write",
              "release", "down"}

\* From the creation of its lock file to its removal.
HoldingPCs == {"reread", "abandon", "claim_truncate", "claim_write",
               "executing", "persist", "finish_truncate", "finish_write", "release"}
\* Between get_job, which saw the job queued, and the save of "running".
ClaimingPCs == {"claim_truncate", "claim_write"}
\* The job is this worker's: it executes it, or saves the outcome.
RunningPCs == {"executing", "persist", "finish_truncate", "finish_write", "release"}

Holders(j) == {w \in Workers : pc[w] \in HoldingPCs /\ mine[w] = j}
Claimers(j) == {w \in Workers : pc[w] \in ClaimingPCs /\ mine[w] = j}
Runners(j) == {w \in Workers : pc[w] \in RunningPCs /\ mine[w] = j}

Init ==
  /\ file = [j \in Jobs |-> Absent]
  /\ lock = [j \in Jobs |-> "none"]
  /\ stored = [j \in Jobs |-> FALSE]
  /\ pc = [w \in Workers |-> "idle"]
  /\ unread = [w \in Workers |-> {}]
  /\ listed = [w \in Workers |-> {}]
  /\ mine = [w \in Workers |-> NoJob]
  /\ copy = [w \in Workers |-> NoRecord]
  /\ cpc = [c \in Clients |-> "idle"]
  /\ cjob = [c \in Clients |-> NoJob]
  /\ ccopy = [c \in Clients |-> NoRecord]
  /\ now = 0
  /\ requests = [j \in Jobs |-> 0]
  /\ launched = [j \in Jobs |-> 0]
  /\ reclaimed = [j \in Jobs |-> 0]
  /\ crashes = 0

-----------------------------------------------------------------------------
(* claim_next: list_jobs *)

\* The worker forgets its listing and its job and is at p.
Reset(w, p) ==
  /\ pc' = [pc EXCEPT ![w] = p]
  /\ unread' = [unread EXCEPT ![w] = {}]
  /\ listed' = [listed EXCEPT ![w] = {}]
  /\ mine' = [mine EXCEPT ![w] = NoJob]
  /\ copy' = [copy EXCEPT ![w] = NoRecord]

\* The error is returned up to daemon_run: the process ends.
Die(w) == Reset(w, "down")

StartListing(w) ==
  /\ pc[w] = "idle"
  /\ pc' = [pc EXCEPT ![w] = "listing"]
  /\ unread' = [unread EXCEPT ![w] = {j \in Jobs : file[j] # Absent}]
  /\ UNCHANGED <<fileVars, listed, mine, copy, clientVars, now, history>>

EntryOf(j) == [job |-> j, state |-> file[j].state, created |-> file[j].created,
               updated |-> file[j].updated]

\* One file of the directory; one that does not parse fails the whole listing.
ReadListed(w) ==
  /\ pc[w] = "listing"
  /\ \E j \in unread[w] :
       IF file[j] \in Unreadable
       THEN Die(w)
       ELSE /\ unread' = [unread EXCEPT ![w] = @ \ {j}]
            /\ listed' = [listed EXCEPT ![w] = @ \union {EntryOf(j)}]
            /\ UNCHANGED <<pc, mine, copy>>
  /\ UNCHANGED <<fileVars, clientVars, now, history>>

\* Mutant: the sort of list_jobs turned round.
NewestSortedUp(entries) ==
  IF Cardinality(entries) <= ListLimit THEN {entries}
  ELSE {S \in SUBSET entries : /\ Cardinality(S) = ListLimit
                               /\ \A e \in S, d \in entries \ S : e.updated <= d.updated}

\* The most recently updated entries; the order of equal ones is read_dir's.
Newest(entries) ==
  IF Cardinality(entries) <= ListLimit THEN {entries}
  ELSE {S \in SUBSET entries : /\ Cardinality(S) = ListLimit
                               /\ \A e \in S, d \in entries \ S : d.updated <= e.updated}

FinishListing(w) ==
  /\ pc[w] = "listing"
  /\ unread[w] = {}
  /\ \E S \in Newest(listed[w]) :
       listed' = [listed EXCEPT ![w] = {e \in S : e.state = "queued"}]
  /\ pc' = [pc EXCEPT ![w] = "claiming"]
  /\ UNCHANGED <<fileVars, unread, mine, copy, clientVars, now, history>>

-----------------------------------------------------------------------------
(* claim_next: the loop over the candidates, and try_acquire_lock *)

\* Oldest first; equal ones stay in list_jobs' order, newest update first.
Before(d, e) == \/ d.created < e.created
                \/ d.created = e.created /\ d.updated > e.updated

\* A turn of the daemon's loop ends.  The loop may end with it: at max_loops,
\* at max_jobs, or told to stop.
EndTurn(w) == \E p \in {"idle", "down"} : Reset(w, p)

\* claim_next returns None, which by default (stop_when_idle) ends the loop.
NoCandidate(w) ==
  /\ pc[w] = "claiming"
  /\ listed[w] = {}
  /\ EndTurn(w)
  /\ UNCHANGED <<fileVars, clientVars, now, history>>

\* lock_path.exists()
NextCandidate(w) ==
  /\ pc[w] = "claiming"
  /\ \E e \in listed[w] :
       /\ \A d \in listed[w] : ~Before(d, e)
       /\ listed' = [listed EXCEPT ![w] = @ \ {e}]
       /\ mine' = [mine EXCEPT ![w] = e.job]
       /\ pc' = [pc EXCEPT ![w] = IF lock[e.job] = "none" THEN "create_lock" ELSE "check_stale"]
  /\ UNCHANGED <<fileVars, unread, copy, clientVars, now, history>>

\* is_stale_lock: the metadata of a lock removed since exists() is an error.
CheckStale(w) ==
  /\ pc[w] = "check_stale"
  /\ IF lock[mine[w]] = "none"
     THEN Die(w)
     ELSE /\ pc' = [pc EXCEPT ![w] = IF lock[mine[w]] = "stale" THEN "remove_stale"
                                                                ELSE "create_lock"]
          /\ UNCHANGED <<unread, listed, mine, copy>>
  /\ UNCHANGED <<fileVars, clientVars, now, history>>

\* The lock removed need not be the one whose age was read.
RemoveStale(w) ==
  /\ pc[w] = "remove_stale"
  /\ lock' = [lock EXCEPT ![mine[w]] = "none"]
  /\ reclaimed' = [reclaimed EXCEPT ![mine[w]] = IF lock[mine[w]] = "none" THEN @ ELSE @ + 1]
  /\ pc' = [pc EXCEPT ![w] = "create_lock"]
  /\ UNCHANGED <<file, stored, unread, listed, mine, copy, clientVars, now, requests, launched,
                 crashes>>

\* Mutant: create(true) instead of create_new(true).
CreateLockOpened(w) ==
  /\ pc[w] = "create_lock"
  /\ lock' = [lock EXCEPT ![mine[w]] = "fresh"]
  /\ pc' = [pc EXCEPT ![w] = "reread"]
  /\ UNCHANGED <<file, stored, unread, listed, mine, copy, clientVars, now, history>>

\* create_new
CreateLock(w) ==
  /\ pc[w] = "create_lock"
  /\ IF lock[mine[w]] = "none"
     THEN /\ lock' = [lock EXCEPT ![mine[w]] = "fresh"]
          /\ pc' = [pc EXCEPT ![w] = "reread"]
          /\ UNCHANGED mine
     ELSE /\ pc' = [pc EXCEPT ![w] = "claiming"]
          /\ mine' = [mine EXCEPT ![w] = NoJob]
          /\ UNCHANGED lock
  /\ UNCHANGED <<file, stored, unread, listed, copy, clientVars, now, history>>

\* Mutant: the state is not looked at again under the lock.
RereadUnchecked(w) ==
  /\ pc[w] = "reread"
  /\ IF file[mine[w]] \notin Unreadable
     THEN /\ copy' = [copy EXCEPT ![w] = [file[mine[w]] EXCEPT !.state = "running",
                                                               !.updated = now,
                                                               !.error = "none"]]
          /\ listed' = [listed EXCEPT ![w] = {}]
          /\ pc' = [pc EXCEPT ![w] = "claim_truncate"]
     ELSE /\ pc' = [pc EXCEPT ![w] = "abandon"]
          /\ UNCHANGED <<copy, listed>>
  /\ UNCHANGED <<fileVars, unread, mine, clientVars, now, history>>

\* get_job under the lock: the listing may be out of date.
Reread(w) ==
  /\ pc[w] = "reread"
  /\ IF file[mine[w]].state = "queued"
     THEN /\ copy' = [copy EXCEPT ![w] = [file[mine[w]] EXCEPT !.state = "running",
                                                               !.updated = now,
                                                               !.error = "none"]]
          /\ listed' = [listed EXCEPT ![w] = {}]
          /\ pc' = [pc EXCEPT ![w] = "claim_truncate"]
     ELSE /\ pc' = [pc EXCEPT ![w] = "abandon"]
          /\ UNCHANGED <<copy, listed>>
  /\ UNCHANGED <<fileVars, unread, mine, clientVars, now, history>>

\* Mutant: no release_lock before the next candidate.
AbandonLocked(w) ==
  /\ pc[w] = "abandon"
  /\ pc' = [pc EXCEPT ![w] = "claiming"]
  /\ mine' = [mine EXCEPT ![w] = NoJob]
  /\ UNCHANGED <<fileVars, unread, listed, copy, clientVars, now, history>>

Abandon(w) ==
  /\ pc[w] = "abandon"
  /\ lock' = [lock EXCEPT ![mine[w]] = "none"]
  /\ pc' = [pc EXCEPT ![w] = "claiming"]
  /\ mine' = [mine EXCEPT ![w] = NoJob]
  /\ UNCHANGED <<file, stored, unread, listed, copy, clientVars, now, history>>

-----------------------------------------------------------------------------
(* save_job_record by a worker, the execution, and finish_success/_failed *)

Truncate(w) ==
  /\ pc[w] \in {"claim_truncate", "finish_truncate"}
  /\ file' = [file EXCEPT ![mine[w]] = Empty]
  /\ pc' = [pc EXCEPT ![w] = IF @ = "claim_truncate" THEN "claim_write" ELSE "finish_write"]
  /\ UNCHANGED <<lock, stored, unread, listed, mine, copy, clientVars, now, history>>

ClaimWrite(w) ==
  /\ pc[w] = "claim_write"
  /\ \E r \in Written(mine[w], copy[w]) : file' = [file EXCEPT ![mine[w]] = r]
  /\ launched' = [launched EXCEPT ![mine[w]] = @ + 1]
  /\ pc' = [pc EXCEPT ![w] = "executing"]
  /\ UNCHANGED <<lock, stored, unread, listed, mine, copy, clientVars, now, requests, reclaimed,
                 crashes>>

\* executor.execute, and the change finish_success or finish_failed makes to
\* the copy taken at the claim.  A failure keeps the result of an earlier run.
Execute(w) ==
  /\ pc[w] = "executing"
  /\ \/ /\ copy' = [copy EXCEPT ![w] = [@ EXCEPT !.state = "succeeded", !.updated = now,
                                                 !.result = TRUE, !.error = "none"]]
        /\ pc' = [pc EXCEPT ![w] = "persist"]
     \/ /\ copy' = [copy EXCEPT ![w] = [@ EXCEPT !.state = "failed", !.updated = now,
                                                 !.error = "exec"]]
        /\ pc' = [pc EXCEPT ![w] = "finish_truncate"]
  /\ UNCHANGED <<fileVars, unread, listed, mine, clientVars, now, history>>

Persist(w) ==
  /\ pc[w] = "persist"
  /\ stored' = [stored EXCEPT ![mine[w]] = TRUE]
  /\ pc' = [pc EXCEPT ![w] = "finish_truncate"]
  /\ UNCHANGED <<file, lock, unread, listed, mine, copy, clientVars, now, history>>

FinishWrite(w) ==
  /\ pc[w] = "finish_write"
  /\ \E r \in Written(mine[w], copy[w]) : file' = [file EXCEPT ![mine[w]] = r]
  /\ pc' = [pc EXCEPT ![w] = "release"]
  /\ UNCHANGED <<lock, stored, unread, listed, mine, copy, clientVars, now, history>>

\* release_lock removes whatever lock file is there; its error is ignored.
Release(w) ==
  /\ pc[w] = "release"
  /\ lock' = [lock EXCEPT ![mine[w]] = "none"]
  /\ EndTurn(w)
  /\ UNCHANGED <<file, stored, clientVars, now, history>>

-----------------------------------------------------------------------------
(* submit_job_from_spec_file, cancel_job and retry_job *)

ClientSaves(c, j, r) ==
  /\ cpc' = [cpc EXCEPT ![c] = "truncate"]
  /\ cjob' = [cjob EXCEPT ![c] = j]
  /\ ccopy' = [ccopy EXCEPT ![c] = r]
  /\ UNCHANGED <<fileVars, workerVars, now, history>>

\* A job with the same id is written over, whatever its state.
Submit(c, j) ==
  /\ cpc[c] = "idle"
  /\ requests[j] < MaxRequests
  /\ ClientSaves(c, j, NewRecord)

\* get_job; nothing stops it in any state and no lock is taken.
Cancel(c, j) ==
  /\ cpc[c] = "idle"
  /\ file[j] \notin Unreadable
  /\ ClientSaves(c, j, [file[j] EXCEPT !.state = "canceled", !.updated = now,
                                       !.error = "canceled"])

Retry(c, j) ==
  /\ cpc[c] = "idle"
  /\ file[j] \notin Unreadable
  /\ requests[j] < MaxRequests
  /\ ClientSaves(c, j, [file[j] EXCEPT !.state = "queued", !.attempts = @ + 1,
                                       !.updated = now, !.error = "none"])

ClientTruncate(c) ==
  /\ cpc[c] = "truncate"
  /\ file' = [file EXCEPT ![cjob[c]] = Empty]
  /\ cpc' = [cpc EXCEPT ![c] = "write"]
  /\ UNCHANGED <<lock, stored, workerVars, cjob, ccopy, now, history>>

ClientDone(c) ==
  /\ cpc' = [cpc EXCEPT ![c] = "idle"]
  /\ cjob' = [cjob EXCEPT ![c] = NoJob]
  /\ ccopy' = [ccopy EXCEPT ![c] = NoRecord]

ClientWrite(c) ==
  /\ cpc[c] = "write"
  /\ \E r \in Written(cjob[c], ccopy[c]) : file' = [file EXCEPT ![cjob[c]] = r]
  /\ requests' = [requests EXCEPT ![cjob[c]] = IF ccopy[c].state = "queued" THEN @ + 1 ELSE @]
  /\ ClientDone(c)
  /\ UNCHANGED <<lock, stored, workerVars, now, launched, reclaimed, crashes>>

-----------------------------------------------------------------------------
(* The environment: time passes, processes are killed and started again. A *)
(* failed file operation that ends a process is a kill at that point.      *)

Tick ==
  /\ now < MaxTime
  /\ now' = now + 1
  /\ UNCHANGED <<fileVars, workerVars, clientVars, history>>

\* 1800 seconds after its creation, whether or not its owner is at work.
Expire(j) ==
  /\ lock[j] = "fresh"
  /\ reclaimed[j] < MaxReclaims
  /\ lock' = [lock EXCEPT ![j] = "stale"]
  /\ UNCHANGED <<file, stored, workerVars, clientVars, now, history>>

\* A daemon told to stop before its first claim_next is one of these, too.
Crash(w) ==
  /\ pc[w] # "down"
  /\ crashes < MaxCrashes
  /\ crashes' = crashes + 1
  /\ Reset(w, "down")
  /\ UNCHANGED <<fileVars, clientVars, now, requests, launched, reclaimed>>

Restart(w) ==
  /\ pc[w] = "down"
  /\ pc' = [pc EXCEPT ![w] = "idle"]
  /\ UNCHANGED <<fileVars, unread, listed, mine, copy, clientVars, now, history>>

ClientCrash(c) ==
  /\ cpc[c] # "idle"
  /\ crashes < MaxCrashes
  /\ crashes' = crashes + 1
  /\ ClientDone(c)
  /\ UNCHANGED <<fileVars, workerVars, now, requests, launched, reclaimed>>

WorkerStep(w) ==
  \/ StartListing(w) \/ ReadListed(w) \/ FinishListing(w)
  \/ NoCandidate(w) \/ NextCandidate(w)
  \/ CheckStale(w) \/ RemoveStale(w) \/ CreateLock(w) \/ Reread(w) \/ Abandon(w)
  \/ Truncate(w) \/ ClaimWrite(w) \/ Execute(w) \/ Persist(w) \/ FinishWrite(w) \/ Release(w)

ClientStep(c) ==
  \/ \E j \in Jobs : Submit(c, j) \/ Cancel(c, j) \/ Retry(c, j)
  \/ ClientTruncate(c) \/ ClientWrite(c)

Next ==
  \/ \E w \in Workers : WorkerStep(w) \/ Crash(w) \/ Restart(w)
  \/ \E c \in Clients : ClientStep(c) \/ ClientCrash(c)
  \/ \E j \in Jobs : Expire(j)
  \/ Tick

Spec == Init /\ [][Next]_vars

\* A daemon takes its steps until its loop ends, and a command, once begun,
\* ends.  Nothing starts a daemon again, makes a user act or a lock expire.
Fairness ==
  /\ \A w \in Workers : WF_vars(WorkerStep(w))
  /\ \A c \in Clients : WF_vars(ClientTruncate(c) \/ ClientWrite(c))

FairSpec == Spec /\ Fairness

-----------------------------------------------------------------------------
(* Properties *)

\* Every variable holds values of its type (JobRecord, lock file, pc).
TypeOK ==
  /\ file \in [Jobs -> JobRecord \union Unreadable]
  /\ lock \in [Jobs -> {"none", "fresh", "stale"}]
  /\ stored \in [Jobs -> BOOLEAN]
  /\ pc \in [Workers -> WorkerPCs]
  /\ unread \in [Workers -> SUBSET Jobs]
  /\ listed \in [Workers -> SUBSET Entry]
  /\ mine \in [Workers -> Jobs \union {NoJob}]
  /\ copy \in [Workers -> JobRecord \union {NoRecord}]
  /\ cpc \in [Clients -> {"idle", "truncate", "write"}]
  /\ cjob \in [Clients -> Jobs \union {NoJob}]
  /\ ccopy \in [Clients -> JobRecord \union {NoRecord}]
  /\ now \in Nat
  /\ requests \in [Jobs -> Nat]
  /\ launched \in [Jobs -> Nat]
  /\ reclaimed \in [Jobs -> Nat]
  /\ crashes \in Nat

LockFiles(j) == IF lock[j] = "none" THEN 0 ELSE 1

\* The lock protocol admits one worker to a job, and one more for every lock
\* removed as stale: try_acquire_lock's check and remove are two steps, and
\* release_lock does not look whose lock it removes.
BoundedOverlap ==
  \A j \in Jobs : Cardinality(Holders(j)) <= LockFiles(j) + reclaimed[j]

\* While no lock of the job was reclaimed, every execution of it was asked for
\* by a submit or retry of its own (claim_next reads the record again under
\* the lock and saves "running" before it returns).
LaunchesRequested ==
  \A j \in Jobs : reclaimed[j] = 0 => launched[j] <= requests[j]

\* Unless a process was killed nothing is left behind: a lock file has an owner
\* at work, a "running" record a worker that will write its outcome, and an
\* empty job file a writer about to fill it.
NothingOrphaned ==
  crashes = 0 => \A j \in Jobs :
    /\ lock[j] # "none" => Holders(j) # {}
    /\ file[j].state = "running" => Runners(j) # {}
    /\ file[j] = Empty => \/ \E c \in Clients : cpc[c] = "write" /\ cjob[c] = j
                          \/ \E w \in Workers : pc[w] \in {"claim_write", "finish_write"} /\ mine[w] = j

\* A cancel may be written over by a worker that had claimed the job already.
\* If none had, it is final until a client writes the record again: a listing
\* that still shows the job queued makes no worker claim it or touch the file.
CancelSticks ==
  [][\A j \in Jobs :
       /\ file[j].state = "canceled"
       /\ Claimers(j) \union Runners(j) = {}
       => /\ Claimers(j)' \union Runners(j)' = {}
          /\ file'[j] # file[j] => \E c \in Clients : cjob[c] = j]_vars

\* list_jobs shows j, if j has a record: fewer than ListLimit others are as
\* recent.
InWindow(j) ==
  file[j] \notin Unreadable =>
    Cardinality({k \in Jobs \ {j} : /\ file[k] \notin Unreadable
                                   /\ file[k].updated >= file[j].updated}) < ListLimit

\* The text two writers left in a job file, which ends every listing.
UnreadableForEver(k) == [](file[k] = Garbled)

\* From some time on no daemon is started again.
NoDaemon == \A w \in Workers : [](pc[w] = "down")

\* A job that newer records do not, again and again, push out of the window
\* claim_next looks at does not stay queued for ever: it is claimed, or a client
\* takes it out of the queue, as long as daemons are started, each of which may
\* end when it finds nothing to claim, after any number of jobs, or of a file it
\* read while it was being written.  Only a garbled job file is in the way.
QueuedIsServed ==
  \A j \in Jobs : <>[]InWindow(j) =>
    (file[j].state = "queued" ~> \/ file[j].state # "queued"
                                \/ NoDaemon
                                \/ \E k \in Jobs : UnreadableForEver(k))

\* The queue seen from outside.
Executing == [j \in Jobs |-> Runners(j) # {}]

Ledger == INSTANCE JobLedger WITH requested <- requests, executing <- Executing

\* While no lock expires, the daemons, the commands and their files together do
\* what JobLedger allows: no execution without a request of its own, and never
\* two executions of a job at once.
LedgerSpec == Ledger!Spec
=============================================================================

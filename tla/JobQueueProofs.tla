--------------------------- MODULE JobQueueProofs ---------------------------
(***************************************************************************)
(* Theorems about JobQueue for any sets of jobs and clients, any finite    *)
(* set of workers and any bounds.                                          *)
(***************************************************************************)
EXTENDS JobQueue, FiniteSetTheorems, TLAPS

\* The pcs at which a worker has a job in hand.
JobPCs == HoldingPCs \union {"check_stale", "remove_stale", "create_lock"}
\* The pcs at which it has a record of it to write.
CopyPCs == ClaimingPCs \union RunningPCs

\* TypeOK is not inductive: what a process holds depends on where it is.
TypeInv ==
  /\ TypeOK
  /\ \A w \in Workers : /\ pc[w] \in JobPCs => mine[w] \in Jobs
                        /\ pc[w] \in CopyPCs => copy[w] \in JobRecord
  /\ \A c \in Clients : cpc[c] # "idle" => cjob[c] \in Jobs /\ ccopy[c] \in JobRecord

LEMMA TypeInit == Init => TypeInv
<1> SUFFICES ASSUME Init PROVE TypeInv
  OBVIOUS
<1>1. TypeOK
  BY DEF Init, TypeOK, Unreadable, NoRecord, NoJob, WorkerPCs
<1>2. \A w \in Workers : pc[w] \notin JobPCs \union CopyPCs
  BY DEF Init, JobPCs, CopyPCs, HoldingPCs, ClaimingPCs, RunningPCs
<1> QED
  BY <1>1, <1>2 DEF Init, TypeInv

\* A record with one of the five states is one that parses.
LEMMA ReadableRecord ==
  ASSUME NEW r \in JobRecord \union Unreadable
  PROVE  r \notin Unreadable <=> r.state \in JobStates
  BY DEF JobRecord, Unreadable, Absent, Empty, Garbled, JobStates

LEMMA TypeReset ==
  ASSUME TypeInv, NEW w \in Workers, NEW p \in {"idle", "down"}, Reset(w, p),
         UNCHANGED <<fileVars, clientVars, now, requests, launched, reclaimed>>, crashes' \in Nat
  PROVE  TypeInv'
<1>1. /\ unread' \in [Workers -> SUBSET Jobs]
      /\ listed' \in [Workers -> SUBSET Entry]
      /\ mine' \in [Workers -> Jobs \union {NoJob}]
      /\ copy' \in [Workers -> JobRecord \union {NoRecord}]
  BY DEF TypeInv, TypeOK, Reset
<1>2. pc' \in [Workers -> WorkerPCs]
  BY DEF TypeInv, TypeOK, Reset, WorkerPCs
<1>3. ASSUME NEW v \in Workers
      PROVE  /\ pc'[v] \in JobPCs => mine'[v] \in Jobs
             /\ pc'[v] \in CopyPCs => copy'[v] \in JobRecord
  <2>1. CASE v = w
    BY <2>1 DEF TypeInv, TypeOK, Reset, JobPCs, CopyPCs, HoldingPCs, ClaimingPCs, RunningPCs
  <2>2. CASE v # w
    BY <2>2 DEF TypeInv, TypeOK, Reset
  <2> QED
    BY <2>1, <2>2
<1> QED
  BY <1>1, <1>2, <1>3 DEF TypeInv, TypeOK, fileVars, clientVars

LEMMA TypeListing ==
  ASSUME TypeInv, NEW w \in Workers,
         StartListing(w) \/ ReadListed(w) \/ FinishListing(w) \/ NoCandidate(w) \/ NextCandidate(w)
  PROVE  TypeInv'
<1> USE DEF TypeInv, TypeOK, WorkerPCs, JobPCs, CopyPCs, HoldingPCs, ClaimingPCs, RunningPCs,
        fileVars, clientVars, history
<1>1. CASE StartListing(w)
  BY <1>1 DEF StartListing
<1>2. CASE ReadListed(w)
  <2>1. PICK j \in unread[w] :
           IF file[j] \in Unreadable
           THEN Die(w)
           ELSE /\ unread' = [unread EXCEPT ![w] = @ \ {j}]
                /\ listed' = [listed EXCEPT ![w] = @ \union {EntryOf(j)}]
                /\ UNCHANGED <<pc, mine, copy>>
    BY <1>2 DEF ReadListed
  <2>2. CASE file[j] \in Unreadable
    BY <1>2, <2>1, <2>2, TypeReset DEF ReadListed, Die
  <2>3. CASE file[j] \notin Unreadable
    <3>1. EntryOf(j) \in Entry
      BY <2>3 DEF EntryOf, Entry, JobRecord
    <3> QED
      BY <1>2, <2>1, <2>3, <3>1 DEF ReadListed
  <2> QED
    BY <2>2, <2>3
<1>3. CASE FinishListing(w)
  <2>1. PICK S \in Newest(listed[w]) :
          listed' = [listed EXCEPT ![w] = {e \in S : e.state = "queued"}]
    BY <1>3 DEF FinishListing
  <2>2. S \subseteq listed[w]
    BY DEF Newest
  <2> QED
    BY <1>3, <2>1, <2>2 DEF FinishListing
<1>4. CASE NoCandidate(w)
  BY <1>4, TypeReset DEF NoCandidate, EndTurn
<1>5. CASE NextCandidate(w)
  <2>1. PICK e \in listed[w] :
          /\ listed' = [listed EXCEPT ![w] = @ \ {e}]
          /\ mine' = [mine EXCEPT ![w] = e.job]
          /\ pc' = [pc EXCEPT ![w] = IF lock[e.job] = "none" THEN "create_lock"
                                                             ELSE "check_stale"]
    BY <1>5 DEF NextCandidate
  <2>2. e.job \in Jobs
    BY DEF Entry
  <2> QED
    BY <1>5, <2>1, <2>2 DEF NextCandidate
<1> QED
  BY <1>1, <1>2, <1>3, <1>4, <1>5

LEMMA TypeClaiming ==
  ASSUME TypeInv, NEW w \in Workers,
         CheckStale(w) \/ RemoveStale(w) \/ CreateLock(w) \/ Reread(w) \/ Abandon(w)
  PROVE  TypeInv'
<1> USE DEF TypeInv, TypeOK, WorkerPCs, JobPCs, CopyPCs, HoldingPCs, ClaimingPCs, RunningPCs,
        fileVars, clientVars, history
<1>1. CASE CheckStale(w)
  <2>1. CASE lock[mine[w]] = "none"
    BY <1>1, <2>1, TypeReset DEF CheckStale, Die
  <2>2. CASE lock[mine[w]] # "none"
    BY <1>1, <2>2 DEF CheckStale
  <2> QED
    BY <2>1, <2>2
<1>2. CASE RemoveStale(w)
  BY <1>2 DEF RemoveStale
<1>3. CASE CreateLock(w)
  <2>1. CASE lock[mine[w]] = "none"
    BY <1>3, <2>1 DEF CreateLock
  <2>2. CASE lock[mine[w]] # "none"
    BY <1>3, <2>2 DEF CreateLock
  <2> QED
    BY <2>1, <2>2
<1>4. CASE Reread(w)
  <2>1. CASE file[mine[w]].state = "queued"
    <3>1. file[mine[w]] \in JobRecord
      BY <1>4, <2>1, ReadableRecord DEF Reread, JobStates
    <3>2. [file[mine[w]] EXCEPT !.state = "running", !.updated = now, !.error = "none"] \in JobRecord
      BY <3>1 DEF JobRecord, JobStates
    <3> QED
      BY <1>4, <2>1, <3>2 DEF Reread
  <2>2. CASE file[mine[w]].state # "queued"
    BY <1>4, <2>2 DEF Reread
  <2> QED
    BY <2>1, <2>2
<1>5. CASE Abandon(w)
  BY <1>5 DEF Abandon
<1> QED
  BY <1>1, <1>2, <1>3, <1>4, <1>5

LEMMA TypeRunning ==
  ASSUME TypeInv, NEW w \in Workers,
         Truncate(w) \/ ClaimWrite(w) \/ Execute(w) \/ Persist(w) \/ FinishWrite(w) \/ Release(w)
  PROVE  TypeInv'
<1> USE DEF TypeInv, TypeOK, WorkerPCs, JobPCs, CopyPCs, HoldingPCs, ClaimingPCs, RunningPCs,
        fileVars, clientVars, history
<1>0. ASSUME NEW r \in JobRecord, NEW j \in Jobs
      PROVE  Written(j, r) \subseteq JobRecord \union Unreadable
  BY DEF Written, Unreadable
<1>1. CASE Truncate(w)
  BY <1>1 DEF Truncate, Unreadable
<1>2. CASE ClaimWrite(w)
  <2>1. PICK r \in Written(mine[w], copy[w]) : file' = [file EXCEPT ![mine[w]] = r]
    BY <1>2 DEF ClaimWrite
  <2>2. r \in JobRecord \union Unreadable
    BY <1>0, <1>2 DEF ClaimWrite
  <2> QED
    BY <1>2, <2>1, <2>2 DEF ClaimWrite
<1>3. CASE Execute(w)
  <2>1. /\ [copy[w] EXCEPT !.state = "succeeded", !.updated = now, !.result = TRUE,
                           !.error = "none"] \in JobRecord
        /\ [copy[w] EXCEPT !.state = "failed", !.updated = now, !.error = "exec"] \in JobRecord
    BY <1>3 DEF Execute, JobRecord, JobStates
  <2> QED
    BY <1>3, <2>1 DEF Execute
<1>4. CASE Persist(w)
  BY <1>4 DEF Persist
<1>5. CASE FinishWrite(w)
  <2>1. PICK r \in Written(mine[w], copy[w]) : file' = [file EXCEPT ![mine[w]] = r]
    BY <1>5 DEF FinishWrite
  <2>2. r \in JobRecord \union Unreadable
    BY <1>0, <1>5 DEF FinishWrite
  <2> QED
    BY <1>5, <2>1, <2>2 DEF FinishWrite
<1>6. CASE Release(w)
  <2>1. PICK p \in {"idle", "down"} : Reset(w, p)
    BY <1>6 DEF Release, EndTurn
  <2>2. lock' \in [Jobs -> {"none", "fresh", "stale"}]
    BY <1>6 DEF Release
  <2> QED
    BY <1>6, <2>1, <2>2, TypeReset DEF Release, Reset, NoJob, NoRecord, Absent
<1> QED
  BY <1>1, <1>2, <1>3, <1>4, <1>5, <1>6

LEMMA TypeClient ==
  ASSUME TypeInv, NEW c \in Clients, ClientStep(c) \/ ClientCrash(c)
  PROVE  TypeInv'
<1> USE DEF TypeInv, TypeOK, fileVars, workerVars, history
<1>1. ASSUME NEW j \in Jobs, NEW r \in JobRecord, ClientSaves(c, j, r)
      PROVE  TypeInv'
  BY <1>1 DEF ClientSaves
<1>2. ASSUME NEW j \in Jobs, Submit(c, j) \/ Cancel(c, j) \/ Retry(c, j)
      PROVE  TypeInv'
  <2>1. CASE Submit(c, j)
    <3>1. NewRecord \in JobRecord
      BY DEF NewRecord, JobRecord, JobStates
    <3> QED
      BY <1>1, <2>1, <3>1 DEF Submit
  <2>2. CASE Cancel(c, j)
    <3>1. [file[j] EXCEPT !.state = "canceled", !.updated = now, !.error = "canceled"] \in JobRecord
      BY <2>2 DEF Cancel, JobRecord, JobStates
    <3> QED
      BY <1>1, <2>2, <3>1 DEF Cancel
  <2>3. CASE Retry(c, j)
    <3>1. [file[j] EXCEPT !.state = "queued", !.attempts = @ + 1, !.updated = now,
                          !.error = "none"] \in JobRecord
      <4>1. file[j] \in JobRecord
        BY <2>3 DEF Retry
      <4>2. file[j].attempts + 1 \in Nat
        BY <4>1 DEF JobRecord
      <4> QED
        BY <4>1, <4>2 DEF JobRecord, JobStates
    <3> QED
      BY <1>1, <2>3, <3>1 DEF Retry
  <2> QED
    BY <1>2, <2>1, <2>2, <2>3
<1>3. CASE ClientTruncate(c)
  BY <1>3 DEF ClientTruncate, Unreadable
<1>4. CASE ClientWrite(c)
  <2>1. PICK r \in Written(cjob[c], ccopy[c]) : file' = [file EXCEPT ![cjob[c]] = r]
    BY <1>4 DEF ClientWrite
  <2>2. r \in JobRecord \union Unreadable
    BY <1>4 DEF ClientWrite, Written, Unreadable
  <2>3. requests' \in [Jobs -> Nat]
    BY <1>4 DEF ClientWrite
  <2> QED
    BY <1>4, <2>1, <2>2, <2>3 DEF ClientWrite, ClientDone
<1>5. CASE ClientCrash(c)
  BY <1>5 DEF ClientCrash, ClientDone
<1> QED
  BY <1>2, <1>3, <1>4, <1>5 DEF ClientStep

LEMMA TypeEnvironment ==
  ASSUME TypeInv,
         \/ Tick
         \/ \E j \in Jobs : Expire(j)
         \/ \E w \in Workers : Crash(w) \/ Restart(w)
  PROVE  TypeInv'
<1> USE BoundsAssumption DEF TypeInv, TypeOK, WorkerPCs, JobPCs, CopyPCs, HoldingPCs,
        ClaimingPCs, RunningPCs, fileVars, workerVars, clientVars, history, BoundsAssumption
<1>1. CASE Tick
  BY <1>1 DEF Tick
<1>2. ASSUME NEW j \in Jobs, Expire(j) PROVE TypeInv'
  BY <1>2 DEF Expire
<1>3. ASSUME NEW w \in Workers, Crash(w) PROVE TypeInv'
  BY <1>3, TypeReset DEF Crash
<1>4. ASSUME NEW w \in Workers, Restart(w) PROVE TypeInv'
  BY <1>4 DEF Restart
<1> QED
  BY <1>1, <1>2, <1>3, <1>4

LEMMA TypeStep == TypeInv /\ [Next]_vars => TypeInv'
<1> SUFFICES ASSUME TypeInv, [Next]_vars PROVE TypeInv'
  OBVIOUS
<1>1. CASE UNCHANGED vars
  BY <1>1 DEF vars, TypeInv, TypeOK
<1>2. CASE Next
  BY <1>2, TypeListing, TypeClaiming, TypeRunning, TypeClient, TypeEnvironment
     DEF Next, WorkerStep
<1> QED
  BY <1>1, <1>2

LEMMA TypeInvariant == Spec => []TypeInv
  BY TypeInit, TypeStep, PTL DEF Spec

\* Every variable keeps its type: no step of any process stores a record that
\* is not one, in a file or in memory.
THEOREM TypeCorrect == Spec => []TypeOK
<1>1. TypeInv => TypeOK
  BY DEF TypeInv
<1> QED
  BY <1>1, TypeInvariant, PTL

-----------------------------------------------------------------------------
(* How many workers can hold one job *)

\* What the number of holders of a job is bounded by.
Slots(j) == LockFiles(j) + reclaimed[j]

LEMMA SlotsType ==
  ASSUME TypeInv, NEW j \in Jobs
  PROVE  Slots(j) \in Nat
  BY DEF Slots, LockFiles, TypeInv, TypeOK

LEMMA HoldersFinite ==
  ASSUME NEW j \in Jobs
  PROVE  IsFiniteSet(Holders(j)) /\ Cardinality(Holders(j)) \in Nat
  BY WorkersFinite, FS_Subset, FS_CardinalityType DEF Holders

\* The three ways a step may change who holds a job.
LEMMA OverlapPreserved ==
  ASSUME TypeInv, TypeInv', NEW j \in Jobs, Cardinality(Holders(j)) <= Slots(j), NEW w,
         \/ Holders(j)' \subseteq Holders(j) /\ Slots(j)' >= Slots(j)
         \/ Holders(j)' \subseteq Holders(j) \union {w} /\ Slots(j)' >= Slots(j) + 1
         \/ w \in Holders(j) /\ Holders(j)' \subseteq Holders(j) \ {w} /\ Slots(j)' >= Slots(j) - 1
  PROVE  Cardinality(Holders(j)') <= Slots(j)'
<1>1. Slots(j) \in Nat /\ Slots(j)' \in Nat
  <2>1. Slots(j)' \in Nat
    BY DEF Slots, LockFiles, TypeInv, TypeOK
  <2> QED
    BY SlotsType, <2>1
<1>2. IsFiniteSet(Holders(j)) /\ Cardinality(Holders(j)) \in Nat
  BY HoldersFinite
<1>3. CASE Holders(j)' \subseteq Holders(j) /\ Slots(j)' >= Slots(j)
  <2>1. Cardinality(Holders(j)') <= Cardinality(Holders(j)) /\ IsFiniteSet(Holders(j)')
    BY <1>2, <1>3, FS_Subset
  <2> QED
    BY <1>1, <1>2, <1>3, <2>1, FS_CardinalityType
<1>4. CASE Holders(j)' \subseteq Holders(j) \union {w} /\ Slots(j)' >= Slots(j) + 1
  <2>1. /\ IsFiniteSet(Holders(j) \union {w})
        /\ Cardinality(Holders(j) \union {w}) <= Cardinality(Holders(j)) + 1
        /\ Cardinality(Holders(j) \union {w}) \in Nat
    <3>1. /\ IsFiniteSet(Holders(j) \union {w})
          /\ Cardinality(Holders(j) \union {w}) =
               IF w \in Holders(j) THEN Cardinality(Holders(j)) ELSE Cardinality(Holders(j)) + 1
      BY <1>2, FS_AddElement
    <3> QED
      BY <1>2, <3>1
  <2>2. Cardinality(Holders(j)') <= Cardinality(Holders(j) \union {w}) /\ IsFiniteSet(Holders(j)')
    BY <1>4, <2>1, FS_Subset
  <2> QED
    BY <1>1, <1>2, <1>4, <2>1, <2>2, FS_CardinalityType
<1>5. CASE /\ w \in Holders(j) /\ Holders(j)' \subseteq Holders(j) \ {w}
           /\ Slots(j)' >= Slots(j) - 1
  <2>1. /\ IsFiniteSet(Holders(j) \ {w})
        /\ Cardinality(Holders(j) \ {w}) = Cardinality(Holders(j)) - 1
        /\ Cardinality(Holders(j) \ {w}) \in Nat
    BY <1>2, <1>5, FS_RemoveElement, FS_CardinalityType
  <2>2. Cardinality(Holders(j)') <= Cardinality(Holders(j) \ {w}) /\ IsFiniteSet(Holders(j)')
    BY <1>5, <2>1, FS_Subset
  <2> QED
    BY <1>1, <1>2, <1>5, <2>1, <2>2, FS_CardinalityType
<1> QED
  BY <1>3, <1>4, <1>5

\* A worker's step leaves alone what the other workers hold.
LEMMA OthersHold ==
  ASSUME TypeInv, NEW w \in Workers, WorkerStep(w) \/ Crash(w) \/ Restart(w),
         NEW v \in Workers \ {w}
  PROVE  pc'[v] = pc[v] /\ mine'[v] = mine[v]
<1> USE DEF TypeInv, TypeOK, Reset, Die
<1>1. CASE StartListing(w) \/ ReadListed(w) \/ FinishListing(w) \/ NoCandidate(w) \/ NextCandidate(w)
  BY <1>1 DEF StartListing, ReadListed, FinishListing, NoCandidate, EndTurn, NextCandidate
<1>2. CASE CheckStale(w) \/ RemoveStale(w) \/ CreateLock(w) \/ Reread(w) \/ Abandon(w)
  BY <1>2 DEF CheckStale, RemoveStale, CreateLock, Reread, Abandon
<1>3. CASE Truncate(w) \/ ClaimWrite(w) \/ Execute(w) \/ Persist(w) \/ FinishWrite(w) \/ Release(w)
  BY <1>3 DEF Truncate, ClaimWrite, Execute, Persist, FinishWrite, Release, EndTurn
<1>4. CASE Crash(w) \/ Restart(w)
  BY <1>4 DEF Crash, Restart
<1> QED
  BY <1>1, <1>2, <1>3, <1>4 DEF WorkerStep

\* What a worker's step does to the holders of j and to the slots.
LEMMA HoldersStep ==
  ASSUME TypeInv, NEW w \in Workers, WorkerStep(w) \/ Crash(w) \/ Restart(w), NEW j \in Jobs
  PROVE  \/ Holders(j)' \subseteq Holders(j) /\ Slots(j)' >= Slots(j)
         \/ Holders(j)' \subseteq Holders(j) \union {w} /\ Slots(j)' >= Slots(j) + 1
         \/ w \in Holders(j) /\ Holders(j)' \subseteq Holders(j) \ {w} /\ Slots(j)' >= Slots(j) - 1
<1>0. Holders(j)' \subseteq Holders(j) \union {w}
  BY OthersHold DEF Holders
<1>00. /\ w \in Holders(j)' <=> pc'[w] \in HoldingPCs /\ mine'[w] = j
       /\ w \in Holders(j) <=> pc[w] \in HoldingPCs /\ mine[w] = j
  BY DEF Holders
<1> USE DEF TypeInv, TypeOK, Reset, Die, HoldingPCs, LockFiles, Slots, fileVars, history
<1>1. CASE \/ StartListing(w) \/ ReadListed(w) \/ FinishListing(w) \/ NoCandidate(w)
           \/ NextCandidate(w) \/ CheckStale(w)
  <2>1. pc'[w] \notin HoldingPCs
    BY <1>1 DEF StartListing, ReadListed, FinishListing, NoCandidate, EndTurn, NextCandidate, CheckStale
  <2>2. UNCHANGED <<lock, reclaimed>>
    BY <1>1 DEF StartListing, ReadListed, FinishListing, NoCandidate, EndTurn, NextCandidate, CheckStale
  <2> QED
    BY <1>0, <1>00, <2>1, <2>2
<1>2. CASE RemoveStale(w)
  <2>1. pc'[w] \notin HoldingPCs
    BY <1>2 DEF RemoveStale
  <2>2. mine[w] \in Jobs
    BY <1>2 DEF RemoveStale, JobPCs
  <2>3. Slots(j)' >= Slots(j)
    BY <1>2, <2>2 DEF RemoveStale
  <2> QED
    BY <1>0, <1>00, <2>1, <2>3
<1>3. CASE CreateLock(w)
  <2>1. mine[w] \in Jobs
    BY <1>3 DEF CreateLock, JobPCs
  <2>2. CASE lock[mine[w]] = "none" /\ mine[w] = j
    <3>1. Slots(j)' >= Slots(j) + 1
      BY <1>3, <2>1, <2>2 DEF CreateLock
    <3> QED
      BY <1>0, <3>1
  <2>3. CASE ~(lock[mine[w]] = "none" /\ mine[w] = j)
    <3>1. w \notin Holders(j)'
      BY <1>00, <1>3, <2>3 DEF CreateLock
    <3>2. Slots(j)' >= Slots(j)
      BY <1>3, <2>1, <2>3 DEF CreateLock
    <3> QED
      BY <1>0, <3>1, <3>2
  <2> QED
    BY <2>2, <2>3
<1>4. CASE Abandon(w) \/ Release(w)
  <2>1. pc[w] \in HoldingPCs /\ mine[w] \in Jobs /\ pc'[w] \notin HoldingPCs
    BY <1>4 DEF Abandon, Release, EndTurn, JobPCs
  <2>2. CASE mine[w] = j
    <3>1. Slots(j)' >= Slots(j) - 1
      BY <1>4, <2>1 DEF Abandon, Release
    <3> QED
      BY <1>0, <1>00, <2>1, <2>2, <3>1
  <2>3. CASE mine[w] # j
    <3>1. Slots(j)' = Slots(j) /\ Slots(j) \in Nat
      BY <1>4, <2>1, <2>3, SlotsType DEF Abandon, Release
    <3> QED
      BY <1>0, <1>00, <2>1, <3>1
  <2> QED
    BY <2>2, <2>3
<1>5. CASE Reread(w) \/ Truncate(w) \/ ClaimWrite(w) \/ Execute(w) \/ Persist(w) \/ FinishWrite(w)
  <2>1. pc[w] \in HoldingPCs /\ mine'[w] = mine[w]
    BY <1>5 DEF Reread, Truncate, ClaimWrite, Execute, Persist, FinishWrite
  <2>2. UNCHANGED <<lock, reclaimed>>
    BY <1>5 DEF Reread, Truncate, ClaimWrite, Execute, Persist, FinishWrite
  <2>3. Slots(j)' = Slots(j) /\ Slots(j) \in Nat
    BY <2>2, SlotsType
  <2> QED
    BY <1>0, <1>00, <2>1, <2>3
<1>6. CASE Crash(w) \/ Restart(w)
  <2>1. pc'[w] \notin HoldingPCs
    BY <1>6 DEF Crash, Restart
  <2>2. UNCHANGED <<lock, reclaimed>>
    BY <1>6 DEF Crash, Restart
  <2>3. Slots(j)' = Slots(j) /\ Slots(j) \in Nat
    BY <2>2, SlotsType
  <2> QED
    BY <1>0, <1>00, <2>1, <2>3
<1> QED
  BY <1>1, <1>2, <1>3, <1>4, <1>5, <1>6 DEF WorkerStep

LEMMA OverlapStep == TypeInv /\ TypeInv' /\ BoundedOverlap /\ [Next]_vars => BoundedOverlap'
<1> SUFFICES ASSUME TypeInv, TypeInv', BoundedOverlap, [Next]_vars, NEW j \in Jobs
             PROVE  Cardinality(Holders(j)') <= Slots(j)'
  BY DEF BoundedOverlap, Slots
<1>0. Cardinality(Holders(j)) <= Slots(j) /\ Slots(j) \in Nat
  BY SlotsType DEF BoundedOverlap, Slots
<1>1. ASSUME NEW w \in Workers, WorkerStep(w) \/ Crash(w) \/ Restart(w)
      PROVE  Cardinality(Holders(j)') <= Slots(j)'
  BY <1>0, <1>1, HoldersStep, OverlapPreserved
<1>2. ASSUME UNCHANGED <<pc, mine>>, Slots(j)' = Slots(j)
      PROVE  Cardinality(Holders(j)') <= Slots(j)'
  BY <1>0, <1>2 DEF Holders
<1>3. ASSUME NEW c \in Clients, ClientStep(c) \/ ClientCrash(c)
      PROVE  UNCHANGED <<pc, mine, lock, reclaimed>>
  BY <1>3 DEF ClientStep, ClientCrash, Submit, Cancel, Retry, ClientSaves, ClientTruncate,
              ClientWrite, fileVars, workerVars, history
<1>4. ASSUME NEW k \in Jobs, Expire(k)
      PROVE  UNCHANGED <<pc, mine>> /\ Slots(j)' = Slots(j)
  BY <1>4 DEF Expire, Slots, LockFiles, TypeInv, TypeOK, workerVars, history
<1>5. CASE Tick \/ UNCHANGED vars
  BY <1>2, <1>5 DEF Tick, vars, fileVars, workerVars, history, Slots, LockFiles
<1> QED
  BY <1>1, <1>2, <1>3, <1>4, <1>5 DEF Next, Slots, LockFiles

LEMMA OverlapInit == Init => BoundedOverlap
<1> SUFFICES ASSUME Init, NEW j \in Jobs PROVE Cardinality(Holders(j)) <= Slots(j)
  BY DEF BoundedOverlap, Slots
<1>1. Holders(j) = {}
  BY DEF Init, Holders, HoldingPCs
<1>2. Slots(j) = 0
  BY DEF Init, Slots, LockFiles
<1> QED
  BY <1>1, <1>2, FS_EmptySet

\* However many workers, clients and jobs there are: the number of workers
\* that hold a job is at most one, plus one per removal of a lock as stale.
THEOREM OverlapBounded == Spec => []BoundedOverlap
  BY TypeInvariant, OverlapInit, OverlapStep, PTL DEF Spec

-----------------------------------------------------------------------------
(* No execution without a request *)

\* A request of j that is not yet an execution: its file says queued, or a
\* worker that saw it say so is about to save "running".
Pending(j) == IF file[j].state = "queued" \/ Claimers(j) # {} THEN 1 ELSE 0

\* What the records in the hands of the processes say.
CopyStates ==
  \A w \in Workers : /\ pc[w] \in ClaimingPCs => copy[w].state = "running"
                     /\ pc[w] \in {"finish_truncate", "finish_write"} =>
                          copy[w].state \in {"succeeded", "failed"}
                     /\ pc[w] = "persist" => copy[w].state = "succeeded"

\* LaunchesRequested is not inductive: the request a worker has read and not
\* yet turned into an execution has to be counted.
LaunchInv ==
  /\ CopyStates
  /\ \A j \in Jobs : reclaimed[j] = 0 => launched[j] + Pending(j) <= requests[j]

LEMMA SoleHolder ==
  ASSUME TypeInv, BoundedOverlap, NEW j \in Jobs, reclaimed[j] = 0,
         NEW v \in Holders(j), NEW w \in Holders(j)
  PROVE  v = w
<1>1. IsFiniteSet(Holders(j)) /\ Cardinality(Holders(j)) \in Nat
  BY HoldersFinite
<1>2. Cardinality(Holders(j)) <= 1
  BY <1>1 DEF BoundedOverlap, LockFiles
<1>3. Cardinality(Holders(j)) # 0
  BY <1>1, FS_EmptySet
<1>4. Cardinality(Holders(j)) = 1
  BY <1>1, <1>2, <1>3
<1> QED
  BY <1>1, <1>4, FS_Singleton

LEMMA LaunchInit == Init => LaunchInv
  BY DEF Init, LaunchInv, CopyStates, Pending, Claimers, ClaimingPCs, Absent

LEMMA CopyStatesStep == TypeInv /\ CopyStates /\ [Next]_vars => CopyStates'
<1> SUFFICES ASSUME TypeInv, CopyStates, [Next]_vars PROVE CopyStates'
  OBVIOUS
<1> USE DEF CopyStates, ClaimingPCs, TypeInv, TypeOK
<1>1. ASSUME NEW w \in Workers, WorkerStep(w) \/ Crash(w) \/ Restart(w)
      PROVE  CopyStates'
  <2>0. \A v \in Workers \ {w} : copy'[v] = copy[v] /\ pc'[v] = pc[v]
    <3>1. \A v \in Workers \ {w} : pc'[v] = pc[v]
      BY <1>1, OthersHold
    <3>2. \A v \in Workers \ {w} : copy'[v] = copy[v]
      BY <1>1 DEF WorkerStep, StartListing, ReadListed, FinishListing, NoCandidate, EndTurn, NextCandidate,
         CheckStale, RemoveStale, CreateLock, Reread, Abandon, Truncate, ClaimWrite, Execute,
         Persist, FinishWrite, Release, Crash, Restart, Reset, Die
    <3> QED
      BY <3>1, <3>2
  <2>1. CASE Reread(w)
    <3>1. CASE file[mine[w]].state = "queued"
      <4>1. file[mine[w]] \in JobRecord
        BY <2>1, <3>1, ReadableRecord DEF Reread, JobStates, JobPCs, HoldingPCs
      <4>2. copy'[w] = [file[mine[w]] EXCEPT !.state = "running", !.updated = now, !.error = "none"]
        BY <2>1, <3>1 DEF Reread
      <4>3. copy'[w].state = "running"
        BY <4>1, <4>2 DEF JobRecord
      <4>4. pc'[w] = "claim_truncate"
        BY <2>1, <3>1 DEF Reread
      <4> QED
        BY <2>0, <4>3, <4>4
    <3>2. CASE file[mine[w]].state # "queued"
      BY <2>0, <2>1, <3>2 DEF Reread
    <3> QED
      BY <3>1, <3>2
  <2>2. CASE Execute(w)
    <3>1. copy[w] \in JobRecord
      BY <2>2 DEF Execute, CopyPCs, RunningPCs
    <3>2. CASE /\ copy'[w] = [copy[w] EXCEPT !.state = "succeeded", !.updated = now,
                                              !.result = TRUE, !.error = "none"]
               /\ pc'[w] = "persist"
      <4>1. copy'[w].state = "succeeded"
        BY <3>1, <3>2 DEF JobRecord
      <4>2. pc'[w] = "persist"
        BY <3>2
      <4> QED
        BY <2>0, <4>1, <4>2
    <3>3. CASE /\ copy'[w] = [copy[w] EXCEPT !.state = "failed", !.updated = now, !.error = "exec"]
               /\ pc'[w] = "finish_truncate"
      <4>1. copy'[w].state = "failed"
        BY <3>1, <3>3 DEF JobRecord
      <4>2. pc'[w] = "finish_truncate"
        BY <3>3
      <4> QED
        BY <2>0, <4>1, <4>2
    <3> QED
      BY <2>2, <3>2, <3>3 DEF Execute
  <2>3. CASE Truncate(w) \/ ClaimWrite(w) \/ Persist(w) \/ FinishWrite(w)
    BY <2>0, <2>3 DEF Truncate, ClaimWrite, Persist, FinishWrite
  <2>4. CASE \/ StartListing(w) \/ ReadListed(w) \/ FinishListing(w) \/ NoCandidate(w)
             \/ NextCandidate(w) \/ CheckStale(w) \/ RemoveStale(w) \/ CreateLock(w)
             \/ Abandon(w) \/ Release(w) \/ Crash(w) \/ Restart(w)
    <3>1. pc'[w] \notin {"claim_truncate", "claim_write", "persist", "finish_truncate", "finish_write"}
      BY <2>4 DEF StartListing, ReadListed, FinishListing, NoCandidate, EndTurn, NextCandidate, CheckStale,
         RemoveStale, CreateLock, Abandon, Release, Crash, Restart, Reset, Die
    <3> QED
      BY <2>0, <3>1
  <2> QED
    BY <1>1, <2>1, <2>2, <2>3, <2>4 DEF WorkerStep
<1>2. ASSUME UNCHANGED <<pc, copy>> PROVE CopyStates'
  BY <1>2
<1>3. ASSUME NEW c \in Clients, ClientStep(c) \/ ClientCrash(c) PROVE UNCHANGED <<pc, copy>>
  BY <1>3 DEF ClientStep, ClientCrash, Submit, Cancel, Retry, ClientSaves, ClientTruncate,
              ClientWrite, workerVars
<1>4. ASSUME NEW k \in Jobs, Expire(k) PROVE UNCHANGED <<pc, copy>>
  BY <1>4 DEF Expire, workerVars
<1>5. CASE Tick \/ UNCHANGED vars
  BY <1>2, <1>5 DEF Tick, vars, workerVars
<1> QED
  BY <1>1, <1>2, <1>3, <1>4, <1>5 DEF Next

\* Steps that neither write a request nor start an execution.
LEMMA QuietLaunch ==
  ASSUME TypeInv, NEW j \in Jobs, launched[j] + Pending(j) <= requests[j],
         launched'[j] = launched[j], requests'[j] = requests[j],
         file'[j].state = "queued" => file[j].state = "queued",
         Claimers(j)' # {} => Claimers(j) # {} \/ file[j].state = "queued"
  PROVE  launched'[j] + Pending(j)' <= requests'[j]
<1>1. Pending(j) \in {0, 1} /\ Pending(j)' \in {0, 1} /\ (Pending(j)' = 1 => Pending(j) = 1)
  BY DEF Pending
<1> QED
  BY <1>1 DEF TypeInv, TypeOK

LEMMA LaunchStep == TypeInv /\ BoundedOverlap /\ LaunchInv /\ [Next]_vars => LaunchInv'
<1> SUFFICES ASSUME TypeInv, BoundedOverlap, LaunchInv, [Next]_vars,
                    NEW j \in Jobs, reclaimed'[j] = 0
             PROVE  launched'[j] + Pending(j)' <= requests'[j]
  BY CopyStatesStep DEF LaunchInv
<1>0. ASSUME reclaimed[j] = 0 PROVE launched[j] + Pending(j) <= requests[j]
  BY <1>0 DEF LaunchInv
<1> USE DEF ClaimingPCs, fileVars, workerVars, history
<1>1. ASSUME NEW w \in Workers, WorkerStep(w) \/ Crash(w) \/ Restart(w)
      PROVE  launched'[j] + Pending(j)' <= requests'[j]
  <2>0. /\ \A v \in Workers \ {w} : pc'[v] = pc[v] /\ mine'[v] = mine[v]
        /\ Claimers(j)' \subseteq Claimers(j) \union {w}
    BY <1>1, OthersHold DEF Claimers
  <2>1. CASE \/ StartListing(w) \/ ReadListed(w) \/ FinishListing(w) \/ NoCandidate(w)
             \/ NextCandidate(w) \/ CheckStale(w) \/ CreateLock(w)
             \/ Abandon(w) \/ Execute(w) \/ Persist(w) \/ Release(w) \/ Crash(w) \/ Restart(w)
    <3>1. UNCHANGED <<file, launched, requests, reclaimed>>
      BY <2>1 DEF StartListing, ReadListed, FinishListing, NoCandidate, NextCandidate, CheckStale,
         CreateLock, Abandon, Execute, Persist, Release, Crash, Restart
    <3>2. pc'[w] \notin ClaimingPCs
      BY <2>1 DEF StartListing, ReadListed, FinishListing, NoCandidate, EndTurn, NextCandidate, CheckStale,
         CreateLock, Abandon, Execute, Persist, Release, Crash, Restart, Reset, Die, TypeInv, TypeOK
    <3>3. Claimers(j)' \subseteq Claimers(j)
      BY <2>0, <3>2 DEF Claimers
    <3> QED
      BY <1>0, <3>1, <3>3, QuietLaunch
  <2>2. CASE RemoveStale(w)
    <3>1. UNCHANGED <<file, launched, requests>> /\ pc'[w] \notin ClaimingPCs
      BY <2>2 DEF RemoveStale, TypeInv, TypeOK
    <3>2. reclaimed[j] = 0
      BY <2>2 DEF RemoveStale, TypeInv, TypeOK
    <3>3. Claimers(j)' \subseteq Claimers(j)
      BY <2>0, <3>1 DEF Claimers
    <3> QED
      BY <1>0, <3>1, <3>2, <3>3, QuietLaunch
  <2>3. CASE Reread(w)
    <3>1. UNCHANGED <<file, launched, requests, reclaimed>>
      BY <2>3 DEF Reread
    <3>2. w \in Claimers(j)' => file[j].state = "queued"
      BY <2>3 DEF Reread, Claimers, TypeInv, TypeOK
    <3> QED
      BY <1>0, <2>0, <3>1, <3>2, QuietLaunch
  <2>4. CASE Truncate(w)
    <3>1. UNCHANGED <<launched, requests, reclaimed>>
      BY <2>4 DEF Truncate
    <3>2. file'[j].state = "queued" => file[j].state = "queued"
      BY <2>4 DEF Truncate, Empty, TypeInv, TypeOK
    <3>3. w \in Claimers(j)' => w \in Claimers(j)
      BY <2>4 DEF Truncate, Claimers, TypeInv, TypeOK
    <3> QED
      BY <1>0, <2>0, <3>1, <3>2, <3>3, QuietLaunch
  <2>5. CASE ClaimWrite(w)
    <3>1. UNCHANGED <<requests, reclaimed>> /\ mine[w] \in Jobs /\ pc'[w] = "executing"
      BY <2>5 DEF ClaimWrite, TypeInv, TypeOK, JobPCs, HoldingPCs
    <3>2. CASE mine[w] = j
      <4>1. w \in Claimers(j) /\ w \in Holders(j)
        BY <2>5, <3>2 DEF ClaimWrite, Claimers, Holders, HoldingPCs
      <4>2. Claimers(j) = {w}
        BY <3>1, <4>1, SoleHolder DEF Claimers, Holders, HoldingPCs
      <4>3. Claimers(j)' = {}
        BY <2>0, <3>1, <4>2 DEF Claimers
      <4>4. file'[j].state # "queued"
        <5>1. PICK r \in Written(mine[w], copy[w]) : file' = [file EXCEPT ![mine[w]] = r]
          BY <2>5 DEF ClaimWrite
        <5>2. copy[w].state = "running"
          BY <2>5 DEF ClaimWrite, LaunchInv, CopyStates
        <5>3. r.state # "queued"
          BY <5>1, <5>2 DEF Written, Garbled
        <5> QED
          BY <3>2, <5>1, <5>3 DEF TypeInv, TypeOK
      <4>5. Pending(j) = 1 /\ Pending(j)' = 0
        BY <4>1, <4>3, <4>4 DEF Pending
      <4>6. launched'[j] = launched[j] + 1
        BY <2>5, <3>2 DEF ClaimWrite, TypeInv, TypeOK
      <4> QED
        BY <1>0, <3>1, <4>5, <4>6 DEF TypeInv, TypeOK
    <3>3. CASE mine[w] # j
      <4>1. launched'[j] = launched[j] /\ file'[j] = file[j]
        BY <2>5, <3>3 DEF ClaimWrite, TypeInv, TypeOK
      <4>2. Claimers(j)' \subseteq Claimers(j)
        BY <2>0, <3>1 DEF Claimers
      <4> QED
        BY <1>0, <3>1, <4>1, <4>2, QuietLaunch
    <3> QED
      BY <3>2, <3>3
  <2>6. CASE FinishWrite(w)
    <3>1. UNCHANGED <<launched, requests, reclaimed>> /\ pc'[w] \notin ClaimingPCs
      BY <2>6 DEF FinishWrite, TypeInv, TypeOK
    <3>2. PICK r \in Written(mine[w], copy[w]) : file' = [file EXCEPT ![mine[w]] = r]
      BY <2>6 DEF FinishWrite
    <3>3. copy[w].state # "queued"
      BY <2>6 DEF FinishWrite, LaunchInv, CopyStates
    <3>4. r.state # "queued"
      BY <3>2, <3>3 DEF Written, Garbled
    <3>5. file'[j].state = "queued" => file[j].state = "queued"
      BY <3>2, <3>4 DEF TypeInv, TypeOK
    <3>6. Claimers(j)' \subseteq Claimers(j)
      BY <2>0, <3>1 DEF Claimers
    <3> QED
      BY <1>0, <3>1, <3>5, <3>6, QuietLaunch
  <2> QED
    BY <1>1, <2>1, <2>2, <2>3, <2>4, <2>5, <2>6 DEF WorkerStep
<1>2. ASSUME UNCHANGED <<file, pc, mine, launched, requests, reclaimed>>
      PROVE  launched'[j] + Pending(j)' <= requests'[j]
  BY <1>0, <1>2 DEF Pending, Claimers
<1>3. ASSUME NEW c \in Clients, ClientStep(c) \/ ClientCrash(c)
      PROVE  launched'[j] + Pending(j)' <= requests'[j]
  <2>1. CASE ClientTruncate(c)
    <3>1. UNCHANGED <<pc, mine, launched, requests, reclaimed>>
      BY <2>1 DEF ClientTruncate
    <3>2. file'[j].state = "queued" => file[j].state = "queued"
      BY <2>1 DEF ClientTruncate, Empty, TypeInv, TypeOK
    <3>3. Claimers(j)' = Claimers(j)
      BY <3>1 DEF Claimers
    <3> QED
      BY <1>0, <3>1, <3>2, <3>3, QuietLaunch
  <2>2. CASE ClientWrite(c)
    <3>1. UNCHANGED <<pc, mine, launched, reclaimed>> /\ cjob[c] \in Jobs
      BY <2>2 DEF ClientWrite, TypeInv
    <3>2. Claimers(j)' = Claimers(j)
      BY <3>1 DEF Claimers
    <3>3. PICK r \in Written(cjob[c], ccopy[c]) : file' = [file EXCEPT ![cjob[c]] = r]
      BY <2>2 DEF ClientWrite
    <3>4. r.state = "queued" => ccopy[c].state = "queued"
      BY <3>3 DEF Written, Garbled
    <3>5. CASE cjob[c] = j /\ ccopy[c].state = "queued"
      <4>1. requests'[j] = requests[j] + 1
        BY <2>2, <3>5 DEF ClientWrite, TypeInv, TypeOK
      <4>2. Pending(j) \in {0, 1} /\ Pending(j)' \in {0, 1}
        BY DEF Pending
      <4> QED
        BY <1>0, <3>1, <4>1, <4>2 DEF TypeInv, TypeOK
    <3>6. CASE ~(cjob[c] = j /\ ccopy[c].state = "queued")
      <4>1. requests'[j] = requests[j]
        BY <2>2, <3>6 DEF ClientWrite, TypeInv, TypeOK
      <4>2. file'[j].state = "queued" => file[j].state = "queued"
        BY <3>3, <3>4, <3>6 DEF TypeInv, TypeOK
      <4> QED
        BY <1>0, <3>1, <3>2, <4>1, <4>2, QuietLaunch
    <3> QED
      BY <3>5, <3>6
  <2>3. CASE (\E k \in Jobs : Submit(c, k) \/ Cancel(c, k) \/ Retry(c, k)) \/ ClientCrash(c)
    BY <1>2, <2>3 DEF Submit, Cancel, Retry, ClientSaves, ClientCrash
  <2> QED
    BY <1>3, <2>1, <2>2, <2>3 DEF ClientStep
<1>4. ASSUME NEW k \in Jobs, Expire(k) PROVE launched'[j] + Pending(j)' <= requests'[j]
  BY <1>2, <1>4 DEF Expire
<1>5. CASE Tick \/ UNCHANGED vars
  BY <1>2, <1>5 DEF Tick, vars
<1> QED
  BY <1>1, <1>3, <1>4, <1>5 DEF Next

LEMMA LaunchInvariant == Spec => []LaunchInv
  BY TypeInvariant, OverlapBounded, LaunchInit, LaunchStep, PTL DEF Spec

\* As long as no lock of a job was removed as stale, its file was never turned
\* into more executions than it was put into the queue.
THEOREM LaunchesBounded == Spec => []LaunchesRequested
<1>1. TypeInv /\ LaunchInv => LaunchesRequested
  <2> SUFFICES ASSUME TypeInv, LaunchInv, NEW j \in Jobs, reclaimed[j] = 0
               PROVE  launched[j] <= requests[j]
    BY DEF LaunchesRequested
  <2>1. Pending(j) \in {0, 1} /\ launched[j] + Pending(j) <= requests[j]
    BY DEF Pending, LaunchInv
  <2> QED
    BY <2>1 DEF TypeInv, TypeOK
<1> QED
  BY <1>1, TypeInvariant, LaunchInvariant, PTL

-----------------------------------------------------------------------------
(* Nothing is left behind unless a process was killed *)

\* A record says running only until its worker begins to write the outcome.
WorkingPCs == {"executing", "persist", "finish_truncate"}
Working(j) == {w \in Workers : pc[w] \in WorkingPCs /\ mine[w] = j}

\* Those who truncated the file of a job and are about to fill it.
FillingPCs == {"claim_write", "finish_write"}
Filling(j) == {w \in Workers : pc[w] \in FillingPCs /\ mine[w] = j}
FillingClients(j) == {c \in Clients : cpc[c] = "write" /\ cjob[c] = j}

Attended(j) ==
  /\ lock[j] # "none" => Holders(j) # {}
  /\ file[j].state = "running" => Working(j) # {}
  /\ file[j] = Empty => Filling(j) # {} \/ FillingClients(j) # {}

\* NothingOrphaned is not inductive: a "running" record could outlive the write
\* of the outcome, or a client write one.
OrphanInv ==
  /\ \A c \in Clients : cpc[c] # "idle" => ccopy[c].state \in {"queued", "canceled"}
  /\ crashes = 0 => \A j \in Jobs : Attended(j)

LEMMA OrphanInit == Init => OrphanInv
  BY DEF Init, OrphanInv, Attended, Absent, Empty

\* What a step of w has to leave so that nothing of j is orphaned.
LEMMA AttendedStep ==
  ASSUME TypeInv, NEW w \in Workers, WorkerStep(w) \/ Restart(w), NEW j \in Jobs, Attended(j),
         UNCHANGED <<cpc, cjob>>,
         lock'[j] # "none" => \/ lock[j] # "none" /\ (w \in Holders(j) => w \in Holders(j)')
                              \/ w \in Holders(j)',
         file'[j].state = "running" =>
           \/ file[j].state = "running" /\ (w \in Working(j) => w \in Working(j)')
           \/ w \in Working(j)',
         file'[j] = Empty => \/ file[j] = Empty /\ (w \in Filling(j) => w \in Filling(j)')
                             \/ w \in Filling(j)'
  PROVE  Attended(j)'
<1>1. ASSUME NEW v \in Workers \ {w}
      PROVE  /\ v \in Holders(j) => v \in Holders(j)'
             /\ v \in Working(j) => v \in Working(j)'
             /\ v \in Filling(j) => v \in Filling(j)'
  BY OthersHold DEF Holders, Working, Filling
<1>2. FillingClients(j)' = FillingClients(j)
  BY DEF FillingClients
<1>3. /\ Holders(j) \subseteq Workers /\ Working(j) \subseteq Workers /\ Filling(j) \subseteq Workers
  BY DEF Holders, Working, Filling
<1> QED
  BY <1>1, <1>2, <1>3 DEF Attended

\* A file that is written is not empty, and says running only if the copy does.
LEMMA WrittenStates ==
  ASSUME NEW r \in JobRecord, NEW j \in Jobs, NEW f \in Written(j, r)
  PROVE  f # Empty /\ (f.state = "running" => r.state = "running")
BY DEF Written, Garbled, Empty, JobRecord, JobStates

LEMMA WorkerAttends ==
  ASSUME TypeInv, CopyStates, NEW w \in Workers, WorkerStep(w) \/ Restart(w),
         NEW j \in Jobs, Attended(j)
  PROVE  Attended(j)'
<1>0. /\ pc[w] \in JobPCs => mine[w] \in Jobs
      /\ pc[w] \in CopyPCs => copy[w] \in JobRecord
  BY DEF TypeInv
<1> USE DEF TypeInv, TypeOK, Reset, Die, fileVars, clientVars, history, JobPCs, CopyPCs,
        HoldingPCs, RunningPCs, ClaimingPCs, WorkingPCs, FillingPCs
<1>1. CASE \/ StartListing(w) \/ ReadListed(w) \/ FinishListing(w) \/ NoCandidate(w)
           \/ NextCandidate(w) \/ CheckStale(w) \/ Restart(w)
  <2>1. UNCHANGED <<file, lock, cpc, cjob>> /\ pc[w] \notin HoldingPCs
    BY <1>1 DEF StartListing, ReadListed, FinishListing, NoCandidate, NextCandidate, CheckStale,
       Restart
  <2> QED
    BY <2>1, AttendedStep DEF Holders, Working, Filling
<1>2. CASE RemoveStale(w)
  <2>1. /\ UNCHANGED <<file, cpc, cjob>> /\ pc[w] \notin HoldingPCs
        /\ lock' = [lock EXCEPT ![mine[w]] = "none"]
    BY <1>2 DEF RemoveStale
  <2>2. lock'[j] # "none" => lock[j] # "none"
    BY <2>1
  <2> QED
    BY <2>1, <2>2, AttendedStep DEF Holders, Working, Filling
<1>3. CASE CreateLock(w)
  <2>1. UNCHANGED <<file, cpc, cjob>> /\ pc[w] = "create_lock" /\ mine[w] \in Jobs
    BY <1>0, <1>3 DEF CreateLock
  <2>2. lock'[j] # "none" => lock[j] # "none" \/ (pc'[w] = "reread" /\ mine'[w] = j)
    BY <1>3, <2>1 DEF CreateLock
  <2> QED
    BY <2>1, <2>2, AttendedStep DEF Holders, Working, Filling
<1>4. CASE Reread(w) \/ Execute(w) \/ Persist(w)
  <2>1. /\ UNCHANGED <<file, lock, cpc, cjob, mine>> /\ pc'[w] \in HoldingPCs
        /\ pc[w] \in WorkingPCs => pc'[w] \in WorkingPCs
        /\ pc[w] \notin FillingPCs
    BY <1>4 DEF Reread, Execute, Persist
  <2> QED
    BY <2>1, AttendedStep DEF Holders, Working, Filling
<1>5. CASE Abandon(w) \/ Release(w)
  <2>1. /\ UNCHANGED <<file, cpc, cjob>> /\ pc[w] \in {"abandon", "release"} /\ mine[w] \in Jobs
        /\ lock' = [lock EXCEPT ![mine[w]] = "none"]
    BY <1>0, <1>5 DEF Abandon, Release
  <2>2. w \notin Working(j) /\ w \notin Filling(j)
    BY <2>1 DEF Working, Filling
  <2>3. lock'[j] # "none" => lock[j] # "none" /\ w \notin Holders(j)
    BY <2>1 DEF Holders
  <2> QED
    BY <2>1, <2>2, <2>3, AttendedStep
<1>6. CASE Truncate(w)
  <2>1. /\ UNCHANGED <<lock, cpc, cjob, mine>> /\ mine[w] \in Jobs
        /\ file' = [file EXCEPT ![mine[w]] = Empty]
        /\ pc[w] \in {"claim_truncate", "finish_truncate"} /\ pc'[w] \in FillingPCs
    BY <1>0, <1>6 DEF Truncate
  <2>2. w \in Holders(j)' <=> w \in Holders(j)
    BY <2>1 DEF Holders
  <2>3. CASE mine[w] = j
    <3>1. file'[j] = Empty /\ file'[j].state # "running" /\ w \in Filling(j)'
      BY <2>1, <2>3 DEF Filling, Empty
    <3> QED
      BY <2>1, <2>2, <3>1, AttendedStep
  <2>4. CASE mine[w] # j
    <3>1. file'[j] = file[j] /\ w \notin Working(j) /\ w \notin Filling(j)
      BY <2>1, <2>4 DEF Working, Filling
    <3> QED
      BY <2>1, <2>2, <3>1, AttendedStep
  <2> QED
    BY <2>3, <2>4
<1>7. CASE ClaimWrite(w) \/ FinishWrite(w)
  <2>1. /\ UNCHANGED <<lock, cpc, cjob, mine>> /\ mine[w] \in Jobs /\ copy[w] \in JobRecord
        /\ \/ pc[w] = "claim_write" /\ pc'[w] = "executing"
           \/ pc[w] = "finish_write" /\ pc'[w] = "release"
    BY <1>0, <1>7 DEF ClaimWrite, FinishWrite
  <2>2. PICK r \in Written(mine[w], copy[w]) : file' = [file EXCEPT ![mine[w]] = r]
    BY <1>7 DEF ClaimWrite, FinishWrite
  <2>3. w \in Holders(j)' <=> w \in Holders(j)
    BY <2>1 DEF Holders
  <2>4. CASE mine[w] = j
    <3>1. file'[j] = r /\ r # Empty /\ (r.state = "running" => copy[w].state = "running")
      BY <2>1, <2>2, <2>4, WrittenStates
    <3>2. pc[w] = "finish_write" => copy[w].state # "running"
      BY DEF CopyStates
    <3>3. file'[j].state = "running" => w \in Working(j)'
      BY <2>1, <2>4, <3>1, <3>2 DEF Working
    <3> QED
      BY <2>1, <2>3, <3>1, <3>3, AttendedStep
  <2>5. CASE mine[w] # j
    <3>1. file'[j] = file[j] /\ w \notin Working(j) /\ w \notin Filling(j)
      BY <2>1, <2>2, <2>5 DEF Working, Filling
    <3> QED
      BY <2>1, <2>3, <3>1, AttendedStep
  <2> QED
    BY <2>4, <2>5
<1> QED
  BY <1>1, <1>2, <1>3, <1>4, <1>5, <1>6, <1>7 DEF WorkerStep

LEMMA ClientAttends ==
  ASSUME TypeInv, NEW c \in Clients, ClientStep(c), NEW j \in Jobs, Attended(j),
         cpc[c] # "idle" => ccopy[c].state \in {"queued", "canceled"}
  PROVE  Attended(j)'
<1> USE DEF TypeInv, TypeOK, fileVars, workerVars, history
<1>0. UNCHANGED <<pc, mine, lock>>
  BY DEF ClientStep, Submit, Cancel, Retry, ClientSaves, ClientTruncate, ClientWrite
<1>1. Holders(j)' = Holders(j) /\ Working(j)' = Working(j) /\ Filling(j)' = Filling(j)
  BY <1>0 DEF Holders, Working, Filling
<1>2. ASSUME NEW k \in Jobs, Submit(c, k) \/ Cancel(c, k) \/ Retry(c, k) PROVE Attended(j)'
  <2>1. /\ cpc[c] = "idle" /\ file' = file
        /\ \A b \in Clients \ {c} : cpc'[b] = cpc[b] /\ cjob'[b] = cjob[b]
    BY <1>2 DEF Submit, Cancel, Retry, ClientSaves
  <2>2. FillingClients(j) \subseteq FillingClients(j)'
    BY <2>1 DEF FillingClients
  <2> QED
    BY <1>0, <1>1, <2>1, <2>2 DEF Attended
<1>3. CASE ClientTruncate(c)
  <2>1. /\ cpc[c] = "truncate" /\ cpc' = [cpc EXCEPT ![c] = "write"] /\ cjob' = cjob
        /\ file' = [file EXCEPT ![cjob[c]] = Empty]
    BY <1>3 DEF ClientTruncate
  <2>2. FillingClients(j) \subseteq FillingClients(j)'
    BY <2>1 DEF FillingClients
  <2>3. CASE cjob[c] = j
    <3>1. c \in FillingClients(j)' /\ file'[j] = Empty
      BY <2>1, <2>3 DEF FillingClients
    <3> QED
      BY <1>0, <1>1, <3>1 DEF Attended, Empty
  <2>4. CASE cjob[c] # j
    <3>1. file'[j] = file[j]
      BY <2>1, <2>4
    <3> QED
      BY <1>0, <1>1, <2>2, <3>1 DEF Attended
  <2> QED
    BY <2>3, <2>4
<1>4. CASE ClientWrite(c)
  <2>1. PICK r \in Written(cjob[c], ccopy[c]) : file' = [file EXCEPT ![cjob[c]] = r]
    BY <1>4 DEF ClientWrite
  <2>2. /\ cpc[c] = "write" /\ cjob[c] \in Jobs /\ ccopy[c] \in JobRecord
        /\ \A b \in Clients \ {c} : cpc'[b] = cpc[b] /\ cjob'[b] = cjob[b]
    BY <1>4 DEF ClientWrite, ClientDone
  <2>3. CASE cjob[c] = j
    <3>1. file'[j] # Empty /\ file'[j].state # "running"
      BY <2>1, <2>2, <2>3, WrittenStates
    <3> QED
      BY <1>0, <1>1, <3>1 DEF Attended
  <2>4. CASE cjob[c] # j
    <3>1. file'[j] = file[j] /\ FillingClients(j) \subseteq FillingClients(j)'
      BY <2>1, <2>2, <2>4 DEF FillingClients
    <3> QED
      BY <1>0, <1>1, <3>1 DEF Attended
  <2> QED
    BY <2>3, <2>4
<1> QED
  BY <1>2, <1>3, <1>4 DEF ClientStep

LEMMA OrphanStep == TypeInv /\ CopyStates /\ OrphanInv /\ [Next]_vars => OrphanInv'
<1> SUFFICES ASSUME TypeInv, CopyStates, OrphanInv, [Next]_vars PROVE OrphanInv'
  OBVIOUS
<1>0. ASSUME UNCHANGED <<file, pc, mine, cpc, cjob, ccopy, crashes>>,
             \A j \in Jobs : lock'[j] # "none" => lock[j] # "none"
      PROVE  OrphanInv'
  BY <1>0 DEF OrphanInv, Attended, Holders, Working, Filling, FillingClients
<1>1. ASSUME NEW w \in Workers, WorkerStep(w) \/ Restart(w) PROVE OrphanInv'
  <2>1. UNCHANGED <<cpc, ccopy, crashes>>
    BY <1>1 DEF WorkerStep, StartListing, ReadListed, FinishListing, NoCandidate, NextCandidate,
       CheckStale, RemoveStale, CreateLock, Reread, Abandon, Truncate, ClaimWrite, Execute, Persist,
       FinishWrite, Release, Restart, clientVars, history
  <2> QED
    BY <1>1, <2>1, WorkerAttends DEF OrphanInv
<1>2. ASSUME NEW w \in Workers, Crash(w) PROVE OrphanInv'
  <2>1. UNCHANGED <<cpc, ccopy>> /\ crashes' # 0
    BY <1>2 DEF Crash, clientVars, TypeInv, TypeOK
  <2> QED
    BY <2>1 DEF OrphanInv
<1>3. ASSUME NEW c \in Clients, ClientStep(c) PROVE OrphanInv'
  <2>1. crashes' = crashes
    BY <1>3 DEF ClientStep, Submit, Cancel, Retry, ClientSaves, ClientTruncate, ClientWrite, history
  <2>2. \A b \in Clients \ {c} : cpc'[b] = cpc[b] /\ ccopy'[b] = ccopy[b]
    BY <1>3 DEF ClientStep, Submit, Cancel, Retry, ClientSaves, ClientTruncate, ClientWrite,
       ClientDone, TypeInv, TypeOK
  <2>3. cpc'[c] # "idle" => ccopy'[c].state \in {"queued", "canceled"}
    <3>1. CASE ClientTruncate(c) \/ ClientWrite(c)
      BY <3>1 DEF ClientTruncate, ClientWrite, ClientDone, OrphanInv, TypeInv, TypeOK
    <3>2. ASSUME NEW j \in Jobs, Submit(c, j) PROVE ccopy'[c].state = "queued"
      BY <3>2 DEF Submit, ClientSaves, NewRecord, TypeInv, TypeOK
    <3>3. ASSUME NEW j \in Jobs, Cancel(c, j) PROVE ccopy'[c].state = "canceled"
      <4>1. file[j] \in JobRecord
        BY <3>3 DEF Cancel, TypeInv, TypeOK
      <4> QED
        BY <3>3, <4>1 DEF Cancel, ClientSaves, JobRecord, TypeInv, TypeOK
    <3>4. ASSUME NEW j \in Jobs, Retry(c, j) PROVE ccopy'[c].state = "queued"
      <4>1. file[j] \in JobRecord
        BY <3>4 DEF Retry, TypeInv, TypeOK
      <4> QED
        BY <3>4, <4>1 DEF Retry, ClientSaves, JobRecord, TypeInv, TypeOK
    <3> QED
      BY <1>3, <3>1, <3>2, <3>3, <3>4 DEF ClientStep
  <2>4. crashes = 0 => \A j \in Jobs : Attended(j)'
    BY <1>3, ClientAttends DEF OrphanInv
  <2> QED
    BY <2>1, <2>2, <2>3, <2>4 DEF OrphanInv
<1>4. ASSUME NEW c \in Clients, ClientCrash(c) PROVE OrphanInv'
  <2>1. crashes' # 0
    BY <1>4 DEF ClientCrash, TypeInv, TypeOK
  <2>2. /\ cpc'[c] = "idle"
        /\ \A b \in Clients \ {c} : cpc'[b] = cpc[b] /\ ccopy'[b] = ccopy[b]
    BY <1>4 DEF ClientCrash, ClientDone, TypeInv, TypeOK
  <2> QED
    BY <2>1, <2>2 DEF OrphanInv
<1>5. ASSUME NEW k \in Jobs, Expire(k) PROVE OrphanInv'
  <2>1. \A j \in Jobs : lock'[j] # "none" => lock[j] # "none"
    BY <1>5 DEF Expire, TypeInv, TypeOK
  <2> QED
    BY <1>0, <1>5, <2>1 DEF Expire, workerVars, clientVars, history
<1>6. CASE Tick \/ UNCHANGED vars
  BY <1>0, <1>6 DEF Tick, vars, fileVars, workerVars, clientVars, history
<1> QED
  BY <1>1, <1>2, <1>3, <1>4, <1>5, <1>6 DEF Next

\* Unless a process was killed, a lock file has an owner at work, a "running"
\* record a worker that will write its outcome, and an empty job file a writer
\* about to fill it: whatever expires, however many work on a job.
THEOREM OrphansExplained == Spec => []NothingOrphaned
<1>1. Spec => []OrphanInv
  BY TypeInvariant, LaunchInvariant, OrphanInit, OrphanStep, PTL DEF Spec, LaunchInv
<1>2. OrphanInv => NothingOrphaned
  <2> SUFFICES ASSUME OrphanInv, crashes = 0, NEW j \in Jobs
               PROVE  /\ lock[j] # "none" => Holders(j) # {}
                      /\ file[j].state = "running" => Runners(j) # {}
                      /\ file[j] = Empty =>
                           \/ \E c \in Clients : cpc[c] = "write" /\ cjob[c] = j
                           \/ \E w \in Workers : pc[w] \in {"claim_write", "finish_write"} /\ mine[w] = j
    BY DEF NothingOrphaned
  <2>1. Attended(j)
    BY DEF OrphanInv
  <2>2. Working(j) \subseteq Runners(j)
    BY DEF Working, WorkingPCs, Runners, RunningPCs
  <2> QED
    BY <2>1, <2>2 DEF Attended, Filling, FillingPCs, FillingClients
<1> QED
  BY <1>1, <1>2, PTL

-----------------------------------------------------------------------------
(* A cancel is final *)

\* Workers that have not claimed a canceled job neither claim nor write it.
LEMMA CancelKept ==
  ASSUME TypeInv, [Next]_vars, NEW j \in Jobs, file[j].state = "canceled",
         Claimers(j) = {}, Runners(j) = {}
  PROVE  /\ Claimers(j)' = {} /\ Runners(j)' = {}
         /\ file'[j] # file[j] => \E c \in Clients : cjob[c] = j
<1> USE DEF TypeInv, TypeOK, fileVars, workerVars, clientVars, history, ClaimingPCs, RunningPCs
<1>0. ASSUME UNCHANGED <<pc, mine>> PROVE Claimers(j)' = {} /\ Runners(j)' = {}
  BY <1>0 DEF Claimers, Runners
<1>1. ASSUME NEW w \in Workers, WorkerStep(w) \/ Crash(w) \/ Restart(w)
      PROVE  Claimers(j)' = {} /\ Runners(j)' = {} /\ file'[j] = file[j]
  <2>0. \A v \in Workers \ {w} : pc'[v] = pc[v] /\ mine'[v] = mine[v]
    BY <1>1, OthersHold
  <2>1. ~(pc[w] \in ClaimingPCs \union RunningPCs /\ mine[w] = j)
    BY DEF Claimers, Runners
  <2>2. CASE ~(pc'[w] \in ClaimingPCs \union RunningPCs /\ mine'[w] = j) /\ file'[j] = file[j]
    BY <2>0, <2>2 DEF Claimers, Runners
  <2>3. CASE Reread(w)
    <3>1. file[mine[w]].state # "queued" => pc'[w] = "abandon"
      BY <2>3 DEF Reread
    <3>2. mine' = mine /\ file' = file
      BY <2>3 DEF Reread
    <3> QED
      BY <2>2, <3>1, <3>2
  <2>4. CASE Truncate(w) \/ ClaimWrite(w) \/ FinishWrite(w)
    <3>1. mine' = mine /\ pc[w] \in ClaimingPCs \union RunningPCs
      BY <2>4 DEF Truncate, ClaimWrite, FinishWrite
    <3>2. PICK r : file' = [file EXCEPT ![mine[w]] = r]
      BY <2>4 DEF Truncate, ClaimWrite, FinishWrite
    <3> QED
      BY <2>1, <2>2, <3>1, <3>2
  <2>5. CASE Execute(w) \/ Persist(w)
    <3>1. mine' = mine /\ file' = file /\ pc[w] \in RunningPCs
      BY <2>5 DEF Execute, Persist
    <3> QED
      BY <2>1, <2>2, <3>1
  <2>6. CASE \/ StartListing(w) \/ ReadListed(w) \/ FinishListing(w) \/ NoCandidate(w)
             \/ NextCandidate(w) \/ CheckStale(w) \/ RemoveStale(w) \/ CreateLock(w) \/ Abandon(w)
             \/ Release(w) \/ Crash(w) \/ Restart(w)
    <3>1. file' = file /\ pc'[w] \notin ClaimingPCs \union RunningPCs
      BY <2>6 DEF StartListing, ReadListed, FinishListing, NoCandidate, EndTurn, NextCandidate, CheckStale,
         RemoveStale, CreateLock, Abandon, Release, Crash, Restart, Reset, Die
    <3> QED
      BY <2>2, <3>1
  <2> QED
    BY <1>1, <2>3, <2>4, <2>5, <2>6 DEF WorkerStep
<1>2. ASSUME NEW c \in Clients, ClientStep(c) \/ ClientCrash(c)
      PROVE  UNCHANGED <<pc, mine>> /\ (file'[j] # file[j] => cjob[c] = j)
  <2>1. UNCHANGED <<pc, mine>>
    BY <1>2 DEF ClientStep, ClientCrash, Submit, Cancel, Retry, ClientSaves, ClientTruncate,
       ClientWrite
  <2>2. file' = file \/ \E r : file' = [file EXCEPT ![cjob[c]] = r]
    BY <1>2 DEF ClientStep, ClientCrash, Submit, Cancel, Retry, ClientSaves, ClientTruncate,
       ClientWrite
  <2> QED
    BY <2>1, <2>2
<1>3. ASSUME NEW k \in Jobs, Expire(k) PROVE UNCHANGED <<pc, mine, file>>
  BY <1>3 DEF Expire
<1>4. CASE Tick \/ UNCHANGED vars
  BY <1>0, <1>4 DEF Tick, vars
<1> QED
  BY <1>0, <1>1, <1>2, <1>3, <1>4 DEF Next

\* A canceled job that no worker had claimed is neither claimed nor written by
\* one, however old the listing it works from, until a client writes it again.
THEOREM CancelsStick == Spec => CancelSticks
<1>1. TypeInv /\ [Next]_vars =>
        [\A j \in Jobs :
           /\ file[j].state = "canceled"
           /\ Claimers(j) \union Runners(j) = {}
           => /\ Claimers(j)' \union Runners(j)' = {}
              /\ file'[j] # file[j] => \E c \in Clients : cjob[c] = j]_vars
  BY CancelKept
<1> QED
  BY <1>1, TypeInvariant, PTL DEF Spec, CancelSticks

-----------------------------------------------------------------------------
(* The queue implements the ledger *)

\* No lock file ever looks stale.
NeverStale ==
  /\ \A j \in Jobs : lock[j] # "stale" /\ reclaimed[j] = 0
  /\ \A w \in Workers : pc[w] # "remove_stale"

LEMMA NeverStaleStep ==
  ASSUME MaxReclaims = 0
  PROVE  TypeInv /\ NeverStale /\ [Next]_vars => NeverStale'
<1> SUFFICES ASSUME TypeInv, NeverStale, [Next]_vars PROVE NeverStale'
  OBVIOUS
<1> USE DEF NeverStale, TypeInv, TypeOK, fileVars, workerVars, history
<1>1. ASSUME NEW w \in Workers, WorkerStep(w) \/ Crash(w) \/ Restart(w)
      PROVE  NeverStale'
  <2>1. CASE StartListing(w) \/ ReadListed(w) \/ FinishListing(w) \/ NoCandidate(w) \/ NextCandidate(w)
    BY <2>1 DEF StartListing, ReadListed, FinishListing, NoCandidate, EndTurn, NextCandidate, Reset, Die
  <2>2. CASE CheckStale(w)
    <3>1. mine[w] \in Jobs
      BY <2>2 DEF CheckStale, JobPCs
    <3> QED
      BY <2>2, <3>1 DEF CheckStale, Reset, Die
  <2>3. CASE RemoveStale(w) \/ CreateLock(w) \/ Reread(w) \/ Abandon(w)
    BY <2>3 DEF RemoveStale, CreateLock, Reread, Abandon
  <2>4. CASE Truncate(w) \/ ClaimWrite(w) \/ Execute(w) \/ Persist(w) \/ FinishWrite(w) \/ Release(w)
    BY <2>4 DEF Truncate, ClaimWrite, Execute, Persist, FinishWrite, Release, EndTurn, Reset
  <2>5. CASE Crash(w) \/ Restart(w)
    BY <2>5 DEF Crash, Restart, Reset
  <2> QED
    BY <1>1, <2>1, <2>2, <2>3, <2>4, <2>5 DEF WorkerStep
<1>2. ASSUME NEW c \in Clients, ClientStep(c) \/ ClientCrash(c) PROVE NeverStale'
  BY <1>2 DEF ClientStep, ClientCrash, Submit, Cancel, Retry, ClientSaves, ClientTruncate, ClientWrite
<1>3. ASSUME NEW k \in Jobs PROVE ~Expire(k)
  BY DEF Expire
<1>4. CASE Tick \/ UNCHANGED vars
  BY <1>4 DEF Tick, vars
<1> QED
  BY <1>1, <1>2, <1>3, <1>4 DEF Next

\* The step of a worker that changes neither the requests nor who executes.
LEMMA SameRunners ==
  ASSUME NEW w \in Workers, \A v \in Workers \ {w} : pc'[v] = pc[v] /\ mine'[v] = mine[v],
         \/ pc[w] \notin RunningPCs /\ pc'[w] \notin RunningPCs
         \/ pc[w] \in RunningPCs /\ pc'[w] \in RunningPCs /\ mine'[w] = mine[w]
  PROVE  Executing' = Executing
<1> SUFFICES ASSUME NEW j \in Jobs PROVE Runners(j)' = Runners(j)
  BY DEF Executing
<1>1. ASSUME NEW v \in Workers
      PROVE  (pc'[v] \in RunningPCs /\ mine'[v] = j) <=> (pc[v] \in RunningPCs /\ mine[v] = j)
  BY <1>1
<1> QED
  BY <1>1 DEF Runners

\* A worker that stops executing ends the execution the ledger knows of.
LEMMA RunnerLeaves ==
  ASSUME TypeInv, BoundedOverlap, NeverStale, NEW w \in Workers, NEW j \in Jobs, mine[w] = j,
         \A v \in Workers \ {w} : pc'[v] = pc[v] /\ mine'[v] = mine[v],
         pc[w] \in RunningPCs, pc'[w] \notin RunningPCs, UNCHANGED <<requests, launched>>
  PROVE  Ledger!End(j)
<1>1. w \in Holders(j)
  BY DEF Holders, HoldingPCs, RunningPCs
<1>2. Runners(j) = {w}
  BY <1>1, SoleHolder DEF NeverStale, Runners, Holders, HoldingPCs, RunningPCs
<1>3. ASSUME NEW k \in Jobs
      PROVE  Runners(k)' = Runners(k) \ {w} /\ (k # j => w \notin Runners(k))
  BY DEF Runners
<1>4. Executing' = [Executing EXCEPT ![j] = FALSE]
  <2>1. \A k \in Jobs : (Runners(k)' # {}) = (IF k = j THEN FALSE ELSE Runners(k) # {})
    BY <1>2, <1>3
  <2> QED
    BY <2>1 DEF Executing
<1> QED
  BY <1>2, <1>4 DEF Ledger!End, Executing

\* A worker that saves "running" starts an execution the ledger allows.
LEMMA RunnerStarts ==
  ASSUME TypeInv, BoundedOverlap, LaunchInv, NeverStale, NEW w \in Workers, ClaimWrite(w),
         NEW j \in Jobs, mine[w] = j
  PROVE  Ledger!Launch(j)
<1>1. w \in Holders(j) /\ w \in Claimers(j)
  BY DEF ClaimWrite, Holders, HoldingPCs, Claimers, ClaimingPCs
<1>2. Runners(j) = {}
  <2>1. ASSUME NEW v \in Runners(j) PROVE FALSE
    <3>1. v \in Holders(j)
      BY <2>1 DEF Runners, Holders, HoldingPCs, RunningPCs
    <3>2. v = w
      BY <1>1, <3>1, SoleHolder DEF NeverStale
    <3> QED
      BY <2>1, <3>2 DEF ClaimWrite, Runners, RunningPCs
  <2> QED
    BY <2>1
<1>3. launched[j] < requests[j]
  <2>1. Pending(j) = 1
    BY <1>1 DEF Pending
  <2>2. launched[j] + 1 <= requests[j]
    BY <2>1 DEF LaunchInv, NeverStale
  <2> QED
    BY <2>2 DEF TypeInv, TypeOK
<1>4. /\ pc[w] \notin RunningPCs /\ pc'[w] \in RunningPCs /\ mine' = mine
      /\ \A v \in Workers \ {w} : pc'[v] = pc[v]
  BY DEF ClaimWrite, TypeInv, TypeOK, RunningPCs
<1>5. ASSUME NEW k \in Jobs
      PROVE  Runners(k)' = IF k = j THEN {w} ELSE Runners(k)
  BY <1>2, <1>4 DEF Runners
<1>6. Executing' = [Executing EXCEPT ![j] = TRUE]
  <2>1. \A k \in Jobs : (Runners(k)' # {}) = (IF k = j THEN TRUE ELSE Runners(k) # {})
    BY <1>5
  <2> QED
    BY <2>1 DEF Executing
<1>7. launched' = [launched EXCEPT ![j] = @ + 1] /\ requests' = requests
  BY DEF ClaimWrite
<1> QED
  BY <1>2, <1>3, <1>6, <1>7 DEF Ledger!Launch, Executing

\* Every step of the queue is a step of the ledger or changes nothing of it.
LEMMA LedgerStep ==
  TypeInv /\ BoundedOverlap /\ LaunchInv /\ NeverStale /\ [Next]_vars => [Ledger!Next]_Ledger!vars
<1> SUFFICES ASSUME TypeInv, BoundedOverlap, LaunchInv, NeverStale, [Next]_vars
             PROVE  [Ledger!Next]_Ledger!vars
  OBVIOUS
<1>0. ASSUME UNCHANGED <<requests, launched, Executing>> PROVE [Ledger!Next]_Ledger!vars
  BY <1>0 DEF Ledger!vars
<1>1. ASSUME NEW w \in Workers, WorkerStep(w) \/ Crash(w) \/ Restart(w)
      PROVE  [Ledger!Next]_Ledger!vars
  <2>0. \A v \in Workers \ {w} : pc'[v] = pc[v] /\ mine'[v] = mine[v]
    BY <1>1, OthersHold
  <2>1. CASE ClaimWrite(w)
    <3>1. mine[w] \in Jobs
      BY <2>1 DEF ClaimWrite, TypeInv, JobPCs, HoldingPCs
    <3> QED
      BY <2>1, <3>1, RunnerStarts DEF Ledger!Next
  <2>2. CASE (WorkerStep(w) /\ ~ClaimWrite(w)) \/ Crash(w) \/ Restart(w)
    <3>1. UNCHANGED <<requests, launched>>
      BY <2>2 DEF WorkerStep, StartListing, ReadListed, FinishListing, NoCandidate, NextCandidate,
         CheckStale, RemoveStale, CreateLock, Reread, Abandon, Truncate, Execute,
         Persist, FinishWrite, Release, Crash, Restart, history
    <3>2. CASE pc[w] \in RunningPCs /\ pc'[w] \notin RunningPCs
      <4>1. mine[w] \in Jobs
        BY <3>2 DEF TypeInv, JobPCs, HoldingPCs, RunningPCs
      <4> QED
        BY <2>0, <3>1, <3>2, <4>1, RunnerLeaves DEF Ledger!Next
    <3>3. CASE ~(pc[w] \in RunningPCs /\ pc'[w] \notin RunningPCs)
      <4>1. \/ pc[w] \notin RunningPCs /\ pc'[w] \notin RunningPCs
            \/ pc[w] \in RunningPCs /\ pc'[w] \in RunningPCs /\ mine'[w] = mine[w]
        <5> USE DEF RunningPCs, TypeInv, TypeOK, Reset, Die
        <5>1. CASE \/ StartListing(w) \/ ReadListed(w) \/ FinishListing(w) \/ NoCandidate(w)
                   \/ NextCandidate(w)
          BY <5>1 DEF StartListing, ReadListed, FinishListing, NoCandidate, EndTurn, NextCandidate
        <5>2. CASE CheckStale(w) \/ RemoveStale(w) \/ CreateLock(w) \/ Reread(w) \/ Abandon(w)
          BY <5>2 DEF CheckStale, RemoveStale, CreateLock, Reread, Abandon
        <5>3. CASE Truncate(w) \/ Execute(w) \/ Persist(w) \/ FinishWrite(w)
          BY <5>3 DEF Truncate, Execute, Persist, FinishWrite
        <5>4. CASE Release(w) \/ Crash(w) \/ Restart(w)
          BY <3>3, <5>4 DEF Release, EndTurn, Crash, Restart
        <5> QED
          BY <2>2, <5>1, <5>2, <5>3, <5>4 DEF WorkerStep
      <4> QED
        BY <1>0, <2>0, <3>1, <4>1, SameRunners
    <3> QED
      BY <3>2, <3>3
  <2> QED
    BY <1>1, <2>1, <2>2
<1>2. ASSUME UNCHANGED <<pc, mine>> PROVE Executing' = Executing
  BY <1>2 DEF Executing, Runners
<1>3. ASSUME NEW c \in Clients, ClientStep(c) \/ ClientCrash(c)
      PROVE  [Ledger!Next]_Ledger!vars
  <2>1. UNCHANGED <<pc, mine, launched>>
    BY <1>3 DEF ClientStep, ClientCrash, Submit, Cancel, Retry, ClientSaves, ClientTruncate,
                ClientWrite, workerVars, history
  <2>2. CASE ClientWrite(c) /\ ccopy[c].state = "queued"
    <3>1. cjob[c] \in Jobs
      BY <2>2 DEF ClientWrite, TypeInv
    <3>2. requests' = [requests EXCEPT ![cjob[c]] = @ + 1]
      BY <2>2 DEF ClientWrite
    <3>3. Ledger!Request(cjob[c])
      BY <1>2, <2>1, <3>2 DEF Ledger!Request
    <3> QED
      BY <3>1, <3>3 DEF Ledger!Next
  <2>3. CASE ~(ClientWrite(c) /\ ccopy[c].state = "queued")
    <3>1. requests' = requests
      BY <1>3, <2>3 DEF ClientStep, ClientCrash, Submit, Cancel, Retry, ClientSaves,
         ClientTruncate, ClientWrite, history, TypeInv, TypeOK
    <3> QED
      BY <1>0, <1>2, <2>1, <3>1
  <2> QED
    BY <2>2, <2>3
<1>4. ASSUME NEW k \in Jobs, Expire(k) PROVE [Ledger!Next]_Ledger!vars
  BY <1>0, <1>2, <1>4 DEF Expire, workerVars, history
<1>5. CASE Tick \/ UNCHANGED vars
  BY <1>0, <1>2, <1>5 DEF Tick, vars, workerVars, history
<1> QED
  BY <1>1, <1>3, <1>4, <1>5 DEF Next

\* Without expiring locks the queue, whatever its processes do and whenever
\* they are killed, implements the ledger: no execution without a request of
\* its own, no two executions of a job at once.
THEOREM QueueImplementsLedger ==
  ASSUME MaxReclaims = 0
  PROVE  Spec => LedgerSpec
<1>1. Init => NeverStale
  BY DEF Init, NeverStale
<1>2. Init => Ledger!Init
  BY DEF Init, Ledger!Init, Executing, Runners, RunningPCs
<1>3. Spec => []NeverStale
  BY <1>1, NeverStaleStep, TypeInvariant, PTL DEF Spec
<1> QED
  BY <1>2, <1>3, LedgerStep, TypeInvariant, OverlapBounded, LaunchInvariant, PTL
     DEF Spec, LedgerSpec, Ledger!Spec
=============================================================================

--------------------------- MODULE PgExportProofs ---------------------------
(***************************************************************************)
(* The whole PostgreSQL export, for every number of workers and batches    *)
(* and every queue depth: the properties of the copy hold with either of   *)
(* its strategies, and what becomes of the table is as the result says.    *)
(***************************************************************************)
EXTENDS PgExport, FiniteSetTheorems, TLAPS

----------------------------------------------------------------------------
(* The parallel COPY: types and the bound of the deque, no batch lost or   *)
(* loaded twice, and the unanimous commit.                                 *)

USE CopyQueueAssumption
USE DEF Loader, Thread, Exporter, Producer, Batch, Queued, Label,
        queueVars, loadVars, copyVars, voteVars, parallelVars,
        Goto, Sleep, Awake, NotifyAll

\* The deque's bound is a number.
LEMMA MaxDepthIsNat == MaxDepth \in Nat
  <1>1. Cardinality(Worker) \in Nat
    BY FS_CardinalityType
  <1> QED
    BY <1>1 DEF MaxDepth

----------------------------------------------------------------------------
(* Types.                                                                  *)

ExporterLabel == {"read", "push", "pushed", "finish", "vote", "decided", "join", "ended"}

WorkerLabel == {"connect", "take", "taken", "load", "flush", "flushed", "wait", "commit",
                "failed", "signal", "ended"}

\* CopyTypeOK with what it takes to be inductive: which labels each thread can be
\* at, that only workers load, and that a batch is left to push at "push".
TypeInv ==
    /\ CopyTypeOK
    /\ pc[Exporter] \in ExporterLabel /\ pc[Producer] = "ended"
    /\ \A w \in Worker : pc[w] \in WorkerLabel
    /\ held[Exporter] = 0 /\ sent[Exporter] = {} /\ committed \subseteq Worker
    /\ pc[Exporter] = "push" => pushed < Batches
    /\ \A w \in Worker : pc[w] \in {"taken", "load"} => held[w] \in Batch

LEMMA TypeInit == ParallelInit => TypeInv
  <1> SUFFICES ASSUME ParallelInit PROVE TypeInv
    OBVIOUS
  <1>1. /\ pc \in [Thread -> Label]
        /\ pc[Exporter] = "read" /\ pc[Producer] = "ended"
        /\ \A w \in Worker : pc[w] = "connect"
    BY DEF ParallelInit
  <1>2. held \in [Loader -> 0 .. Batches] /\ sent \in [Loader -> SUBSET Batch]
    BY DEF ParallelInit, IdleCopy
  <1>3. held[Exporter] = 0 /\ sent[Exporter] = {} /\ committed = {} /\ asleep = {}
    BY DEF ParallelInit, IdleCopy
  <1>4. /\ pushed = 0 /\ taken = 0 /\ outcome = "none"
        /\ done = FALSE /\ cancel = FALSE /\ error = FALSE
        /\ ready_workers = 0 /\ rows_loaded = 0
        /\ commit_decided = FALSE /\ commit_ok = FALSE
    BY DEF ParallelInit, IdleCopy, IdleVote
  <1>5. pushed \in 0 .. Batches /\ taken \in 0 .. pushed /\ Queued <= MaxDepth
    BY <1>4, MaxDepthIsNat
  <1>6. CopyTypeOK
    BY <1>1, <1>2, <1>3, <1>4, <1>5 DEF CopyTypeOK
  <1> QED
    BY <1>1, <1>3, <1>6 DEF TypeInv, ExporterLabel, WorkerLabel

LEMMA TypeStep == TypeInv /\ [ParallelNext]_parallelVars => TypeInv'
  <1> SUFFICES ASSUME TypeInv, [ParallelNext]_parallelVars PROVE TypeInv'
    OBVIOUS
  <1> USE MaxDepthIsNat DEF TypeInv, CopyTypeOK, ExporterLabel, WorkerLabel
  <1>1. CASE ReadBatch(Exporter) /\ UNCHANGED voteVars
    BY <1>1 DEF ReadBatch
  <1>2. CASE Push(Exporter, MaxDepth) /\ UNCHANGED voteVars
    BY <1>2 DEF Push
  <1>3. CASE PushCancelled(Exporter) /\ UNCHANGED voteVars
    BY <1>3 DEF PushCancelled
  <1>4. CASE WaitForRoom(Exporter, MaxDepth) /\ UNCHANGED voteVars
    BY <1>4 DEF WaitForRoom
  <1>5. CASE Pushed(Exporter) /\ UNCHANGED voteVars
    BY <1>5 DEF Pushed
  <1>6. CASE ReaderFails /\ UNCHANGED voteVars
    BY <1>6 DEF ReaderFails
  <1>7. CASE NoMoreBatches /\ UNCHANGED voteVars
    BY <1>7 DEF NoMoreBatches
  <1>8. CASE WaitForVotes /\ UNCHANGED voteVars
    BY <1>8 DEF WaitForVotes
  <1>9. CASE Announce /\ UNCHANGED voteVars
    BY <1>9 DEF Announce
  <1>10. CASE JoinWorkers /\ UNCHANGED voteVars
    BY <1>10 DEF JoinWorkers
  <1>11. CASE Decide
    BY <1>11 DEF Decide
  <1>12. ASSUME NEW w \in Worker, WorkerStep(w) PROVE TypeInv'
    <2>1. CASE Proceed(w, "connect", "take") /\ UNCHANGED voteVars
      BY <2>1 DEF Proceed
    <2>2. CASE WorkerTake(w) /\ UNCHANGED voteVars
      BY <2>2 DEF WorkerTake, Take
    <2>3. CASE StopTaking(w) /\ UNCHANGED voteVars
      BY <2>3 DEF StopTaking
    <2>4. CASE WaitForWork(w) /\ UNCHANGED voteVars
      BY <2>4 DEF WaitForWork
    <2>5. CASE Taken(w) /\ UNCHANGED voteVars
      BY <2>5 DEF Taken
    <2>6. CASE LoadBatch(w) /\ UNCHANGED voteVars
      BY <2>6 DEF LoadBatch
    <2>7. CASE Proceed(w, "flush", "flushed") /\ UNCHANGED voteVars
      BY <2>7 DEF Proceed
    <2>8. CASE WaitForDecision(w) /\ UNCHANGED voteVars
      BY <2>8 DEF WaitForDecision
    <2>9. CASE LearnDecision(w) /\ UNCHANGED voteVars
      BY <2>9 DEF LearnDecision
    <2>10. CASE WorkerCommit(w) /\ UNCHANGED voteVars
      BY <2>10 DEF WorkerCommit
    <2>11. CASE ServerThrows(w) /\ UNCHANGED voteVars
      BY <2>11 DEF ServerThrows
    <2>12. CASE WorkerCommitThrows(w) /\ UNCHANGED voteVars
      BY <2>12 DEF WorkerCommitThrows
    <2>13. CASE SetError(w) /\ UNCHANGED voteVars
      BY <2>13 DEF SetError
    <2>14. CASE SignalError(w) /\ UNCHANGED voteVars
      BY <2>14 DEF SignalError
    <2>15. CASE Vote(w)
      <3>1. Cardinality(sent[w]) \in Nat
        <4>1. sent[w] \subseteq 1 .. Batches /\ IsFiniteSet(1 .. Batches)
          BY FS_Interval
        <4> QED
          BY <4>1, FS_Subset, FS_CardinalityType
      <3> QED
        BY <2>15, <3>1 DEF Vote
    <2> QED
      BY <1>12, <2>1, <2>2, <2>3, <2>4, <2>5, <2>6, <2>7, <2>8, <2>9, <2>10, <2>11,
         <2>12, <2>13, <2>14, <2>15 DEF WorkerStep
  <1>13. CASE UNCHANGED parallelVars
    BY <1>13
  <1> QED
    BY <1>1, <1>2, <1>3, <1>4, <1>5, <1>6, <1>7, <1>8, <1>9, <1>10, <1>11, <1>12, <1>13
       DEF ParallelNext, ReaderStep

\* The types, and the bound of the deque: memory stays bounded however fast the
\* reader is (state.queue.size() < max_queue_depth).
THEOREM CopyTypeCorrect == ParallelSpec => []CopyTypeOK
  <1>1. TypeInv => CopyTypeOK
    BY DEF TypeInv
  <1> QED
    BY <1>1, TypeInit, TypeStep, PTL DEF ParallelSpec

----------------------------------------------------------------------------
(* Every batch in one place.                                               *)

\* Only a worker that has just taken a batch, or has failed, holds one.
PlaceInv ==
    /\ EachBatchInOnePlace
    /\ \A w \in Worker : held[w] # 0 => pc[w] \in {"taken", "load", "failed", "signal", "ended"}

\* What the exporter's thread does, as far as the workers can tell.
LEMMA ReaderLeavesPlaces ==
    ASSUME TypeInv, ReaderStep
    PROVE  /\ UNCHANGED <<held, sent, taken, committed, rows_loaded, ready_workers>>
           /\ \A w \in Worker : pc'[w] = pc[w]
  <1> USE DEF TypeInv, CopyTypeOK
  <1>1. CASE ReadBatch(Exporter) \/ Push(Exporter, MaxDepth) \/ PushCancelled(Exporter)
    BY <1>1 DEF ReaderStep, ReadBatch, Push, PushCancelled, Decide
  <1>2. CASE WaitForRoom(Exporter, MaxDepth) \/ Pushed(Exporter) \/ ReaderFails
    BY <1>2 DEF ReaderStep, WaitForRoom, Pushed, ReaderFails, Decide
  <1>3. CASE NoMoreBatches \/ WaitForVotes \/ Announce \/ JoinWorkers
    BY <1>3 DEF ReaderStep, NoMoreBatches, WaitForVotes, Announce, JoinWorkers, Decide
  <1>4. CASE Decide
    BY <1>4 DEF Decide
  <1> QED
    BY <1>1, <1>2, <1>3, <1>4 DEF ReaderStep

LEMMA PlaceInit == ParallelInit => PlaceInv
  BY DEF ParallelInit, IdleCopy, PlaceInv, EachBatchInOnePlace

LEMMA PlaceStep ==
    TypeInv /\ PlaceInv /\ [ParallelNext]_parallelVars => PlaceInv'
  <1> SUFFICES ASSUME TypeInv, PlaceInv, [ParallelNext]_parallelVars PROVE PlaceInv'
    OBVIOUS
  <1>1. CASE ReaderStep
    BY <1>1, ReaderLeavesPlaces DEF PlaceInv, EachBatchInOnePlace
  <1>2. ASSUME NEW w \in Worker, WorkerStep(w) PROVE PlaceInv'
    <2> USE DEF PlaceInv, EachBatchInOnePlace, TypeInv, CopyTypeOK
    <2>1. CASE WorkerTake(w)
      <3>1. /\ held[w] = 0 /\ taken' = taken + 1 /\ sent' = sent
            /\ held' = [held EXCEPT ![w] = taken + 1]
            /\ pc' = [pc EXCEPT ![w] = "taken"]
        BY <2>1 DEF WorkerTake, Take
      <3>2. \A l \in Loader : held[l] # taken + 1 /\ taken + 1 \notin sent[l]
        OBVIOUS
      <3>3. \A b \in 1 .. taken' : \E l \in Loader : held'[l] = b \/ b \in sent'[l]
        <4> SUFFICES ASSUME NEW b \in 1 .. taken'
                     PROVE  \E l \in Loader : held'[l] = b \/ b \in sent'[l]
          OBVIOUS
        <4>1. CASE b = taken + 1
          BY <4>1, <3>1
        <4>2. CASE b # taken + 1
          <5>1. b \in 1 .. taken
            BY <4>2, <3>1
          <5>2. PICK l \in Loader : held[l] = b \/ b \in sent[l]
            BY <5>1
          <5>3. l = w => b \in sent[l]
            BY <5>1, <5>2, <3>1
          <5> QED
            BY <5>2, <5>3, <3>1
        <4> QED
          BY <4>1, <4>2
      <3>4. \A l, m \in Loader :
              /\ sent'[l] \subseteq 1 .. taken' /\ held'[l] \in 0 .. taken'
              /\ held'[l] \notin sent'[m]
              /\ l # m /\ held'[l] = held'[m] => held'[l] = 0
              /\ l # m => sent'[l] \cap sent'[m] = {}
        BY <3>1, <3>2
      <3> QED
        BY <3>1, <3>3, <3>4
    <2>2. CASE LoadBatch(w)
      <3>1. /\ held[w] \in Batch /\ taken' = taken
            /\ sent' = [sent EXCEPT ![w] = sent[w] \cup {held[w]}]
            /\ held' = [held EXCEPT ![w] = 0]
            /\ pc' = [pc EXCEPT ![w] = "take"]
        BY <2>2 DEF LoadBatch
      <3>2. \A b \in 1 .. taken' : \E l \in Loader : held'[l] = b \/ b \in sent'[l]
        <4> SUFFICES ASSUME NEW b \in 1 .. taken'
                     PROVE  \E l \in Loader : held'[l] = b \/ b \in sent'[l]
          OBVIOUS
        <4>1. PICK l \in Loader : held[l] = b \/ b \in sent[l]
          BY <3>1
        <4> QED
          BY <4>1, <3>1
      <3>3. \A l \in Loader : 0 \notin sent[l]
        OBVIOUS
      <3>4. \A l, m \in Loader :
              /\ sent'[l] \subseteq 1 .. taken' /\ held'[l] \in 0 .. taken'
              /\ held'[l] \notin sent'[m]
              /\ l # m /\ held'[l] = held'[m] => held'[l] = 0
              /\ l # m => sent'[l] \cap sent'[m] = {}
        BY <3>1, <3>3
      <3> QED
        BY <3>1, <3>2, <3>4
    <2>3. CASE \/ Proceed(w, "connect", "take") \/ StopTaking(w) \/ WaitForWork(w)
               \/ Taken(w) \/ Proceed(w, "flush", "flushed")
      BY <2>3 DEF Proceed, StopTaking, WaitForWork, Taken
    <2>4. CASE WaitForDecision(w) \/ LearnDecision(w) \/ WorkerCommit(w) \/ Vote(w)
      BY <2>4 DEF WaitForDecision, LearnDecision, WorkerCommit, Vote
    <2>5. CASE \/ ServerThrows(w) \/ WorkerCommitThrows(w) \/ SetError(w)
               \/ SignalError(w)
      BY <2>5 DEF ServerThrows, WorkerCommitThrows, SetError, SignalError
    <2> QED
      BY <1>2, <2>1, <2>2, <2>3, <2>4, <2>5 DEF WorkerStep
  <1>3. CASE UNCHANGED parallelVars
    BY <1>3 DEF PlaceInv, EachBatchInOnePlace
  <1> QED
    BY <1>1, <1>2, <1>3 DEF ParallelNext

\* No batch that left the deque is lost or loaded twice, whichever workers race
\* for it and whichever of them fail.
THEOREM EachBatchCorrect == ParallelSpec => []EachBatchInOnePlace
  <1>1. PlaceInv => EachBatchInOnePlace
    BY DEF PlaceInv
  <1> QED
    BY <1>1, TypeInit, TypeStep, PlaceInit, PlaceStep, PTL DEF ParallelSpec

----------------------------------------------------------------------------
(* The vote.                                                               *)

Waiting == {w \in Worker : pc[w] = "wait"}

\* Where a worker can be once the decision is to commit.
LateLabel == {"wait", "commit", "failed", "signal", "ended"}

\* The error flag: who has set it, and what is known while it is down.
ErrorInv ==
    /\ cancel = error
    /\ done <=> pc[Exporter] \in {"vote", "decided", "join", "ended"}
    /\ ~error /\ (done \/ pc[Exporter] = "finish") => pushed = Batches
    /\ \A w \in Worker : pc[w] = "signal" => error
    /\ ~error => \A w \in Worker :
          pc[w] \in {"flush", "flushed", "wait"} => done /\ taken = pushed

\* Before the decision: nobody commits, and while nothing has failed the counts of
\* the workers that are ready and of their batches are those of the waiting ones.
OpenInv ==
    ~commit_decided =>
        /\ ~commit_ok /\ committed = {} /\ outcome = "none"
        /\ pc[Exporter] \notin {"decided", "join", "ended"}
        /\ \A w \in Worker : pc[w] # "commit"
        /\ ~error => \A w \in Worker : pc[w] # "ended"
        /\ ~error => /\ ready_workers = Cardinality(Waiting)
                     /\ rows_loaded = Cardinality(UNION {sent[w] : w \in Waiting})

\* After it: it was taken without an error exactly when commits are allowed, and
\* then everything had been sent.
DecidedInv ==
    commit_decided =>
        /\ pc[Exporter] \in {"decided", "join", "ended"}
        /\ ~commit_ok => /\ error /\ committed = {}
                         /\ \A w \in Worker : pc[w] # "commit"
        /\ commit_ok => /\ taken = Batches /\ rows_loaded = Batches
                        /\ \A w \in Worker : pc[w] \in LateLabel /\ held[w] = 0
                        /\ ~error => \A w \in Worker : pc[w] = "ended" => w \in committed
        /\ outcome # "none" => /\ pc[Exporter] = "ended"
                               /\ \A w \in Worker : pc[w] = "ended"
        /\ outcome = "ok" => ~error

VoteInv == ErrorInv /\ OpenInv /\ DecidedInv

LEMMA VoteInit == ParallelInit => VoteInv
  <1> SUFFICES ASSUME ParallelInit PROVE VoteInv
    OBVIOUS
  <1>1. /\ pc[Exporter] = "read" /\ \A w \in Worker : pc[w] = "connect"
        /\ committed = {} /\ outcome = "none"
        /\ done = FALSE /\ cancel = FALSE /\ error = FALSE
        /\ ready_workers = 0 /\ rows_loaded = 0
        /\ commit_decided = FALSE /\ commit_ok = FALSE
    BY DEF ParallelInit, IdleCopy, IdleVote
  <1>2. Waiting = {} /\ UNION {sent[w] : w \in Waiting} = {}
    BY <1>1 DEF Waiting
  <1>3. Cardinality(Waiting) = 0 /\ Cardinality(UNION {sent[w] : w \in Waiting}) = 0
    BY <1>2, FS_EmptySet
  <1> QED
    BY <1>1, <1>3 DEF VoteInv, ErrorInv, OpenInv, DecidedInv

\* The counts stay what they are while the same workers wait, with the same batches.
LEMMA SameWaiting ==
    ASSUME TypeInv, TypeInv', OpenInv, UNCHANGED <<ready_workers, rows_loaded>>,
           \A w \in Worker : (pc'[w] = "wait") <=> (pc[w] = "wait"),
           \A w \in Waiting : sent'[w] = sent[w],
           ~commit_decided, ~error
    PROVE  /\ ready_workers' = Cardinality(Waiting')
           /\ rows_loaded' = Cardinality(UNION {sent'[w] : w \in Waiting'})
  <1>1. Waiting' = Waiting
    BY DEF Waiting
  <1>2. {sent'[w] : w \in Waiting'} = {sent[w] : w \in Waiting}
    BY <1>1
  <1> QED
    BY <1>1, <1>2 DEF OpenInv

\* The exporter finds all votes in and no error: everything has been sent.
LEMMA AllSentWhenAllReady ==
    ASSUME TypeInv, PlaceInv, VoteInv, ~commit_decided, ~error, done,
           ready_workers = Cardinality(Worker)
    PROVE  /\ \A w \in Worker : pc[w] = "wait" /\ held[w] = 0
           /\ taken = Batches /\ rows_loaded = Batches
  <1>1. Waiting = Worker
    <2>1. Waiting \in SUBSET Worker /\ Cardinality(Worker) = Cardinality(Waiting)
      BY DEF VoteInv, OpenInv, Waiting
    <2> QED
      BY <2>1, FS_Subset
  <1>2. \A w \in Worker : pc[w] = "wait" /\ held[w] = 0
    BY <1>1 DEF Waiting, PlaceInv
  <1>3. PICK w \in Worker : pc[w] = "wait"
    BY <1>2
  <1>4. taken = Batches
    BY <1>3 DEF VoteInv, ErrorInv
  <1>5. UNION {sent[v] : v \in Waiting} = Batch
    <2>1. \A b \in Batch : \E v \in Worker : b \in sent[v]
      BY <1>2, <1>4 DEF PlaceInv, EachBatchInOnePlace, TypeInv, CopyTypeOK
    <2>2. \A v \in Worker : sent[v] \subseteq Batch
      BY DEF TypeInv, CopyTypeOK
    <2> QED
      BY <1>1, <2>1, <2>2
  <1>6. Cardinality(1 .. Batches) = Batches
    BY FS_Interval
  <1> QED
    BY <1>2, <1>4, <1>5, <1>6 DEF VoteInv, OpenInv

\* A worker joins the waiting ones.
LEMMA OneMoreWaits ==
    ASSUME TypeInv, PlaceInv, OpenInv, NEW w \in Worker, Vote(w), ~commit_decided, ~error
    PROVE  /\ ready_workers' = Cardinality(Waiting')
           /\ rows_loaded' = Cardinality(UNION {sent'[v] : v \in Waiting'})
  <1>1. Waiting' = Waiting \cup {w} /\ w \notin Waiting /\ sent' = sent
    BY DEF Vote, Waiting, TypeInv, CopyTypeOK
  <1>2. Waiting \in SUBSET Worker
    BY DEF Waiting
  <1>3. IsFiniteSet(Waiting)
    BY <1>2, FS_Subset
  <1>4. Cardinality(Waiting') = Cardinality(Waiting) + 1
    BY <1>1, <1>3, FS_AddElement
  <1> DEFINE before == UNION {sent[v] : v \in Waiting}
  <1>5. before \in SUBSET (1 .. Batches) /\ sent[w] \in SUBSET (1 .. Batches)
    BY <1>2 DEF TypeInv, CopyTypeOK
  <1>6. IsFiniteSet(before) /\ IsFiniteSet(sent[w])
    <2>1. IsFiniteSet(1 .. Batches)
      BY FS_Interval
    <2> HIDE DEF before
    <2> QED
      BY <1>5, <2>1, FS_Subset
  <1>7. before \cap sent[w] = {}
    BY <1>1, <1>2 DEF PlaceInv, EachBatchInOnePlace
  <1>8. UNION {sent'[v] : v \in Waiting'} = before \cup sent[w]
    BY <1>1
  <1>9. Cardinality(before \cup sent[w]) = Cardinality(before) + Cardinality(sent[w])
    <2> HIDE DEF before
    <2>1. Cardinality(before \cap sent[w]) = 0
      BY <1>7, FS_EmptySet
    <2>2. Cardinality(before) \in Nat /\ Cardinality(sent[w]) \in Nat
      BY <1>6, FS_CardinalityType
    <2>3. Cardinality(before \cup sent[w]) =
            Cardinality(before) + Cardinality(sent[w]) - Cardinality(before \cap sent[w])
      BY <1>6, FS_Union
    <2> QED
      BY <2>1, <2>2, <2>3
  <1> QED
    BY <1>4, <1>8, <1>9 DEF OpenInv, Vote

LEMMA ReaderKeepsVote ==
    ASSUME TypeInv, TypeInv', PlaceInv, VoteInv, ReaderStep
    PROVE  VoteInv'
  <1>1. /\ UNCHANGED <<held, sent, taken, committed, rows_loaded, ready_workers>>
        /\ \A w \in Worker : pc'[w] = pc[w]
    BY ReaderLeavesPlaces
  <1>2. CASE /\ UNCHANGED voteVars
             /\ \/ ReadBatch(Exporter) \/ Push(Exporter, MaxDepth) \/ PushCancelled(Exporter)
                \/ WaitForRoom(Exporter, MaxDepth) \/ Pushed(Exporter) \/ ReaderFails
                \/ NoMoreBatches \/ WaitForVotes
    <2>1. ErrorInv'
      <3> USE DEF VoteInv, ErrorInv, TypeInv, CopyTypeOK, ExporterLabel
      <3>1. CASE ReadBatch(Exporter) \/ PushCancelled(Exporter)
        BY <3>1, <1>1 DEF ReadBatch, PushCancelled
      <3>2. CASE Push(Exporter, MaxDepth) \/ WaitForRoom(Exporter, MaxDepth) \/ Pushed(Exporter)
        BY <3>2, <1>1 DEF Push, WaitForRoom, Pushed
      <3>3. CASE ReaderFails \/ NoMoreBatches \/ WaitForVotes
        BY <3>3, <1>1 DEF ReaderFails, NoMoreBatches, WaitForVotes
      <3> QED
        BY <1>2, <3>1, <3>2, <3>3
    <2>2. /\ pc[Exporter] \in {"read", "push", "pushed", "finish", "vote"}
          /\ pc'[Exporter] \in {"read", "push", "pushed", "finish", "vote"}
          /\ outcome' = outcome /\ (error => error')
      BY <1>2 DEF ReadBatch, Push, PushCancelled, WaitForRoom, Pushed, ReaderFails,
                  NoMoreBatches, WaitForVotes, TypeInv, CopyTypeOK
    <2>3. ~commit_decided
      BY <2>2 DEF VoteInv, DecidedInv
    <2>4. ~error => /\ ready_workers' = Cardinality(Waiting')
                   /\ rows_loaded' = Cardinality(UNION {sent'[w] : w \in Waiting'})
      BY <1>1, <2>3, SameWaiting DEF VoteInv
    <2>5. OpenInv' /\ DecidedInv'
      BY <1>1, <1>2, <2>2, <2>3, <2>4 DEF VoteInv, OpenInv, DecidedInv
    <2> QED
      BY <2>1, <2>5 DEF VoteInv
  <1>3. CASE (Announce \/ JoinWorkers) /\ UNCHANGED voteVars
    <2>1. /\ pc[Exporter] \in {"decided", "join"} /\ pc'[Exporter] \in {"join", "ended"}
          /\ UNCHANGED queueVars
      BY <1>3 DEF Announce, JoinWorkers, TypeInv, CopyTypeOK
    <2>2. commit_decided
      BY <2>1 DEF VoteInv, OpenInv
    <2>3. ErrorInv' /\ OpenInv'
      BY <1>1, <1>3, <2>1, <2>2 DEF VoteInv, ErrorInv, OpenInv
    <2>4. outcome' # "none" => /\ pc'[Exporter] = "ended"
                              /\ \A w \in Worker : pc'[w] = "ended"
      BY <1>1, <1>3, <2>1, <2>2 DEF VoteInv, DecidedInv, Announce, JoinWorkers, TypeInv, CopyTypeOK
    <2>5. outcome' = "ok" => ~error'
      BY <1>3, <2>2 DEF VoteInv, DecidedInv, Announce, JoinWorkers
    <2> QED
      BY <1>1, <1>3, <2>1, <2>2, <2>3, <2>4, <2>5 DEF VoteInv, DecidedInv
  <1>4. CASE Decide
    <2>1. /\ pc[Exporter] = "vote" /\ pc'[Exporter] = "decided" /\ UNCHANGED <<queueVars, outcome>>
          /\ commit_decided' = TRUE /\ commit_ok' = ~error
      BY <1>4 DEF Decide, TypeInv, CopyTypeOK
    <2>2. ~commit_decided /\ done
      BY <2>1 DEF VoteInv, DecidedInv, ErrorInv
    <2>3. ~error => /\ \A w \in Worker : pc[w] = "wait" /\ held[w] = 0
                   /\ taken = Batches /\ rows_loaded = Batches
      BY <1>4, <2>2, AllSentWhenAllReady DEF Decide, AllVoted
    <2>4. ErrorInv' /\ OpenInv'
      BY <1>1, <2>1, <2>2 DEF VoteInv, ErrorInv, OpenInv
    <2>5. DecidedInv'
      BY <1>1, <2>1, <2>2, <2>3 DEF VoteInv, OpenInv, DecidedInv, LateLabel
    <2> QED
      BY <2>4, <2>5 DEF VoteInv
  <1> QED
    BY <1>2, <1>3, <1>4 DEF ReaderStep

LEMMA WorkerKeepsVote ==
    ASSUME TypeInv, TypeInv', PlaceInv, VoteInv, NEW w \in Worker, WorkerStep(w)
    PROVE  VoteInv'
  <1> USE DEF VoteInv, TypeInv, CopyTypeOK, WorkerLabel
  <1>1. CASE UNCHANGED voteVars /\ (Proceed(w, "connect", "take") \/ WaitForWork(w) \/ Taken(w))
    <2>1. /\ pc' = [pc EXCEPT ![w] = pc'[w]] /\ pc'[Exporter] = pc[Exporter]
          /\ pc[w] \in {"connect", "take", "taken"} /\ pc'[w] \in {"take", "load"}
          /\ UNCHANGED <<queueVars, loadVars, outcome>>
      BY <1>1 DEF Proceed, WaitForWork, Taken
    <2>2. ErrorInv'
      BY <2>1 DEF ErrorInv
    <2>3. OpenInv'
      BY <1>1, <2>1, SameWaiting DEF OpenInv, Waiting
    <2>4. DecidedInv'
      BY <1>1, <2>1 DEF DecidedInv, LateLabel
    <2> QED
      BY <2>2, <2>3, <2>4
  <1>2. CASE UNCHANGED voteVars /\ (WorkerTake(w) \/ LoadBatch(w))
    <2>1. /\ pc' = [pc EXCEPT ![w] = pc'[w]] /\ pc'[Exporter] = pc[Exporter]
          /\ pc[w] \in {"take", "load"} /\ pc'[w] \in {"take", "taken"}
          /\ UNCHANGED <<pushed, done, cancel, error, committed, outcome>>
          /\ \A v \in Worker : v # w => sent'[v] = sent[v] /\ held'[v] = held[v]
          /\ taken' # taken => taken < pushed
      BY <1>2 DEF WorkerTake, Take, LoadBatch
    <2>2. ErrorInv'
      BY <2>1 DEF ErrorInv
    <2>3. OpenInv'
      BY <1>2, <2>1, SameWaiting DEF OpenInv, Waiting
    <2>4. ~commit_ok
      BY <2>1 DEF DecidedInv, OpenInv, LateLabel
    <2>5. DecidedInv'
      BY <1>2, <2>1, <2>4 DEF DecidedInv
    <2> QED
      BY <2>2, <2>3, <2>5
  <1>3. CASE UNCHANGED voteVars /\ (StopTaking(w) \/ Proceed(w, "flush", "flushed"))
    <2>1. /\ pc' = [pc EXCEPT ![w] = pc'[w]] /\ pc'[Exporter] = pc[Exporter]
          /\ pc[w] \in {"take", "flush"} /\ pc'[w] \in {"flush", "flushed"}
          /\ UNCHANGED <<queueVars, loadVars, outcome>>
          /\ pc[w] = "take" => cancel \/ (Queued = 0 /\ done)
      BY <1>3 DEF StopTaking, Proceed
    <2>2. ErrorInv'
      BY <2>1 DEF ErrorInv
    <2>3. OpenInv'
      BY <1>3, <2>1, SameWaiting DEF OpenInv, Waiting
    <2>4. DecidedInv'
      BY <1>3, <2>1 DEF DecidedInv, LateLabel
    <2> QED
      BY <2>2, <2>3, <2>4
  <1>4. CASE Vote(w)
    <2>1. /\ pc' = [pc EXCEPT ![w] = "wait"] /\ pc[w] = "flushed" /\ pc'[Exporter] = pc[Exporter]
          /\ UNCHANGED <<queueVars, loadVars, outcome, commit_decided, commit_ok>>
      BY <1>4 DEF Vote
    <2>2. ErrorInv'
      BY <2>1 DEF ErrorInv
    <2>3. OpenInv'
      BY <1>4, <2>1, OneMoreWaits DEF OpenInv
    <2>4. commit_decided => ~commit_ok
      BY <2>1 DEF DecidedInv, LateLabel
    <2>5. DecidedInv'
      BY <2>1, <2>4 DEF DecidedInv
    <2> QED
      BY <2>2, <2>3, <2>5
  <1>5. CASE UNCHANGED voteVars /\ WaitForDecision(w)
    <2>1. UNCHANGED <<pc, queueVars, loadVars, outcome>>
      BY <1>5 DEF WaitForDecision
    <2>2. OpenInv'
      BY <1>5, <2>1, SameWaiting DEF OpenInv, Waiting
    <2> QED
      BY <1>5, <2>1, <2>2 DEF ErrorInv, DecidedInv
  <1>6. CASE UNCHANGED voteVars /\ (LearnDecision(w) \/ WorkerCommit(w) \/ WorkerCommitThrows(w))
    <2>1. /\ pc' = [pc EXCEPT ![w] = pc'[w]] /\ pc'[Exporter] = pc[Exporter]
          /\ pc[w] \in {"wait", "commit"} /\ pc'[w] \in {"commit", "failed", "ended"}
          /\ pc'[w] = "commit" => commit_ok
          /\ committed' \in {committed, committed \cup {w}}
          /\ committed' # committed => pc[w] = "commit"
          /\ pc[w] = "wait" /\ pc'[w] = "ended" => ~commit_ok
          /\ pc[w] = "commit" /\ pc'[w] = "ended" => w \in committed'
          /\ UNCHANGED <<queueVars, held, sent, outcome>>
      BY <1>6 DEF LearnDecision, WorkerCommit, WorkerCommitThrows
    <2>2. commit_decided
      BY <1>6, <2>1 DEF OpenInv, LearnDecision, WorkerCommit, WorkerCommitThrows
    <2>3. ErrorInv'
      BY <2>1 DEF ErrorInv
    <2>4. OpenInv' /\ DecidedInv'
      BY <1>6, <2>1, <2>2 DEF OpenInv, DecidedInv, LateLabel
    <2> QED
      BY <2>3, <2>4
  <1>7. CASE UNCHANGED voteVars /\ ServerThrows(w)
    <2>1. /\ pc' = [pc EXCEPT ![w] = "failed"] /\ pc'[Exporter] = pc[Exporter]
          /\ pc[w] \in {"connect", "load", "flush"}
          /\ UNCHANGED <<queueVars, loadVars, outcome>>
      BY <1>7 DEF ServerThrows
    <2>2. ErrorInv'
      BY <2>1 DEF ErrorInv
    <2>3. OpenInv'
      BY <1>7, <2>1, SameWaiting DEF OpenInv, Waiting
    <2>4. DecidedInv'
      BY <1>7, <2>1 DEF DecidedInv, LateLabel
    <2> QED
      BY <2>2, <2>3, <2>4
  <1>8. CASE UNCHANGED voteVars /\ (SetError(w) \/ SignalError(w))
    <2>1. /\ pc' = [pc EXCEPT ![w] = pc'[w]] /\ pc'[Exporter] = pc[Exporter]
          /\ pc[w] \in {"failed", "signal"} /\ pc'[w] \in {"signal", "ended"}
          /\ UNCHANGED <<pushed, taken, done, loadVars, outcome>>
          /\ error' /\ cancel'
      BY <1>8 DEF SetError, SignalError, ErrorInv
    <2>2. ErrorInv' /\ OpenInv'
      BY <1>8, <2>1 DEF ErrorInv, OpenInv
    <2>3. outcome = "none"
      BY <2>1 DEF OpenInv, DecidedInv
    <2>4. DecidedInv'
      BY <1>8, <2>1, <2>3 DEF DecidedInv, LateLabel
    <2> QED
      BY <2>2, <2>4
  <1> QED
    BY <1>1, <1>2, <1>3, <1>4, <1>5, <1>6, <1>7, <1>8 DEF WorkerStep

LEMMA VoteStep ==
    TypeInv /\ PlaceInv /\ VoteInv /\ [ParallelNext]_parallelVars => VoteInv'
  <1> SUFFICES ASSUME TypeInv, PlaceInv, VoteInv, [ParallelNext]_parallelVars PROVE VoteInv'
    OBVIOUS
  <1>1. TypeInv'
    BY TypeStep
  <1>2. CASE UNCHANGED parallelVars
    BY <1>2 DEF VoteInv, ErrorInv, OpenInv, DecidedInv, Waiting
  <1> QED
    BY <1>1, <1>2, ReaderKeepsVote, WorkerKeepsVote DEF ParallelNext

\* Once commits are allowed, everything has been sent.
LEMMA CommitAllowedMeansAllSent ==
    ASSUME TypeInv, PlaceInv, VoteInv, commit_ok
    PROVE  AllSent /\ \A w \in Worker : held[w] = 0 /\ pc[w] \in LateLabel
  <1>1. taken = Batches /\ \A w \in Worker : held[w] = 0 /\ pc[w] \in LateLabel
    BY DEF VoteInv, OpenInv, DecidedInv
  <1>2. \A b \in Batch : \E l \in Loader : b \in sent[l]
    BY <1>1 DEF PlaceInv, EachBatchInOnePlace, TypeInv, CopyTypeOK
  <1>3. \A l \in Loader : sent[l] \subseteq Batch
    BY DEF TypeInv, CopyTypeOK
  <1> QED
    BY <1>1, <1>2, <1>3 DEF AllSent

LEMMA UnanimousCommit == TypeInv /\ PlaceInv /\ VoteInv => CommitIsUnanimous
  <1> SUFFICES ASSUME TypeInv, PlaceInv, VoteInv, committed \cap Worker # {}
               PROVE  CommitIsUnanimous
    BY DEF CommitIsUnanimous
  <1>1. commit_ok
    BY DEF VoteInv, OpenInv, DecidedInv, TypeInv, CopyTypeOK
  <1> QED
    BY <1>1, CommitAllowedMeansAllSent DEF CommitIsUnanimous, LateLabel

\* Two-phase commit in one process: no row of any worker is committed unless all
\* workers have sent all rows, so whatever fails before that leaves no row behind.
THEOREM CommitIsUnanimousCorrect == ParallelSpec => []CommitIsUnanimous
  BY UnanimousCommit, TypeInit, TypeStep, PlaceInit, PlaceStep, VoteInit, VoteStep, PTL
     DEF ParallelSpec

LEMMA TrueOutcome == TypeInv /\ PlaceInv /\ VoteInv => OutcomeIsTrue
  <1> SUFFICES ASSUME TypeInv, PlaceInv, VoteInv PROVE OutcomeIsTrue
    OBVIOUS
  <1>1. commit_ok => AllSent
    BY CommitAllowedMeansAllSent
  <1>2. committed # {} => commit_ok
    BY DEF VoteInv, OpenInv, DecidedInv
  <1>3. outcome = "ok" => /\ commit_ok /\ rows_loaded = Batches
                         /\ \A w \in Worker : w \in committed
    BY DEF VoteInv, OpenInv, DecidedInv
  <1>4. sent[Exporter] = {}
    BY DEF TypeInv
  <1> QED
    BY <1>1, <1>2, <1>3, <1>4 DEF OutcomeIsTrue

\* What the caller is told is true: a copy that returns has committed every row and
\* counted it once, one that raises an error has committed none, or all was sent
\* and a commit failed.
THEOREM OutcomeIsTrueCorrect == ParallelSpec => []OutcomeIsTrue
  BY TrueOutcome, TypeInit, TypeStep, PlaceInit, PlaceStep, VoteInit, VoteStep, PTL
     DEF ParallelSpec

----------------------------------------------------------------------------
(* CopyRowsWithPipeline: what holds between its two threads.               *)

ProducerLabel == {"read", "push", "pushed", "finish", "signal", "ended"}

LoaderLabel == {"take", "taken", "load", "signal", "abort", "join", "flush", "commit", "ended"}

\* Types, and nothing happens at a worker.
PipelineTypes ==
    /\ CopyTypeOK /\ IdleVote
    /\ pc[Producer] \in ProducerLabel /\ pc[Exporter] \in LoaderLabel
    /\ \A w \in Worker : pc[w] = "ended" /\ held[w] = 0 /\ sent[w] = {}
    /\ committed \subseteq {Exporter}
    /\ Queued <= Depth /\ (pc[Producer] = "push" => pushed < Batches)

\* The transaction holds the batches that were taken, but for the one in hand.
InOrder ==
    /\ held[Exporter] \in {0, taken} /\ sent[Exporter] = 1 .. taken \ {held[Exporter]}
    /\ pc[Exporter] \in {"taken", "load"} => held[Exporter] = taken /\ taken # 0
    /\ pc[Exporter] \in {"take", "join", "flush", "commit"} => held[Exporter] = 0

\* The reader ends because of an error, a cancellation or the end of the file.
ReaderInv ==
    /\ done => pc[Producer] \in {"signal", "ended"}
    /\ pc[Producer] \in {"finish", "signal", "ended"} => error \/ cancel \/ pushed = Batches
    /\ cancel => pc[Exporter] \in {"signal", "abort", "ended"} /\ outcome # "ok"

\* The loader comes to the flush only when all batches are in its transaction.
LoaderInv ==
    /\ pc[Exporter] = "join" => done /\ Queued = 0
    /\ pc[Exporter] \in {"flush", "commit"} => ~error /\ pc[Producer] = "ended" /\ taken = Batches
    /\ outcome # "none" <=> pc[Exporter] = "ended"
    /\ committed # {} => outcome # "none" /\ held[Exporter] = 0 /\ taken = Batches
    /\ outcome = "ok" => Exporter \in committed

PipelineInv == PipelineTypes /\ InOrder /\ ReaderInv /\ LoaderInv

----------------------------------------------------------------------------
(* ExportCsvToPostgres: what the table is at each of its steps.            *)

Before == {"connect", "check", "infer", "create"}

ExportTypes ==
    /\ mode \in {"error", "drop", "append"} /\ plan \in {"create", "replace", "append"}
    /\ step \in Before \cup {"copy", "cleanup", "returned"}
    /\ parallel \in BOOLEAN /\ dirty \in BOOLEAN
    /\ table \in {"none", "theirs", "ours"} /\ result \in {"none", "ok", "failed"}
    /\ step # "returned" => result = "none"

\* Rows are appended to a table that is there, and stays there.
AppendInv == plan = "append" => table = "theirs" /\ step \in {"copy", "returned"}

\* Nothing has been done to the table before it is created, and the copy starts fresh.
BeforeInv ==
    step \in Before =>
        /\ table # "ours" /\ committed = {} /\ outcome = "none"

\* With workers, the table is ours before the first row is loaded, and stays after a
\* failure only when the clean-up has failed.
WithWorkers ==
    parallel =>
        /\ step = "copy" /\ plan # "append" => table = "ours"
        /\ result = "ok" => outcome = "ok" /\ table # "none"
        /\ result = "failed" /\ table = "ours" => dirty

\* Without, the table and its rows appear together.
WithoutWorkers ==
    ~parallel =>
        /\ step # "cleanup"
        /\ table = "ours" => committed # {}
        /\ committed # {} => table # "none"
        /\ result = "ok" => outcome = "ok"

ExportInv ==
    /\ ExportTypes /\ AppendInv /\ BeforeInv /\ WithWorkers /\ WithoutWorkers
    /\ IF parallel THEN TypeInv /\ PlaceInv /\ VoteInv ELSE PipelineInv

----------------------------------------------------------------------------
(* What the strategies share, and the copy with one loader.                *)

\* One queue of either strategy fits the bound of the other.
LEMMA DepthFits == Depth <= MaxDepth /\ MaxDepth \in Nat
  <1> DEFINE c == Cardinality(Worker)
  <1>1. c \in Nat /\ c # 0
    BY FS_CardinalityType, FS_EmptySet
  <1> HIDE DEF c
  <1>2. c >= 1
    BY <1>1
  <1>3. Depth * c >= Depth
    BY <1>1, <1>2
  <1> QED
    BY <1>3, MaxDepthIsNat DEF MaxDepth, c

\* PipelineInit: both threads start with an empty queue and an empty transaction.
LEMMA PipelineStarts ==
    ASSUME PipelineInit, IdleVote
    PROVE  PipelineInv
  <1>1. PipelineTypes
    <2>1. /\ pc \in [Thread -> Label] /\ \A w \in Worker : pc[w] = "ended"
          /\ pc[Producer] = "read" /\ pc[Exporter] = "take"
      BY DEF PipelineInit
    <2>2. /\ held \in [Loader -> 0 .. Batches] /\ sent \in [Loader -> SUBSET Batch]
          /\ \A w \in Worker : held[w] = 0 /\ sent[w] = {}
      BY DEF PipelineInit, IdleCopy
    <2>3. /\ pushed = 0 /\ taken = 0 /\ outcome = "none" /\ asleep = {} /\ committed = {}
          /\ done = FALSE /\ cancel = FALSE /\ error = FALSE
      BY DEF PipelineInit, IdleCopy
    <2>4. taken \in 0 .. pushed /\ pushed \in 0 .. Batches /\ Queued <= Depth /\ Queued <= MaxDepth
      BY <2>3, DepthFits
    <2>5. ready_workers = 0 /\ rows_loaded = 0 /\ commit_decided = FALSE /\ commit_ok = FALSE
      BY DEF IdleVote
    <2>6. CopyTypeOK
      BY <2>1, <2>2, <2>3, <2>4, <2>5 DEF CopyTypeOK
    <2> QED
      BY <2>1, <2>2, <2>3, <2>4, <2>6 DEF PipelineTypes, ProducerLabel, LoaderLabel
  <1>2. InOrder /\ ReaderInv /\ LoaderInv
    BY DEF PipelineInit, IdleCopy, InOrder, ReaderInv, LoaderInv
  <1> QED
    BY <1>1, <1>2 DEF PipelineInv

\* Types and labels, action by action of the two threads.
LEMMA KeepsPipelineTypes ==
    ASSUME PipelineInv, ProducerStep \/ LoaderStep, UNCHANGED voteVars
    PROVE  PipelineTypes'
  <1> USE DepthFits DEF PipelineInv, PipelineTypes, CopyTypeOK, ProducerLabel, LoaderLabel,
              InOrder, IdleVote
  <1>1. CASE ReadBatch(Producer)
    BY <1>1 DEF ReadBatch
  <1>2. CASE Push(Producer, Depth)
    BY <1>2 DEF Push
  <1>3. CASE PushCancelled(Producer)
    BY <1>3 DEF PushCancelled
  <1>4. CASE WaitForRoom(Producer, Depth)
    BY <1>4 DEF WaitForRoom
  <1>5. CASE Pushed(Producer)
    BY <1>5 DEF Pushed
  <1>6. CASE ReadThrows
    BY <1>6 DEF ReadThrows
  <1>7. CASE Finish
    BY <1>7 DEF Finish
  <1>8. CASE Signal(Producer, "ended")
    BY <1>8 DEF Signal
  <1>9. CASE PipelineTake
    BY <1>9 DEF PipelineTake, Take
  <1>10. CASE Drained
    BY <1>10 DEF Drained
  <1>11. CASE WaitForBatch
    BY <1>11 DEF WaitForBatch
  <1>12. CASE Taken(Exporter)
    BY <1>12 DEF Taken
  <1>13. CASE LoadBatch(Exporter)
    BY <1>13 DEF LoadBatch
  <1>14. CASE LoadThrows
    BY <1>14 DEF LoadThrows
  <1>15. CASE Signal(Exporter, "abort")
    BY <1>15 DEF Signal
  <1>16. CASE Join
    <2>1. CASE Returns("failed") /\ UNCHANGED committed
      BY <1>16, <2>1 DEF Join, Returns
    <2>2. CASE Proceed(Exporter, "join", "flush")
      BY <1>16, <2>2 DEF Join, Proceed
    <2> QED
      BY <1>16, <2>1, <2>2 DEF Join
  <1>17. CASE Proceed(Exporter, "flush", "commit")
    BY <1>17 DEF Proceed
  <1>18. CASE FlushThrows
    BY <1>18 DEF FlushThrows, Returns
  <1>19. CASE Commit
    BY <1>19 DEF Commit, Returns
  <1>20. CASE CommitThrows
    BY <1>20 DEF CommitThrows, Returns
  <1> QED
    BY <1>1, <1>2, <1>3, <1>4, <1>5, <1>6, <1>7, <1>8, <1>9, <1>10, <1>11, <1>12, <1>13, <1>14,
      <1>15, <1>16, <1>17, <1>18, <1>19, <1>20 DEF ProducerStep, LoaderStep

\* What is taken is sent or in hand.
LEMMA KeepsInOrder ==
    ASSUME PipelineInv, ProducerStep \/ LoaderStep, UNCHANGED voteVars
    PROVE  InOrder'
  <1> USE DepthFits DEF PipelineInv, PipelineTypes, CopyTypeOK, InOrder
  <1>1. CASE ReadBatch(Producer)
    BY <1>1 DEF ReadBatch
  <1>2. CASE Push(Producer, Depth)
    BY <1>2 DEF Push
  <1>3. CASE PushCancelled(Producer)
    BY <1>3 DEF PushCancelled
  <1>4. CASE WaitForRoom(Producer, Depth)
    BY <1>4 DEF WaitForRoom
  <1>5. CASE Pushed(Producer)
    BY <1>5 DEF Pushed
  <1>6. CASE ReadThrows
    BY <1>6 DEF ReadThrows
  <1>7. CASE Finish
    BY <1>7 DEF Finish
  <1>8. CASE Signal(Producer, "ended")
    BY <1>8 DEF Signal
  <1>9. CASE PipelineTake
    BY <1>9 DEF PipelineTake, Take
  <1>10. CASE Drained
    BY <1>10 DEF Drained
  <1>11. CASE WaitForBatch
    BY <1>11 DEF WaitForBatch
  <1>12. CASE Taken(Exporter)
    BY <1>12 DEF Taken
  <1>13. CASE LoadBatch(Exporter)
    BY <1>13 DEF LoadBatch
  <1>14. CASE LoadThrows
    BY <1>14 DEF LoadThrows
  <1>15. CASE Signal(Exporter, "abort")
    BY <1>15 DEF Signal
  <1>16. CASE Join
    BY <1>16 DEF Join, Returns, Proceed
  <1>17. CASE Proceed(Exporter, "flush", "commit")
    BY <1>17 DEF Proceed
  <1>18. CASE FlushThrows
    BY <1>18 DEF FlushThrows, Returns
  <1>19. CASE Commit
    BY <1>19 DEF Commit, Returns
  <1>20. CASE CommitThrows
    BY <1>20 DEF CommitThrows, Returns
  <1> QED
    BY <1>1, <1>2, <1>3, <1>4, <1>5, <1>6, <1>7, <1>8, <1>9, <1>10, <1>11, <1>12, <1>13, <1>14,
      <1>15, <1>16, <1>17, <1>18, <1>19, <1>20 DEF ProducerStep, LoaderStep

\* The reader's end, and the cancellation it may follow.
LEMMA KeepsReaderInv ==
    ASSUME PipelineInv, ProducerStep \/ LoaderStep, UNCHANGED voteVars
    PROVE  ReaderInv'
  <1> USE DepthFits DEF PipelineInv, PipelineTypes, CopyTypeOK, ReaderInv, LoaderInv
  <1>1. CASE ReadBatch(Producer)
    BY <1>1 DEF ReadBatch
  <1>2. CASE Push(Producer, Depth)
    BY <1>2 DEF Push
  <1>3. CASE PushCancelled(Producer)
    BY <1>3 DEF PushCancelled
  <1>4. CASE WaitForRoom(Producer, Depth)
    BY <1>4 DEF WaitForRoom
  <1>5. CASE Pushed(Producer)
    BY <1>5 DEF Pushed
  <1>6. CASE ReadThrows
    BY <1>6 DEF ReadThrows
  <1>7. CASE Finish
    BY <1>7 DEF Finish
  <1>8. CASE Signal(Producer, "ended")
    BY <1>8 DEF Signal
  <1>9. CASE PipelineTake
    BY <1>9 DEF PipelineTake, Take
  <1>10. CASE Drained
    BY <1>10 DEF Drained
  <1>11. CASE WaitForBatch
    BY <1>11 DEF WaitForBatch
  <1>12. CASE Taken(Exporter)
    BY <1>12 DEF Taken
  <1>13. CASE LoadBatch(Exporter)
    BY <1>13 DEF LoadBatch
  <1>14. CASE LoadThrows
    BY <1>14 DEF LoadThrows
  <1>15. CASE Signal(Exporter, "abort")
    BY <1>15 DEF Signal
  <1>16. CASE Join
    BY <1>16 DEF Join, Returns, Proceed
  <1>17. CASE Proceed(Exporter, "flush", "commit")
    BY <1>17 DEF Proceed
  <1>18. CASE FlushThrows
    BY <1>18 DEF FlushThrows, Returns
  <1>19. CASE Commit
    BY <1>19 DEF Commit, Returns
  <1>20. CASE CommitThrows
    BY <1>20 DEF CommitThrows, Returns
  <1> QED
    BY <1>1, <1>2, <1>3, <1>4, <1>5, <1>6, <1>7, <1>8, <1>9, <1>10, <1>11, <1>12, <1>13, <1>14,
      <1>15, <1>16, <1>17, <1>18, <1>19, <1>20 DEF ProducerStep, LoaderStep

\* The flush and the commit come after the last batch.
LEMMA KeepsLoaderInv ==
    ASSUME PipelineInv, ProducerStep \/ LoaderStep, UNCHANGED voteVars
    PROVE  LoaderInv'
  <1> USE DepthFits DEF PipelineInv, PipelineTypes, CopyTypeOK, LoaderLabel, InOrder,
              ReaderInv, LoaderInv, IdleVote
  <1>1. CASE ReadBatch(Producer)
    BY <1>1 DEF ReadBatch
  <1>2. CASE Push(Producer, Depth)
    BY <1>2 DEF Push
  <1>3. CASE PushCancelled(Producer)
    BY <1>3 DEF PushCancelled
  <1>4. CASE WaitForRoom(Producer, Depth)
    BY <1>4 DEF WaitForRoom
  <1>5. CASE Pushed(Producer)
    BY <1>5 DEF Pushed
  <1>6. CASE ReadThrows
    BY <1>6 DEF ReadThrows
  <1>7. CASE Finish
    BY <1>7 DEF Finish
  <1>8. CASE Signal(Producer, "ended")
    BY <1>8 DEF Signal
  <1>9. CASE PipelineTake
    BY <1>9 DEF PipelineTake, Take
  <1>10. CASE Drained
    BY <1>10 DEF Drained
  <1>11. CASE WaitForBatch
    BY <1>11 DEF WaitForBatch
  <1>12. CASE Taken(Exporter)
    BY <1>12 DEF Taken
  <1>13. CASE LoadBatch(Exporter)
    BY <1>13 DEF LoadBatch
  <1>14. CASE LoadThrows
    BY <1>14 DEF LoadThrows
  <1>15. CASE Signal(Exporter, "abort")
    BY <1>15 DEF Signal
  <1>16. CASE Join
    BY <1>16 DEF Join, Returns, Proceed
  <1>17. CASE Proceed(Exporter, "flush", "commit")
    BY <1>17 DEF Proceed
  <1>18. CASE FlushThrows
    BY <1>18 DEF FlushThrows, Returns
  <1>19. CASE Commit
    BY <1>19 DEF Commit, Returns
  <1>20. CASE CommitThrows
    BY <1>20 DEF CommitThrows, Returns
  <1> QED
    BY <1>1, <1>2, <1>3, <1>4, <1>5, <1>6, <1>7, <1>8, <1>9, <1>10, <1>11, <1>12, <1>13, <1>14,
      <1>15, <1>16, <1>17, <1>18, <1>19, <1>20 DEF ProducerStep, LoaderStep

\* Both threads keep the pipeline's invariant.
LEMMA PipelineStep ==
    ASSUME PipelineInv, ProducerStep \/ LoaderStep, UNCHANGED voteVars
    PROVE  PipelineInv'
  BY KeepsPipelineTypes, KeepsInOrder, KeepsReaderInv, KeepsLoaderInv DEF PipelineInv

\* The properties of the copy, with the pipeline.
LEMMA PipelineProperties ==
    ASSUME PipelineInv
    PROVE  CopyTypeOK /\ EachBatchInOnePlace /\ CommitIsUnanimous /\ OutcomeIsTrue
  <1>1. EachBatchInOnePlace
    BY DEF EachBatchInOnePlace, PipelineInv, PipelineTypes, InOrder, CopyTypeOK
  <1>2. committed \subseteq {Exporter} /\ Exporter \notin Worker
    BY DEF PipelineInv, PipelineTypes
  <1>3. committed \cap Worker = {}
    BY <1>2
  <1>4. taken = Batches /\ held[Exporter] = 0 => AllSent
    <2> SUFFICES ASSUME taken = Batches, held[Exporter] = 0 PROVE AllSent
      OBVIOUS
    <2>1. sent[Exporter] = 1 .. Batches
      BY DEF PipelineInv, InOrder
    <2>2. \A w \in Worker : sent[w] = {}
      BY DEF PipelineInv, PipelineTypes
    <2> QED
      BY <2>1, <2>2 DEF AllSent
  <1>5. \A w \in Worker : sent[w] = {}
    BY DEF PipelineInv, PipelineTypes
  <1>6. /\ committed # {} => taken = Batches /\ held[Exporter] = 0
        /\ outcome = "ok" => Exporter \in committed
    BY DEF PipelineInv, LoaderInv
  <1>7. CopyTypeOK
    BY DEF PipelineInv, PipelineTypes
  <1> QED
    BY <1>1, <1>3, <1>4, <1>5, <1>6, <1>7 DEF CommitIsUnanimous, OutcomeIsTrue

\* The same with workers, as ParallelSpec has them.
LEMMA ParallelProperties ==
    ASSUME TypeInv, PlaceInv, VoteInv
    PROVE  CopyTypeOK /\ EachBatchInOnePlace /\ CommitIsUnanimous /\ OutcomeIsTrue
  BY UnanimousCommit, TrueOutcome DEF TypeInv, PlaceInv

----------------------------------------------------------------------------
(* The export: its own steps, and those of the copy's threads.             *)

LEMMA ExportInit == Init => ExportInv
  <1> SUFFICES ASSUME Init PROVE ExportInv
    OBVIOUS
  <1>1. IdleCopy
    BY DEF Init, ParallelInit, PipelineInit
  <1>2. ExportTypes /\ AppendInv /\ BeforeInv /\ WithWorkers /\ WithoutWorkers
    BY <1>1 DEF Init, IdleCopy, ExportTypes, AppendInv, BeforeInv, WithWorkers, WithoutWorkers,
      Before
  <1>3. parallel => TypeInv /\ PlaceInv /\ VoteInv
    BY TypeInit, PlaceInit, VoteInit DEF Init
  <1>4. ~parallel => PipelineInv
    BY PipelineStarts DEF Init
  <1> QED
    BY <1>2, <1>3, <1>4 DEF ExportInv

\* A step of the export that leaves the copy alone.
LEMMA CopyUntouched ==
    ASSUME ExportInv, UNCHANGED <<parallelVars, parallel>>
    PROVE  IF parallel' THEN (TypeInv /\ PlaceInv /\ VoteInv)' ELSE PipelineInv'
  <1>1. CASE parallel
    <2>1. TypeInv' /\ PlaceInv' /\ VoteInv'
      BY <1>1, TypeStep, PlaceStep, VoteStep DEF ExportInv
    <2> QED
      BY <1>1, <2>1
  <1>2. CASE ~parallel
    <2>1. PipelineInv'
      BY <1>2 DEF ExportInv, PipelineInv, PipelineTypes, InOrder, ReaderInv, LoaderInv,
        CopyTypeOK, IdleVote
    <2> QED
      BY <1>2, <2>1
  <1> QED
    BY <1>1, <1>2

\* A step of one of the copy's threads.
LEMMA CopyMoves ==
    ASSUME ExportInv,
           \/ parallel /\ Copying(ReaderStep)
           \/ ~parallel /\ Copying(LoaderStep /\ UNCHANGED voteVars)
           \/ ~parallel /\ Copying(ProducerStep /\ UNCHANGED voteVars)
           \/ \E w \in Worker : parallel /\ Copying(WorkerStep(w))
    PROVE  ExportInv'
  <1>1. UNCHANGED <<mode, parallel, step, plan, result, dirty>> /\ step = "copy"
    BY DEF Copying
  <1>2. parallel => TypeInv' /\ PlaceInv' /\ VoteInv'
    BY TypeStep, PlaceStep, VoteStep DEF ExportInv, Copying, ParallelNext
  <1>3. ~parallel => PipelineInv'
    BY PipelineStep DEF ExportInv, Copying
  <1>4. table' = IF plan # "append" /\ Exporter \in committed' THEN "ours" ELSE table
    BY DEF Copying
  <1>5. parallel => committed' \subseteq Worker
    BY <1>2 DEF TypeInv
  <1>6. ~parallel => committed' \subseteq {Exporter} /\ committed \subseteq {Exporter}
    BY <1>3 DEF ExportInv, PipelineInv, PipelineTypes
  <1>7. ~parallel => committed \subseteq committed'
    BY DEF ProducerStep, LoaderStep, ReadBatch, Push, PushCancelled, WaitForRoom, Pushed,
      ReadThrows, Finish, Signal, PipelineTake, Take, Drained, WaitForBatch, Taken, LoadBatch,
      LoadThrows, Join, Returns, Proceed, FlushThrows, Commit, CommitThrows, Copying
  <1>8. ExportTypes' /\ AppendInv' /\ BeforeInv'
    BY <1>1, <1>4 DEF ExportInv, ExportTypes, AppendInv, BeforeInv, Before
  <1>9. WithWorkers' /\ WithoutWorkers'
    BY <1>1, <1>4, <1>5, <1>6, <1>7 DEF ExportInv, ExportTypes, AppendInv, WithWorkers,
      WithoutWorkers
  <1> QED
    BY <1>1, <1>2, <1>3, <1>8, <1>9 DEF ExportInv

LEMMA ExportStep == ExportInv /\ [Next]_vars => ExportInv'
  <1> SUFFICES ASSUME ExportInv, [Next]_vars PROVE ExportInv'
    OBVIOUS
  <1> DEFINE TableIs == (ExportTypes /\ AppendInv /\ BeforeInv /\ WithWorkers /\ WithoutWorkers)'
  <1>1. CASE \/ parallel /\ Copying(ReaderStep)
             \/ ~parallel /\ Copying(LoaderStep /\ UNCHANGED voteVars)
             \/ ProducerThread
             \/ \E w \in Worker : WorkerThread(w)
    BY <1>1, CopyMoves DEF ProducerThread, WorkerThread
  <1>2. ASSUME UNCHANGED <<parallelVars, parallel>>, TableIs
        PROVE  ExportInv'
    BY <1>2, CopyUntouched DEF ExportInv
  <1> USE DEF ExportInv, ExportTypes, AppendInv, BeforeInv, WithWorkers, WithoutWorkers,
              Before, Go, Return
  <1>3. CASE Connect \/ Infer
    BY <1>2, <1>3 DEF Connect, Infer
  <1>4. CASE Throws
    BY <1>2, <1>4 DEF Throws
  <1>5. CASE CheckTable
    BY <1>2, <1>5 DEF CheckTable
  <1>6. CASE CreateTable
    BY <1>2, <1>6 DEF CreateTable
  <1>7. CASE CreateFails
    BY <1>2, <1>7 DEF CreateFails
  <1>8. CASE CopyReturns
    <2>1. outcome \in {"ok", "failed"}
      BY <1>8 DEF CopyReturns, TypeInv, PipelineInv, PipelineTypes, CopyTypeOK
    <2>2. ~parallel /\ outcome = "ok" => committed # {}
      BY DEF PipelineInv, LoaderInv
    <2> QED
      BY <1>2, <1>8, <2>1, <2>2 DEF CopyReturns
  <1>9. CASE Cleanup
    BY <1>2, <1>9 DEF Cleanup
  <1>10. CASE OtherClientCreates
    BY <1>2, <1>10 DEF OtherClientCreates, exportVars
  <1>11. CASE UNCHANGED vars
    BY <1>2, <1>11 DEF vars, exportVars
  <1> QED
    BY <1>1, <1>3, <1>4, <1>5, <1>6, <1>7, <1>8, <1>9, <1>10, <1>11 DEF Next, ExporterThread,
      Returned

----------------------------------------------------------------------------
(* Properties.                                                             *)

\* What the copy promises, whichever strategy it has.
LEMMA CopyProperties ==
    ASSUME ExportInv
    PROVE  CopyTypeOK /\ EachBatchInOnePlace /\ CommitIsUnanimous /\ OutcomeIsTrue
  BY PipelineProperties, ParallelProperties DEF ExportInv

\* What is visible of a copy that returned, or of a pipeline that committed.
LEMMA AllVisible ==
    ASSUME ExportInv, outcome = "ok" \/ (~parallel /\ committed # {}), table # "none"
    PROVE  Visible = Batch
  <1>1. AllSent /\ \A l \in Loader : sent[l] # {} => l \in committed
    <2>1. CASE outcome = "ok"
      BY <2>1, CopyProperties DEF OutcomeIsTrue
    <2>2. CASE ~parallel /\ committed # {}
      BY <2>2 DEF ExportInv, PipelineInv, PipelineTypes, InOrder, LoaderInv, CopyTypeOK, AllSent
    <2> QED
      BY <2>1, <2>2
  <1>2. committed \subseteq Loader
    BY CopyProperties DEF CopyTypeOK
  <1> QED
    BY <1>1, <1>2 DEF Visible, AllSent

\* The table at the end, in every case of the clean-up.
LEMMA TableIsAsReported == ExportInv => NoPartialTable
  <1> SUFFICES ASSUME ExportInv, step = "returned" PROVE NoPartialTable
    BY DEF NoPartialTable
  <1>1. plan = "append" => table # "none"
    BY DEF ExportInv, AppendInv
  <1>2. result = "ok" => table # "none" /\ Visible = Batch
    <2>1. result = "ok" => outcome = "ok"
      BY DEF ExportInv, WithWorkers, WithoutWorkers, ExportTypes
    <2>2. result = "ok" => table # "none"
      <3>1. CASE parallel
        BY <3>1 DEF ExportInv, WithWorkers
      <3>2. CASE ~parallel
        BY <3>2, <2>1 DEF ExportInv, WithoutWorkers, PipelineInv, LoaderInv
      <3> QED
        BY <3>1, <3>2
    <2> QED
      BY <2>1, <2>2, AllVisible
  <1>3. result = "failed" /\ table = "ours" /\ ~dirty => Visible = Batch
    BY AllVisible DEF ExportInv, WithWorkers, WithoutWorkers
  <1> QED
    BY <1>1, <1>2, <1>3 DEF NoPartialTable

\* The types of the whole export, the bound of its queue with them.
THEOREM ExportTypesCorrect == Spec => []ExportTypeOK
  <1>1. ExportInv => ExportTypeOK
    BY CopyProperties DEF ExportInv, ExportTypes, ExportTypeOK, Before
  <1> QED
    BY <1>1, ExportInit, ExportStep, PTL DEF Spec

\* Whichever way rows are copied, no batch gets lost or is loaded twice.
THEOREM ExportKeepsBatches == Spec => []EachBatchInOnePlace
  <1>1. ExportInv => EachBatchInOnePlace
    BY CopyProperties
  <1> QED
    BY <1>1, ExportInit, ExportStep, PTL DEF Spec

\* What the copy tells its caller is true, with workers and without.
THEOREM ExportOutcomeIsTrue == Spec => []OutcomeIsTrue
  <1>1. ExportInv => OutcomeIsTrue
    BY CopyProperties
  <1> QED
    BY <1>1, ExportInit, ExportStep, PTL DEF Spec

\* All workers' rows become visible, or none of them, in the whole export too.
THEOREM ExportIsUnanimous == Spec => []CommitIsUnanimous
  <1>1. ExportInv => CommitIsUnanimous
    BY CopyProperties
  <1> QED
    BY <1>1, ExportInit, ExportStep, PTL DEF Spec

\* ExportCsvToPostgres leaves no partially filled table behind: success means every
\* row is in the table; after a failure a table this export created is gone or whole,
\* unless the clean-up failed as well; and a table it appended to is never dropped.
THEOREM NoPartialTableCorrect == Spec => []NoPartialTable
  BY TableIsAsReported, ExportInit, ExportStep, PTL DEF Spec
============================================================================

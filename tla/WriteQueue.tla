----------------------------- MODULE WriteQueue -----------------------------
(***************************************************************************)
(* The threads of leveldb's DBImpl: callers queue up to write, the one in  *)
(* front logs for those behind it, waits for room, and switches memtables; *)
(* CompactRange waits for a flush and for a manual compaction; one thread  *)
(* in the background does what MaybeScheduleCompaction finds to do.  An    *)
(* action is what runs between taking mutex_ and giving it up, in Unlock   *)
(* or in a wait on a condition variable.                                   *)
(***************************************************************************)
EXTENDS Integers, Sequences

CONSTANTS
    Callers,    \* threads that use the store, each one call at a time
    Uses,       \* caller -> the kinds of call it makes
    None,       \* no caller
    L0Trigger,  \* config::kL0_CompactionTrigger
    L0Slow,     \* config::kL0_SlowdownWritesTrigger
    L0Stop,     \* config::kL0_StopWritesTrigger
    MaxPieces   \* bound: compactions one CompactRange needs

ASSUME QueueAssumption ==
    /\ None \notin Callers /\ Uses \in [Callers -> SUBSET {"write", "sync", "range"}]
    /\ L0Stop \in Nat /\ MaxPieces \in Nat

VARIABLES
    queue,      \* writers_
    call,       \* caller -> where its call is, and what became of it
    asleep,     \* callers blocked on a condition variable
    group,      \* how many writers the leader answers for while it logs
    imm,        \* imm_ # NULL
    full,       \* mem_ is larger than write_buffer_size
    l0,         \* NumLevelFiles(0)
    bgError,    \* ~bg_error_.ok()
    thread,     \* the background thread; "off" is ~bg_compaction_scheduled_
    manual,     \* the caller manual_compaction_ belongs to
    open,       \* ~shutting_down_
    crashed     \* a NULL pointer was used

queueVars == <<queue, call, asleep, group, imm, full, l0, bgError, thread, manual, open, crashed>>

Waits   == {"room", "flush", "manual"}           \* on bg_cv_
Writing == {"queued", "delayed", "room", "logging"}
Points  == {"idle"} \cup Writing \cup Waits

\* mark: what the log holds of the caller's write.  left: the compactions that
\* its manual compaction still needs; done is ManualCompaction::done.
Calls == [at : Points, kind : {"write", "sync", "range"}, mayDelay : BOOLEAN, mark : {"none", "logged", "synced"},
          inMem : BOOLEAN, answer : {"none", "ok", "error"}, left : 0 .. MaxPieces, done : BOOLEAN]

QueueTypeOK ==
    /\ queue \in Seq(Callers) /\ group \in Nat
    /\ call \in [Callers -> Calls] /\ asleep \subseteq Callers
    /\ l0 \in 0 .. L0Stop
    /\ imm \in BOOLEAN /\ full \in BOOLEAN /\ bgError \in BOOLEAN
    /\ open \in BOOLEAN /\ crashed \in BOOLEAN
    /\ thread \in {"off", "ready", "flushing", "merging", "byhand"}
    /\ manual \in Callers \cup {None}

NoCall == [at |-> "idle", kind |-> "write", mayDelay |-> FALSE, mark |-> "none",
           inMem |-> FALSE, answer |-> "none", left |-> 0, done |-> FALSE]

QueueInit ==
    /\ queue = <<>> /\ call = [c \in Callers |-> NoCall] /\ asleep = {} /\ group = 0
    /\ imm = FALSE /\ full = FALSE /\ l0 = 0 /\ bgError = FALSE
    /\ thread = "off" /\ manual = None /\ open = TRUE /\ crashed = FALSE

-----------------------------------------------------------------------------
(* Shared pieces. *)

\* bg_cv_.SignalAll(), heard by those that wait on it in the calls cs.
Roused(cs, sleepers) == {c \in sleepers : cs[c].at \notin Waits}

\* MaybeScheduleCompaction, once the thread is free.
HasWork(flush, byHand, files, error) ==
    open /\ ~error /\ (flush \/ byHand # None \/ files >= L0Trigger)

Scheduled(flush, byHand, files) ==
    IF thread = "off" /\ HasWork(flush, byHand, files, bgError) THEN "ready" ELSE thread

\* The end of Write: the first n writers of q are answered, the new head is woken.
\* A CompactRange goes on to wait for the flush, or skips that after an error.
Answer(q, n, cs, res, sleepers) ==
    LET members == {q[i] : i \in 1 .. n}
        Next(c)  == IF cs[c].kind = "range" THEN (IF res = "ok" THEN "flush" ELSE "manual")
                                            ELSE "idle"
    IN  /\ queue' = SubSeq(q, n + 1, Len(q))
        /\ call' = [c \in Callers |-> IF c \in members
                                      THEN [cs[c] EXCEPT !.at = Next(c), !.answer = res,
                                                         !.mayDelay = FALSE]
                                      ELSE cs[c]]
        /\ asleep' = sleepers \ (members \cup (IF n < Len(q) THEN {q[n + 1]} ELSE {}))
        /\ group' = 0

\* Faulty variant: a sync write may join a group that is not synced.
GroupsForgetSync(q, cs) ==
    {n \in 1 .. Len(q) : n < Len(q) => cs[q[n + 1]].kind # "range"}

\* BuildBatchGroup: the writers the leader takes along, up to a sync write that
\* the leader would not sync, or up to a batch too large to add.
Groups(q, cs) ==
    {n \in 1 .. Len(q) :
        /\ \A i \in 2 .. n : cs[q[i]].kind = "sync" => cs[q[1]].kind = "sync"
        /\ n < Len(q) => cs[q[n + 1]].kind # "range"}

\* Faulty variant: the group leaves the queue before it is logged.
StartLoggingPops(c, q, cs) ==
    \E n \in Groups(q, cs) :
        /\ group' = n /\ queue' = SubSeq(q, n + 1, Len(q))
        /\ call' = [cs EXCEPT ![c].at = "logging"] /\ UNCHANGED asleep

StartLogging(c, q, cs) ==
    /\ group' \in Groups(q, cs)
    /\ queue' = q /\ call' = [cs EXCEPT ![c].at = "logging"] /\ UNCHANGED asleep

\* MakeRoomForWrite, by the caller c in front of q, and what follows it up to the
\* next release of the mutex.
MakeRoom(c, q, cs) ==
    LET force   == cs[c].kind = "range"
        delays  == cs[c].mayDelay /\ l0 >= L0Slow
        hasRoom == ~force /\ ~full
        blocked == imm \/ l0 >= L0Stop
    IN  \/ /\ bgError
           /\ Answer(q, 1, cs, "error", asleep)
           /\ UNCHANGED <<imm, full, thread>>
        \/ /\ ~bgError /\ delays
           /\ queue' = q /\ call' = [cs EXCEPT ![c].at = "delayed", ![c].mayDelay = FALSE]
           /\ UNCHANGED <<asleep, group, imm, full, thread>>
        \/ /\ ~bgError /\ ~delays /\ hasRoom
           /\ StartLogging(c, q, cs)
           /\ UNCHANGED <<imm, full, thread>>
        \/ /\ ~bgError /\ ~delays /\ ~hasRoom /\ blocked
           /\ queue' = q /\ call' = [cs EXCEPT ![c].at = "room"] /\ asleep' = asleep \cup {c}
           /\ UNCHANGED <<group, imm, full, thread>>
        \/ /\ ~bgError /\ ~delays /\ ~hasRoom /\ ~blocked   \* no new log file
           /\ Answer(q, 1, cs, "error", asleep)
           /\ UNCHANGED <<imm, full, thread>>
        \/ /\ ~bgError /\ ~delays /\ ~hasRoom /\ ~blocked   \* the switch
           /\ imm' = TRUE /\ full' = FALSE
           /\ thread' = Scheduled(TRUE, manual, l0)
           /\ IF force THEN Answer(q, 1, cs, "ok", asleep) ELSE StartLogging(c, q, cs)

-----------------------------------------------------------------------------
(* The callers. *)

\* Write, or the Write(NULL) with which CompactRange begins.
Call(c, k) ==
    /\ open /\ call[c].at = "idle"
    /\ \E n \in (IF k = "range" THEN 0 .. MaxPieces ELSE {0}) :
           LET cs == [call EXCEPT ![c] = [NoCall EXCEPT !.at = "queued", !.kind = k,
                                              !.mayDelay = (k # "range"), !.left = n]]
               q  == Append(queue, c)
           IN  IF queue = <<>>
               THEN MakeRoom(c, q, cs)
               ELSE /\ queue' = q /\ call' = cs /\ asleep' = asleep \cup {c}
                    /\ UNCHANGED <<group, imm, full, thread>>
    /\ UNCHANGED <<l0, bgError, manual, open, crashed>>

\* A caller wakes up in the queue, after the delay, or in MakeRoomForWrite.
GoOn(c) ==
    /\ call[c].at \in {"queued", "delayed", "room"} /\ c \notin asleep
    /\ IF c = Head(queue)
       THEN MakeRoom(c, queue, call)
       ELSE /\ asleep' = asleep \cup {c}
            /\ UNCHANGED <<queue, call, group, imm, full, thread>>
    /\ UNCHANGED <<l0, bgError, manual, open, crashed>>

Logged(c, m, applied) ==
    [d \in Callers |->
        IF d \in {queue[i] : i \in 1 .. group} /\ call[d].kind # "range"
        THEN [call[d] EXCEPT !.mark = m, !.inMem = applied] ELSE call[d]]

\* The record is in the log and, if the leader asked for it, synced; then the
\* memtable has it.  A record that cannot be added leaves no background error, a
\* sync that fails does.
EndLogging(c) ==
    LET sync == call[c].kind = "sync"
    IN  /\ call[c].at = "logging"
        /\ \/ /\ Answer(queue, group, Logged(c, IF sync THEN "synced" ELSE "logged", TRUE),
                        "ok", asleep)
              /\ full' \in BOOLEAN
              /\ UNCHANGED bgError
           \/ /\ Answer(queue, group, call, "error", asleep)
              /\ UNCHANGED <<full, bgError>>
           \/ /\ sync
              /\ bgError' = TRUE
              /\ Answer(queue, group, Logged(c, "logged", FALSE), "error",
                        IF bgError THEN asleep ELSE Roused(call, asleep))
              /\ UNCHANGED full
        /\ UNCHANGED <<imm, l0, thread, manual, open, crashed>>

\* TEST_CompactMemTable, after its Write.
AtFlush(c) ==
    /\ call[c].at = "flush" /\ c \notin asleep
    /\ IF imm /\ ~bgError
       THEN asleep' = asleep \cup {c} /\ UNCHANGED call
       ELSE call' = [call EXCEPT ![c].at = "manual"] /\ UNCHANGED asleep
    /\ UNCHANGED <<queue, group, imm, full, l0, bgError, thread, manual, open, crashed>>

\* Faulty variant: a CompactRange that ends clears manual_compaction_, its own or not.
CancelledAlways(c) == None

Cancelled(c) == IF manual = c THEN None ELSE manual

\* TEST_CompactRange: claims manual_compaction_ when nobody has it, and lets go of
\* it when the call ends early.
AtManual(c) ==
    /\ call[c].at = "manual" /\ c \notin asleep
    /\ IF call[c].done \/ bgError
       THEN /\ call' = [call EXCEPT ![c] = [NoCall EXCEPT !.kind = "range"]]
            /\ manual' = Cancelled(c)
            /\ UNCHANGED <<asleep, thread>>
       ELSE /\ manual' = IF manual = None THEN c ELSE manual
            /\ thread' = IF manual = None THEN Scheduled(imm, c, l0) ELSE thread
            /\ asleep' = asleep \cup {c}
            /\ UNCHANGED call
    /\ UNCHANGED <<queue, group, imm, full, l0, bgError, open, crashed>>

\* The destructor begins, with no call in progress.
Close ==
    /\ open /\ \A c \in Callers : call[c].at = "idle"
    /\ open' = FALSE
    /\ UNCHANGED <<queue, call, asleep, group, imm, full, l0, bgError, thread, manual, crashed>>

-----------------------------------------------------------------------------
(* The background thread. *)

\* Faulty variant: no signal.
EndBackgroundCallSilent(flush, byHand, files, error) ==
    /\ imm' = flush /\ manual' = byHand /\ l0' = files /\ bgError' = error
    /\ thread' = IF HasWork(flush, byHand, files, error) THEN "ready" ELSE "off"
    /\ UNCHANGED asleep

\* The end of BackgroundCall.
EndBackgroundCall(flush, byHand, files, error) ==
    /\ imm' = flush /\ manual' = byHand /\ l0' = files /\ bgError' = error
    /\ thread' = IF HasWork(flush, byHand, files, error) THEN "ready" ELSE "off"
    /\ asleep' = Roused(call, asleep)

ThreadStarts ==
    /\ thread = "ready"
    /\ LET byHand == ~imm /\ manual # None
           over   == IF byHand THEN call[manual].left = 0
                               ELSE ~imm /\ l0 < L0Trigger
       IN  \/ /\ ~open \/ bgError
              /\ EndBackgroundCall(imm, manual, l0, bgError) /\ UNCHANGED call
           \/ /\ open /\ ~bgError /\ ~over
              /\ thread' = IF imm THEN "flushing" ELSE IF byHand THEN "byhand" ELSE "merging"
              /\ UNCHANGED <<call, asleep, imm, l0, bgError, manual>>
           \/ /\ open /\ ~bgError /\ over
              /\ call' = IF byHand THEN [call EXCEPT ![manual].done = TRUE] ELSE call
              /\ EndBackgroundCall(imm, None, l0, bgError)
    /\ UNCHANGED <<queue, group, full, open, crashed>>

\* CompactMemTable: the table goes to level 0 or below it.
FlushEnds ==
    /\ thread = "flushing"
    /\ \/ open /\ \E n \in {l0, l0 + 1} : EndBackgroundCall(FALSE, manual, n, bgError)
       \/ EndBackgroundCall(imm, manual, l0, TRUE)
    /\ UNCHANGED <<queue, call, group, full, open, crashed>>

\* The same in the middle of a compaction, bg_error_ or not.
FlushWhileMerging ==
    /\ thread \in {"merging", "byhand"} /\ imm /\ open
    /\ \/ imm' = FALSE /\ l0' \in {l0, l0 + 1} /\ UNCHANGED bgError
       \/ bgError' = TRUE /\ UNCHANGED <<imm, l0>>
    /\ asleep' = Roused(call, asleep)
    /\ UNCHANGED <<queue, call, group, full, thread, manual, open, crashed>>

\* A compaction of level 0 takes at least one of its files away.
MergeEnds ==
    /\ thread = "merging"
    /\ \/ open /\ \E n \in 0 .. (l0 - 1) : EndBackgroundCall(imm, manual, n, bgError)
       \/ EndBackgroundCall(imm, manual, l0, TRUE)
    /\ UNCHANGED <<queue, call, group, full, open, crashed>>

\* The end of a manual compaction goes through manual_compaction_ again.
ManualMergeEnds ==
    /\ thread = "byhand"
    /\ \/ /\ manual = None
          /\ crashed' = TRUE
          /\ UNCHANGED <<call, asleep, imm, l0, bgError, thread, manual>>
       \/ /\ manual # None /\ open
          /\ call' = [call EXCEPT ![manual].left = @ - 1]
          /\ \E n \in 0 .. l0 : EndBackgroundCall(imm, None, n, bgError)
          /\ UNCHANGED crashed
       \/ /\ manual # None
          /\ call' = [call EXCEPT ![manual].done = TRUE]
          /\ EndBackgroundCall(imm, None, l0, TRUE)
          /\ UNCHANGED crashed
    /\ UNCHANGED <<queue, group, full, open>>

QueueNext ==
    /\ ~crashed
    /\ \/ \E c \in Callers :
              \/ \E k \in Uses[c] : Call(c, k)
              \/ GoOn(c) \/ EndLogging(c) \/ AtFlush(c) \/ AtManual(c)
       \/ Close
       \/ ThreadStarts \/ FlushEnds \/ FlushWhileMerging \/ MergeEnds \/ ManualMergeEnds

CallerStep(c) == GoOn(c) \/ EndLogging(c) \/ AtFlush(c) \/ AtManual(c)

QueueSpec == QueueInit /\ [][QueueNext]_queueVars

\* Threads that can run do run; callers come when they like.
FairQueueSpec ==
    /\ QueueSpec
    /\ \A c \in Callers : WF_queueVars(~crashed /\ CallerStep(c))
    /\ WF_queueVars(~crashed /\ ThreadStarts)
    /\ WF_queueVars(~crashed /\ FlushEnds)
    /\ WF_queueVars(~crashed /\ (MergeEnds \/ ManualMergeEnds))

-----------------------------------------------------------------------------
(* Properties. *)

\* What Write returned is true, whoever logged for the caller: after ok the write
\* is in the log and in the memtable, and on the disk if the caller asked for
\* that; after an error no read sees it.
AnswersAreTrue ==
    \A c \in Callers :
        call[c].at = "idle" /\ call[c].kind # "range" =>
            CASE call[c].answer = "ok" ->
                     /\ call[c].inMem /\ call[c].mark # "none"
                     /\ call[c].kind = "sync" => call[c].mark = "synced"
              [] OTHER -> ~call[c].inMem

\* One caller at a time is past the queue: it is in front, so that its group is
\* still there when it comes back from the log with the mutex.
OneLeader ==
    \A c \in Callers :
        call[c].at \in {"delayed", "room", "logging"} =>
            /\ queue # <<>> /\ c = Head(queue)
            /\ call[c].at = "logging" => group \in 1 .. Len(queue)

\* manual_compaction_ is only pulled from under a running compaction after a
\* background error: no other end of a CompactRange touches it.
OnlyErrorsCancel == crashed => bgError

\* No wake-up is lost: every Write comes to an end, and so does closing the store.
EveryWaitEnds ==
    /\ \A c \in Callers : call[c].at \in Writing ~> (crashed \/ call[c].at \notin Writing)
    /\ ~open ~> (crashed \/ thread = "off")
=============================================================================

-------------------------- MODULE WritePathProofs ---------------------------
(***************************************************************************)
(* Proofs about what a write to the store goes through: WriteQueue, for    *)
(* any number of callers and any limits, and LogFormat, for blocks,        *)
(* headers and records of any size.                                        *)
(*                                                                         *)
(* The invariant of the queue has two parts. Of the queue itself: a caller *)
(* stands in it once exactly while its write is under way, only the one in *)
(* front is past "queued", nothing of a queued write is logged yet, and    *)
(* the group of a leader that does not sync holds no sync write. Of the    *)
(* background: whoever manual_compaction_ belongs to waits for it, and a   *)
(* manual compaction that lost it lost it to a background error.           *)
(*                                                                         *)
(* The invariant of the log says that the fragments of a record are next   *)
(* to each other, that until bytes are lost each is in one block that      *)
(* begins with a fragment, and that every sound fragment of the block at   *)
(* hand can be reached from the reader's place in it.                      *)
(***************************************************************************)
EXTENDS WriteQueue, LogFormat, FiniteSetTheorems, SequenceTheorems, TLAPS

-----------------------------------------------------------------------------
(* The write queue. *)

\* The callers of q, and no others, have a write under way; those behind the front
\* wait in line.
Lined(q, cs) ==
    /\ \A i, j \in 1 .. Len(q) : q[i] = q[j] => i = j
    /\ \A c \in Callers : cs[c].at \in Writing <=> \E i \in 1 .. Len(q) : q[i] = c
    /\ \A i \in 2 .. Len(q) : cs[q[i]].at = "queued"

Fresh(r) == r.mark = "none" /\ ~r.inMem

\* What an answer says of a write.
Truth(r, a) ==
    r.kind # "range" =>
        /\ a = "ok" => r.inMem /\ r.mark # "none" /\ (r.kind = "sync" => r.mark = "synced")
        /\ a # "ok" => ~r.inMem

Answered(cs) == \A c \in Callers : cs[c].at = "idle" => Truth(cs[c], cs[c].answer)

Unwritten(cs) == \A c \in Callers : cs[c].at \in Writing => Fresh(cs[c])

\* The group n of a leader c.
GroupSound(q, cs, n) ==
    \A c \in Callers : cs[c].at = "logging" =>
        /\ n \in 1 .. Len(q)
        /\ \A i \in 2 .. n : cs[q[i]].kind = "sync" => cs[c].kind = "sync"

QueueInv ==
    /\ Lined(queue, call) /\ Unwritten(call) /\ Answered(call)
    /\ GroupSound(queue, call, group)

ThreadInv ==
    /\ manual # None => call[manual].at = "manual" /\ ~call[manual].done
    /\ thread = "byhand" => IF manual = None THEN bgError ELSE call[manual].left > 0
    /\ thread = "flushing" => imm
    /\ imm => l0 < L0Stop
    /\ crashed => bgError

WriteInv == QueueTypeOK /\ QueueInv /\ ThreadInv

-----------------------------------------------------------------------------
(* The queue. *)

\* The writer in front moves on without leaving: nobody else is affected.
LEMMA FrontMoves ==
    ASSUME NEW q \in Seq(Callers), q # <<>>, NEW cs \in [Callers -> Calls],
           Lined(q, cs), Unwritten(cs), Answered(cs), NEW c \in Callers, c = q[1],
           NEW new \in [Callers -> Calls], \A d \in Callers \ {c} : new[d] = cs[d],
           new[c].at \in Writing, new[c].mark = cs[c].mark, new[c].inMem = cs[c].inMem
    PROVE  Lined(q, new) /\ Unwritten(new) /\ Answered(new)
<1>1. Len(q) \in Nat /\ 1 \in 1 .. Len(q) /\ \A i \in 1 .. Len(q) : q[i] \in Callers
  OBVIOUS
<1>2. cs[c] \in Calls /\ cs[c].at \in Writing
  BY <1>1 DEF Lined
<1>3. Lined(q, new)
  <2>1. \A d \in Callers : new[d].at \in Writing <=> cs[d].at \in Writing
    BY <1>2
  <2>2. \A i \in 2 .. Len(q) : i \in 1 .. Len(q) /\ q[i] # c
    BY <1>1 DEF Lined
  <2>3. \A i \in 2 .. Len(q) : new[q[i]].at = "queued"
    BY <1>1, <2>2 DEF Lined
  <2>. QED
    BY <2>1, <2>3 DEF Lined
<1>4. Unwritten(new)
  BY <1>2 DEF Unwritten, Fresh
<1>5. Answered(new)
  BY DEF Answered, Writing
<1>. QED
  BY <1>3, <1>4, <1>5

\* Nobody but the writer in front is past "queued".
LEMMA OnlyFront ==
    ASSUME NEW q \in Seq(Callers), NEW cs, Lined(q, cs), NEW c \in Callers,
           cs[c].at \in Writing, cs[c].at # "queued"
    PROVE  q # <<>> /\ c = q[1]
<1>1. PICK i \in 1 .. Len(q) : q[i] = c
  BY DEF Lined
<1>2. i \notin 2 .. Len(q)
  BY <1>1 DEF Lined
<1>. QED
  BY <1>1, <1>2

\* What is left of a queue without its first n.
LEMMA RestOf ==
    ASSUME NEW S, NEW q \in Seq(S), NEW n \in 0 .. Len(q)
    PROVE  /\ SubSeq(q, n + 1, Len(q)) \in Seq(S)
           /\ Len(SubSeq(q, n + 1, Len(q))) = Len(q) - n
           /\ \A i \in 1 .. Len(SubSeq(q, n + 1, Len(q))) :
                  SubSeq(q, n + 1, Len(q))[i] = q[i + n]
<1>1. SubSeq(q, n + 1, Len(q)) \in Seq(S)
  OBVIOUS
<1>2. Len(SubSeq(q, n + 1, Len(q))) = Len(q) - n
  OBVIOUS
<1>3. ASSUME NEW i \in 1 .. Len(q) - n
      PROVE  SubSeq(q, n + 1, Len(q))[i] = q[i + n]
  OBVIOUS
<1>. QED
  BY <1>1, <1>2, <1>3

\* The end of Write for the first n of the queue, whose answer is true.
LEMMA AnswerKeeps ==
    ASSUME NEW q \in Seq(Callers), NEW n \in 1 .. Len(q), NEW cs \in [Callers -> Calls],
           NEW res \in {"ok", "error"}, NEW sl \in SUBSET Callers,
           Lined(q, cs), Answered(cs),
           \A i \in 1 .. n : Truth(cs[q[i]], res),
           \A i \in (n + 1) .. Len(q) : Fresh(cs[q[i]]),
           Answer(q, n, cs, res, sl)
    PROVE  /\ queue' \in Seq(Callers) /\ call' \in [Callers -> Calls]
           /\ asleep' \in SUBSET Callers /\ group' \in Nat
           /\ QueueInv'
           /\ \A c \in Callers : cs[c].at = "manual" => call'[c] = cs[c]
<1>. DEFINE members == {q[i] : i \in 1 .. n}
            Goes(c) == IF cs[c].kind = "range" THEN (IF res = "ok" THEN "flush" ELSE "manual")
                                               ELSE "idle"
<1>1. /\ queue' = SubSeq(q, n + 1, Len(q))
      /\ call' = [c \in Callers |-> IF c \in members
                                    THEN [cs[c] EXCEPT !.at = Goes(c), !.answer = res,
                                                       !.mayDelay = FALSE]
                                    ELSE cs[c]]
      /\ group' = 0 /\ asleep' \subseteq sl
  BY DEF Answer
<1>2. Len(q) \in Nat /\ n \in Nat /\ n <= Len(q) /\ \A i \in 1 .. Len(q) : q[i] \in Callers
  OBVIOUS
<1>3. queue' \in Seq(Callers) /\ Len(queue') = Len(q) - n
      /\ \A i \in 1 .. Len(queue') : queue'[i] = q[i + n]
  <2>1. n \in 0 .. Len(q)
    BY <1>2
  <2>. QED
    BY <1>1, <2>1, RestOf
<1>4. \A c \in members :
          /\ call'[c] \in Calls /\ call'[c].at = Goes(c) /\ call'[c].answer = res
          /\ call'[c].kind = cs[c].kind /\ call'[c].mark = cs[c].mark
          /\ call'[c].inMem = cs[c].inMem
  <2>1. SUFFICES ASSUME NEW c \in members
                 PROVE  /\ call'[c] \in Calls /\ call'[c].at = Goes(c) /\ call'[c].answer = res
                        /\ call'[c].kind = cs[c].kind /\ call'[c].mark = cs[c].mark
                        /\ call'[c].inMem = cs[c].inMem
    OBVIOUS
  <2>2. c \in Callers
    BY <1>2
  <2>3. Goes(c) \in Points
    BY DEF Points, Waits
  <2>4. call'[c] = [cs[c] EXCEPT !.at = Goes(c), !.answer = res, !.mayDelay = FALSE]
    BY <1>1, <2>2
  <2>5. cs[c] \in Calls
    BY <2>2
  <2>. HIDE DEF Goes
  <2>. QED
    BY <2>3, <2>4, <2>5 DEF Calls
<1>5. \A c \in Callers \ members : call'[c] = cs[c]
  BY <1>1
<1>6. call' \in [Callers -> Calls]
  BY <1>1, <1>4, <1>5
<1>7. \A c \in members : call'[c].at \notin Writing
  BY <1>4 DEF Writing
<1>8. \A i \in 1 .. Len(q) : q[i] \in members <=> i <= n
  BY <1>2 DEF Lined
<1>9. \A i \in 1 .. Len(queue') : /\ i + n \in 2 .. Len(q) /\ i + n \in 1 .. Len(q)
                                  /\ queue'[i] \in Callers \ members
  <2>1. SUFFICES ASSUME NEW i \in 1 .. Len(queue')
                 PROVE  /\ i + n \in 2 .. Len(q) /\ i + n \in 1 .. Len(q)
                        /\ queue'[i] \in Callers \ members
    OBVIOUS
  <2>2. i \in 1 .. Len(q) - n
    BY <1>3
  <2>3. i + n \in 2 .. Len(q) /\ i + n \in 1 .. Len(q) /\ ~(i + n <= n)
    BY <1>2, <2>2
  <2>4. queue'[i] = q[i + n]
    BY <1>3
  <2>. HIDE DEF members
  <2>. QED
    BY <1>2, <1>8, <2>3, <2>4
<1>10. Lined(queue, call)'
  <2>1. \A i, j \in 1 .. Len(queue') : queue'[i] = queue'[j] => i = j
    <3>1. SUFFICES ASSUME NEW i \in 1 .. Len(queue'), NEW j \in 1 .. Len(queue'),
                          queue'[i] = queue'[j]
                   PROVE  i = j
      OBVIOUS
    <3>2. q[i + n] = q[j + n]
      BY <1>3, <3>1
    <3>3. i + n = j + n
      BY <1>9, <3>2 DEF Lined
    <3>. QED
      BY <1>2, <3>3
  <2>2. ASSUME NEW c \in Callers
        PROVE  call'[c].at \in Writing <=> \E i \in 1 .. Len(queue') : queue'[i] = c
    <3>1. CASE c \in members
      BY <1>7, <1>9, <3>1
    <3>2. CASE c \notin members
      <4>1. call'[c].at \in Writing <=> \E i \in 1 .. Len(q) : q[i] = c
        BY <1>5, <3>2 DEF Lined
      <4>2. ASSUME NEW i \in 1 .. Len(q), q[i] = c
            PROVE  i - n \in 1 .. Len(queue') /\ queue'[i - n] = c
        BY <1>2, <1>3, <1>8, <3>2, <4>2
      <4>. QED
        BY <1>3, <1>9, <4>1, <4>2
    <3>. QED
      BY <3>1, <3>2
  <2>3. \A i \in 1 .. Len(queue') : call'[queue'[i]].at = "queued"
    BY <1>3, <1>5, <1>9, SMTT(20) DEF Lined
  <2>. QED
    BY <1>3, <2>1, <2>2, <2>3 DEF Lined
<1>11. Unwritten(call)'
  <2>1. SUFFICES ASSUME NEW c \in Callers, call'[c].at \in Writing PROVE Fresh(call'[c])
    BY DEF Unwritten
  <2>2. PICK i \in 1 .. Len(queue') : queue'[i] = c
    BY <1>10, <2>1 DEF Lined
  <2>3. i + n \in (n + 1) .. Len(q) /\ c = q[i + n]
    BY <1>2, <1>3, <2>2
  <2>. QED
    BY <1>5, <1>9, <2>2, <2>3
<1>12. Answered(call)'
  <2>1. SUFFICES ASSUME NEW c \in Callers, call'[c].at = "idle"
                 PROVE  Truth(call'[c], call'[c].answer)
    BY DEF Answered
  <2>2. CASE c \in members
    <3>1. Truth(cs[c], res)
      BY <2>2
    <3>. QED
      BY <1>4, <2>2, <3>1 DEF Truth
  <2>3. CASE c \notin members
    BY <1>5, <2>1, <2>3 DEF Answered
  <2>. QED
    BY <2>2, <2>3
<1>13. \A c \in Callers : call'[c].at # "logging"
  <2>1. SUFFICES ASSUME NEW c \in Callers, call'[c].at = "logging" PROVE FALSE
    OBVIOUS
  <2>2. PICK i \in 1 .. Len(queue') : queue'[i] = c
    BY <1>10, <2>1 DEF Lined, Writing
  <2>3. cs[queue'[i]].at = "queued"
    BY <1>3, <1>9, SMTT(20) DEF Lined
  <2>. QED
    BY <1>5, <1>9, <2>1, <2>2, <2>3
<1>14. \A c \in Callers : cs[c].at = "manual" => c \notin members
  BY <1>2, SMTT(20) DEF Lined, Writing
<1>. QED
  BY <1>1, <1>3, <1>5, <1>6, <1>10, <1>11, <1>12, <1>13, <1>14 DEF QueueInv, GroupSound

\* What a step that serves the queue promises to the rest.
Served(cs) ==
    /\ queue' \in Seq(Callers) /\ call' \in [Callers -> Calls]
    /\ asleep' \in SUBSET Callers /\ group' \in Nat /\ QueueInv'
    /\ \A c \in Callers : cs[c].at = "manual" => call'[c] = cs[c]

\* The call of c goes on at another point, and nothing else changes.
Moves(cs, c, at) ==
    /\ call' \in [Callers -> Calls]
    /\ call'[c].at = at /\ call'[c].kind = cs[c].kind
    /\ call'[c].mark = cs[c].mark /\ call'[c].inMem = cs[c].inMem
    /\ \A d \in Callers \ {c} : call'[d] = cs[d]

LEMMA Moved ==
    ASSUME NEW cs \in [Callers -> Calls], NEW c \in Callers, NEW at \in Points,
           NEW more \in BOOLEAN,
           call' = [cs EXCEPT ![c] = [cs[c] EXCEPT !.at = at, !.mayDelay = more]]
    PROVE  Moves(cs, c, at)
<1>1. cs[c] \in Calls
  OBVIOUS
<1>2. call'[c] = [cs[c] EXCEPT !.at = at, !.mayDelay = more]
  OBVIOUS
<1>3. /\ call'[c] \in Calls /\ call'[c].at = at /\ call'[c].kind = cs[c].kind
      /\ call'[c].mark = cs[c].mark /\ call'[c].inMem = cs[c].inMem
  BY <1>1, <1>2 DEF Calls
<1>. QED
  BY <1>3 DEF Moves

\* The writer in front, its memtable ready, takes a group along.
LEMMA StartLoggingKeeps ==
    ASSUME asleep \in SUBSET Callers, NEW q \in Seq(Callers), q # <<>>,
           NEW cs \in [Callers -> Calls], Lined(q, cs), Unwritten(cs), Answered(cs),
           NEW c \in Callers, c = q[1], StartLogging(c, q, cs)
    PROVE  Served(cs)
<1>1. /\ queue' = q /\ asleep' = asleep /\ group' \in Groups(q, cs)
      /\ call' = [cs EXCEPT ![c].at = "logging"]
  BY DEF StartLogging
<1>2. Moves(cs, c, "logging")
  <2>1. call' = [cs EXCEPT ![c] = [cs[c] EXCEPT !.at = "logging",
                                                !.mayDelay = cs[c].mayDelay]]
    BY <1>1 DEF Calls
  <2>2. cs[c].mayDelay \in BOOLEAN /\ "logging" \in Points
    BY DEF Calls, Points, Writing
  <2>. QED
    BY <2>1, <2>2, Moved
<1>3. Lined(queue', call') /\ Unwritten(call') /\ Answered(call')
  BY <1>1, <1>2, FrontMoves, ZenonT(30) DEF Writing, Moves
<1>4. group' \in Nat /\ GroupSound(queue', call', group')
  <2>1. /\ group' \in 1 .. Len(q)
        /\ \A i \in 2 .. group' : cs[q[i]].kind = "sync" => cs[c].kind = "sync"
    BY <1>1 DEF Groups
  <2>2. \A i \in 2 .. group' : i \in 1 .. Len(q) /\ q[i] \in Callers
    BY <2>1
  <2>3. \A i \in 2 .. group' : call'[q[i]].kind = cs[q[i]].kind
    BY <1>2, <2>2 DEF Moves
  <2>4. \A d \in Callers : call'[d].at = "logging" => d = c
    <3>1. SUFFICES ASSUME NEW d \in Callers, call'[d].at = "logging" PROVE d = c
      OBVIOUS
    <3>2. call'[d].at \in Writing /\ call'[d].at # "queued"
      BY <3>1 DEF Writing
    <3>. QED
      BY <1>1, <1>3, <3>2, OnlyFront
  <2>. QED
    BY <1>1, <1>2, <2>1, <2>3, <2>4 DEF GroupSound, Moves
<1>5. cs[c].at \in Writing
  BY DEF Lined
<1>6. \A d \in Callers : cs[d].at = "manual" => call'[d] = cs[d]
  BY <1>2, <1>5 DEF Writing, Moves
<1>. QED
  BY <1>1, <1>2, <1>3, <1>4, <1>6 DEF Served, QueueInv, Moves

\* The writer in front moves on before it has logged anything.
LEMMA PauseKeeps ==
    ASSUME asleep \in SUBSET Callers, group \in Nat,
           NEW q \in Seq(Callers), q # <<>>, NEW cs \in [Callers -> Calls],
           Lined(q, cs), Unwritten(cs), Answered(cs), NEW c \in Callers, c = q[1],
           NEW at \in {"delayed", "room"}, Moves(cs, c, at),
           queue' = q, asleep' \in SUBSET Callers, group' = group
    PROVE  Served(cs)
<1>1. at \in Writing
  BY DEF Writing
<1>2. Lined(q, call') /\ Unwritten(call') /\ Answered(call')
  BY <1>1, FrontMoves DEF Moves
<1>3. \A d \in Callers : call'[d].at # "logging"
  <2>1. SUFFICES ASSUME NEW d \in Callers, call'[d].at = "logging" PROVE FALSE
    OBVIOUS
  <2>2. call'[d].at \in Writing /\ call'[d].at # "queued"
    BY <2>1 DEF Writing
  <2>3. d = c
    BY <1>2, <2>2, OnlyFront
  <2>. QED
    BY <2>1, <2>3 DEF Moves
<1>4. cs[c].at \in Writing
  BY DEF Lined
<1>. QED
  BY <1>2, <1>3, <1>4 DEF Served, QueueInv, GroupSound, Writing, Moves

\* The writer in front is refused, or was a CompactRange whose turn is over.
LEMMA FrontAnswered ==
    ASSUME asleep \in SUBSET Callers, NEW q \in Seq(Callers), q # <<>>,
           NEW cs \in [Callers -> Calls], Lined(q, cs), Unwritten(cs), Answered(cs),
           NEW res \in {"ok", "error"}, res = "error" \/ cs[q[1]].kind = "range",
           Answer(q, 1, cs, res, asleep)
    PROVE  Served(cs)
<1>1. 1 \in 1 .. Len(q) /\ \A i \in 1 .. Len(q) : q[i] \in Callers
  OBVIOUS
<1>2. \A i \in 1 .. Len(q) : Fresh(cs[q[i]])
  BY <1>1 DEF Lined, Unwritten
<1>3. \A i \in 1 .. 1 : Truth(cs[q[i]], res)
  BY <1>1, <1>2 DEF Fresh, Truth
<1>4. \A i \in 1 + 1 .. Len(q) : Fresh(cs[q[i]])
  BY <1>2
<1>. QED
  BY <1>1, <1>3, <1>4, AnswerKeeps DEF Served

\* What MakeRoomForWrite does to the background thread and the memtables.
RoomMade ==
    /\ imm' \in BOOLEAN /\ full' \in BOOLEAN
    /\ imm' => l0 < L0Stop \/ imm
    /\ thread' \in {thread, "ready"} /\ (imm => imm')

LEMMA MakeRoomKeeps ==
    ASSUME asleep \in SUBSET Callers, group \in Nat, imm \in BOOLEAN, full \in BOOLEAN,
           l0 \in 0 .. L0Stop,
           NEW q \in Seq(Callers), q # <<>>, NEW cs \in [Callers -> Calls],
           Lined(q, cs), Unwritten(cs), Answered(cs), NEW c \in Callers, c = q[1],
           MakeRoom(c, q, cs)
    PROVE  Served(cs) /\ RoomMade
<1>1. CASE Answer(q, 1, cs, "error", asleep) /\ UNCHANGED <<imm, full, thread>>
  BY <1>1, FrontAnswered DEF RoomMade
<1>2. CASE /\ queue' = q /\ call' = [cs EXCEPT ![c].at = "delayed", ![c].mayDelay = FALSE]
           /\ UNCHANGED <<asleep, group, imm, full, thread>>
  <2>1. call' = [cs EXCEPT ![c] = [cs[c] EXCEPT !.at = "delayed", !.mayDelay = FALSE]]
    BY <1>2
  <2>2. Moves(cs, c, "delayed")
    BY <2>1, Moved DEF Points, Writing
  <2>. QED
    BY <1>2, <2>2, PauseKeeps DEF RoomMade
<1>3. CASE StartLogging(c, q, cs) /\ UNCHANGED <<imm, full, thread>>
  BY <1>3, StartLoggingKeeps DEF RoomMade
<1>4. CASE /\ queue' = q /\ call' = [cs EXCEPT ![c].at = "room"]
           /\ asleep' = asleep \cup {c} /\ UNCHANGED <<group, imm, full, thread>>
  <2>1. call' = [cs EXCEPT ![c] = [cs[c] EXCEPT !.at = "room", !.mayDelay = cs[c].mayDelay]]
    BY <1>4 DEF Calls
  <2>2. cs[c].mayDelay \in BOOLEAN
    BY DEF Calls
  <2>3. Moves(cs, c, "room")
    BY <2>1, <2>2, Moved DEF Points, Writing
  <2>. QED
    BY <1>4, <2>3, PauseKeeps DEF RoomMade
<1>5. CASE /\ ~(imm \/ l0 >= L0Stop) /\ imm' = TRUE /\ full' = FALSE
           /\ thread' = Scheduled(TRUE, manual, l0)
           /\ IF cs[c].kind = "range" THEN Answer(q, 1, cs, "ok", asleep)
                                      ELSE StartLogging(c, q, cs)
  <2>1. RoomMade
    <3>1. thread' \in {thread, "ready"}
      BY <1>5 DEF Scheduled
    <3>2. l0 < L0Stop
      BY <1>5, QueueAssumption
    <3>. QED
      BY <1>5, <3>1, <3>2 DEF RoomMade
  <2>2. CASE cs[c].kind = "range"
    BY <1>5, <2>1, <2>2, FrontAnswered
  <2>3. CASE cs[c].kind # "range"
    BY <1>5, <2>1, <2>3, StartLoggingKeeps
  <2>. QED
    BY <2>2, <2>3
<1>. QED
  BY <1>1, <1>2, <1>3, <1>4, <1>5 DEF MakeRoom

\* A step on the queue leaves the background as sound as it was.
LEMMA QueueStepKeeps ==
    ASSUME WriteInv, NEW cs, \A c \in Callers : call[c].at = "manual" => cs[c] = call[c],
           Served(cs), RoomMade, UNCHANGED <<l0, manual, open, crashed>>,
           bgError' \in BOOLEAN, bgError => bgError'
    PROVE  WriteInv'
<1>1. QueueTypeOK'
  BY DEF WriteInv, QueueTypeOK, Served, RoomMade
<1>2. ASSUME manual # None PROVE call'[manual] = call[manual] /\ call[manual].at = "manual"
  BY <1>2 DEF WriteInv, QueueTypeOK, ThreadInv, Served
<1>3. ThreadInv'
  BY <1>2 DEF WriteInv, ThreadInv, RoomMade
<1>. QED
  BY <1>1, <1>3 DEF WriteInv, Served

\* A new call goes to the end of the queue, or straight on when it is alone.
LEMMA CallKeeps ==
    ASSUME WriteInv, NEW c \in Callers, NEW k \in Uses[c], Call(c, k)
    PROVE  WriteInv'
<1>1. PICK n \in (IF k = "range" THEN 0 .. MaxPieces ELSE {0}) :
          LET cs == [call EXCEPT ![c] = [NoCall EXCEPT !.at = "queued", !.kind = k,
                                             !.mayDelay = (k # "range"), !.left = n]]
              q  == Append(queue, c)
          IN  IF queue = <<>>
              THEN MakeRoom(c, q, cs)
              ELSE /\ queue' = q /\ call' = cs /\ asleep' = asleep \cup {c}
                   /\ UNCHANGED <<group, imm, full, thread>>
  BY DEF Call
<1>2. /\ call[c].at = "idle" /\ UNCHANGED <<l0, bgError, manual, open, crashed>>
      /\ k \in {"write", "sync", "range"} /\ n \in 0 .. MaxPieces
      /\ QueueTypeOK /\ QueueInv /\ ThreadInv
  BY QueueAssumption DEF Call, WriteInv
<1>. DEFINE r  == [NoCall EXCEPT !.at = "queued", !.kind = k, !.mayDelay = (k # "range"),
                                 !.left = n]
            cs == [call EXCEPT ![c] = r]
            q  == Append(queue, c)
<1>3. r \in Calls /\ r.at = "queued" /\ r.mark = "none" /\ r.inMem = FALSE
  BY <1>2, QueueAssumption DEF NoCall, Calls, Points, Writing
<1>. HIDE DEF r
<1>4. /\ cs \in [Callers -> Calls] /\ cs[c] = r /\ \A d \in Callers \ {c} : cs[d] = call[d]
  BY <1>2, <1>3 DEF QueueTypeOK
<1>5. /\ queue \in Seq(Callers) /\ Len(queue) \in Nat
      /\ \A i \in 1 .. Len(queue) : queue[i] \in Callers \ {c}
  <2>1. queue \in Seq(Callers)
    BY <1>2 DEF QueueTypeOK
  <2>2. \A i \in 1 .. Len(queue) : queue[i] # c
    BY <1>2 DEF QueueInv, Lined, Writing
  <2>. QED
    BY <2>1, <2>2
<1>6. /\ q \in Seq(Callers) /\ q # <<>> /\ Len(q) = Len(queue) + 1 /\ q[Len(queue) + 1] = c
      /\ \A i \in 1 .. Len(queue) : q[i] = queue[i]
  BY <1>5
<1>. HIDE DEF cs, q
<1>7. Lined(q, cs)
  <2>1. \A i, j \in 1 .. Len(q) : q[i] = q[j] => i = j
    <3>1. \A i \in 1 .. Len(q) : i = Len(queue) + 1 \/ i \in 1 .. Len(queue)
      BY <1>5, <1>6
    <3>2. \A i, j \in 1 .. Len(queue) : queue[i] = queue[j] => i = j
      BY <1>2 DEF QueueInv, Lined
    <3>. QED
      BY <1>5, <1>6, <3>1, <3>2
  <2>2. ASSUME NEW d \in Callers
        PROVE  cs[d].at \in Writing <=> \E i \in 1 .. Len(q) : q[i] = d
    <3>1. CASE d = c
      <4>1. Len(queue) + 1 \in 1 .. Len(q)
        BY <1>5, <1>6
      <4>. QED
        BY <1>3, <1>4, <1>6, <3>1, <4>1 DEF Writing
    <3>2. CASE d # c
      <4>1. cs[d].at \in Writing <=> \E i \in 1 .. Len(queue) : queue[i] = d
        BY <1>2, <1>4, <3>2 DEF QueueInv, Lined
      <4>2. \A i \in 1 .. Len(q) : q[i] = d => i \in 1 .. Len(queue)
        BY <1>5, <1>6, <3>2
      <4>3. \A i \in 1 .. Len(queue) : i \in 1 .. Len(q)
        BY <1>5, <1>6
      <4>. QED
        BY <1>6, <4>1, <4>2, <4>3
    <3>. QED
      BY <3>1, <3>2
  <2>3. ASSUME NEW i \in 2 .. Len(q) PROVE cs[q[i]].at = "queued"
    <3>1. i = Len(queue) + 1 \/ i \in 2 .. Len(queue)
      BY <1>5, <1>6
    <3>2. CASE i = Len(queue) + 1
      BY <1>3, <1>4, <1>6, <3>2
    <3>3. CASE i \in 2 .. Len(queue)
      <4>1. i \in 1 .. Len(queue)
        BY <3>3, <1>5
      <4>2. call[queue[i]].at = "queued"
        BY <1>2, <3>3 DEF QueueInv, Lined
      <4>. QED
        BY <1>4, <1>5, <1>6, <4>1, <4>2
    <3>. QED
      BY <3>1, <3>2, <3>3
  <2>. QED
    BY <2>1, <2>2, <2>3 DEF Lined
<1>8. Unwritten(cs) /\ Answered(cs)
  BY <1>2, <1>3, <1>4 DEF QueueInv, Unwritten, Answered, Fresh
<1>9. \A d \in Callers : call[d].at = "manual" => cs[d] = call[d]
  BY <1>2, <1>4
<1>10. CASE queue = <<>>
  <2>1. MakeRoom(c, q, cs)
    BY <1>1, <1>10 DEF q, cs, r
  <2>2. q[1] = c
    BY <1>5, <1>6, <1>10
  <2>3. Served(cs) /\ RoomMade
    BY <1>2, <1>4, <1>6, <1>7, <1>8, <2>1, <2>2, MakeRoomKeeps DEF QueueTypeOK
  <2>. QED
    BY <1>2, <1>9, <2>3, QueueStepKeeps DEF QueueTypeOK
<1>11. CASE queue # <<>>
  <2>1. /\ queue' = q /\ call' = cs /\ asleep' = asleep \cup {c}
        /\ UNCHANGED <<group, imm, full, thread>>
    BY <1>1, <1>11 DEF q, cs, r
  <2>2. GroupSound(q, cs, group)
    <3>1. SUFFICES ASSUME NEW d \in Callers, cs[d].at = "logging"
                   PROVE  /\ group \in 1 .. Len(q)
                          /\ \A i \in 2 .. group : cs[q[i]].kind = "sync" => cs[d].kind = "sync"
      BY DEF GroupSound
    <3>2. cs[d] = call[d]
      BY <1>3, <1>4, <3>1
    <3>3. /\ group \in 1 .. Len(queue)
          /\ \A i \in 2 .. group : call[queue[i]].kind = "sync" => call[d].kind = "sync"
      BY <1>2, <3>1, <3>2 DEF QueueInv, GroupSound
    <3>4. \A i \in 2 .. group : i \in 1 .. Len(queue)
      BY <3>3
    <3>. QED
      BY <1>4, <1>5, <1>6, <3>2, <3>3, <3>4
  <2>3. Served(cs) /\ RoomMade
    BY <1>2, <1>4, <1>6, <1>7, <1>8, <2>1, <2>2
       DEF Served, RoomMade, QueueInv, QueueTypeOK, ThreadInv
  <2>. QED
    BY <1>2, <1>9, <2>3, QueueStepKeeps DEF QueueTypeOK
<1>. QED
  BY <1>10, <1>11

\* A caller that wakes up in the queue goes on if it is in front.
LEMMA GoOnKeeps ==
    ASSUME WriteInv, NEW c \in Callers, GoOn(c)
    PROVE  WriteInv'
<1>1. /\ call[c].at \in Writing /\ UNCHANGED <<l0, bgError, manual, open, crashed>>
      /\ QueueTypeOK /\ QueueInv
  BY DEF GoOn, WriteInv, Writing
<1>2. queue # <<>>
  BY <1>1 DEF QueueInv, Lined, QueueTypeOK
<1>3. CASE c = Head(queue)
  <2>1. MakeRoom(c, queue, call) /\ c = queue[1]
    BY <1>1, <1>2, <1>3 DEF GoOn, QueueTypeOK
  <2>2. Served(call) /\ RoomMade
    BY <1>1, <1>2, <2>1, MakeRoomKeeps DEF QueueTypeOK, QueueInv
  <2>. QED
    BY <1>1, <2>2, QueueStepKeeps DEF QueueTypeOK
<1>4. CASE c # Head(queue)
  <2>1. asleep' = asleep \cup {c} /\ UNCHANGED <<queue, call, group, imm, full, thread>>
    BY <1>4 DEF GoOn
  <2>2. Served(call) /\ RoomMade
    BY <1>1, <2>1 DEF Served, RoomMade, QueueInv, QueueTypeOK
  <2>. QED
    BY <1>1, <2>2, QueueStepKeeps DEF QueueTypeOK
<1>. QED
  BY <1>3, <1>4

\* The group of the leader c is ready to be answered, its calls being cs.
GroupReady(c, cs) ==
    /\ group \in 1 .. Len(queue)
    /\ cs \in [Callers -> Calls] /\ Lined(queue, cs) /\ Answered(cs)
    /\ \A i \in group + 1 .. Len(queue) : Fresh(cs[queue[i]])
    /\ \A d \in Callers : call[d].at = "manual" => cs[d] = call[d]
    /\ \A i \in 1 .. group : cs[queue[i]].kind = "sync" => call[c].kind = "sync"

LEMMA LoggedGroup ==
    ASSUME QueueTypeOK, QueueInv, NEW c \in Callers, call[c].at = "logging",
           NEW m \in {"logged", "synced"}, NEW applied \in BOOLEAN
    PROVE  /\ GroupReady(c, Logged(c, m, applied))
           /\ \A i \in 1 .. group :
                  Logged(c, m, applied)[queue[i]].kind # "range" =>
                      /\ Logged(c, m, applied)[queue[i]].mark = m
                      /\ Logged(c, m, applied)[queue[i]].inMem = applied
<1>. DEFINE cs == Logged(c, m, applied)
            members == {queue[i] : i \in 1 .. group}
<1>1. queue \in Seq(Callers) /\ call \in [Callers -> Calls] /\ Len(queue) \in Nat
      /\ \A i \in 1 .. Len(queue) : queue[i] \in Callers
  BY DEF QueueTypeOK
<1>2. c = queue[1] /\ queue # <<>>
  BY <1>1, OnlyFront DEF QueueInv, Writing
<1>3. /\ group \in 1 .. Len(queue)
      /\ \A i \in 2 .. group : call[queue[i]].kind = "sync" => call[c].kind = "sync"
  BY DEF QueueInv, GroupSound
<1>4. \A i \in 1 .. Len(queue) : Fresh(call[queue[i]]) /\ call[queue[i]].at \in Writing
  BY <1>1 DEF QueueInv, Lined, Unwritten
<1>5. \A i \in 1 .. group : i \in 1 .. Len(queue)
  BY <1>3
<1>6. \A d \in Callers :
          IF d \in members /\ call[d].kind # "range"
          THEN cs[d] = [call[d] EXCEPT !.mark = m, !.inMem = applied]
          ELSE cs[d] = call[d]
  BY DEF Logged
<1>7. \A d \in Callers : /\ cs[d] \in Calls /\ cs[d].at = call[d].at
                         /\ cs[d].kind = call[d].kind
                         /\ d \notin members => cs[d] = call[d]
  <2>1. SUFFICES ASSUME NEW d \in Callers
                 PROVE  /\ cs[d] \in Calls /\ cs[d].at = call[d].at
                        /\ cs[d].kind = call[d].kind
                        /\ d \notin members => cs[d] = call[d]
    OBVIOUS
  <2>2. call[d] \in Calls
    BY <1>1
  <2>3. [call[d] EXCEPT !.mark = m, !.inMem = applied] \in Calls
    BY <2>2 DEF Calls
  <2>. QED
    BY <1>6, <2>2, <2>3 DEF Calls
<1>8. cs \in [Callers -> Calls]
  BY <1>1, <1>7 DEF Logged
<1>9. Lined(queue, cs)
  BY <1>1, <1>7 DEF QueueInv, Lined
<1>10. \A i \in 1 .. Len(queue) : queue[i] \in members <=> i <= group
  BY <1>1, <1>3 DEF QueueInv, Lined
<1>11. \A d \in members : d \in Callers /\ call[d].at \in Writing
  BY <1>1, <1>4, <1>5
<1>12. \A d \in Callers : call[d].at \notin Writing => cs[d] = call[d]
  BY <1>7, <1>11
<1>13. Answered(cs)
  BY <1>7, <1>12 DEF QueueInv, Answered, Writing
<1>14. \A i \in group + 1 .. Len(queue) : Fresh(cs[queue[i]])
  <2>1. \A i \in group + 1 .. Len(queue) : i \in 1 .. Len(queue) /\ ~(i <= group)
    BY <1>1, <1>3
  <2>. QED
    BY <1>1, <1>4, <1>7, <1>10, <2>1
<1>15. \A i \in 1 .. group : cs[queue[i]].kind = call[queue[i]].kind
  BY <1>1, <1>5, <1>7
<1>16. \A i \in 1 .. group : i = 1 \/ i \in 2 .. group
  BY <1>3
<1>17. \A i \in 1 .. group : cs[queue[i]].kind = "sync" => call[c].kind = "sync"
  BY <1>2, <1>3, <1>15, <1>16
<1>18. ASSUME NEW i \in 1 .. group, cs[queue[i]].kind # "range"
       PROVE  cs[queue[i]].mark = m /\ cs[queue[i]].inMem = applied
  <2>1. queue[i] \in members /\ queue[i] \in Callers /\ call[queue[i]] \in Calls
    BY <1>1, <1>5
  <2>2. cs[queue[i]] = [call[queue[i]] EXCEPT !.mark = m, !.inMem = applied]
    BY <1>6, <1>15, <1>18, <2>1
  <2>. QED
    BY <2>1, <2>2 DEF Calls
<1>19. \A d \in Callers : call[d].at = "manual" => cs[d] = call[d]
  BY <1>12 DEF Writing
<1>. QED
  BY <1>3, <1>8, <1>9, <1>13, <1>14, <1>17, <1>18, <1>19 DEF GroupReady

LEMMA UnloggedGroup ==
    ASSUME QueueTypeOK, QueueInv, NEW c \in Callers, call[c].at = "logging"
    PROVE  GroupReady(c, call) /\ \A i \in 1 .. group : Fresh(call[queue[i]])
<1>1. queue \in Seq(Callers) /\ call \in [Callers -> Calls] /\ Len(queue) \in Nat
      /\ \A i \in 1 .. Len(queue) : queue[i] \in Callers
  BY DEF QueueTypeOK
<1>2. c = queue[1]
  BY <1>1, OnlyFront DEF QueueInv, Writing
<1>3. /\ group \in 1 .. Len(queue)
      /\ \A i \in 2 .. group : call[queue[i]].kind = "sync" => call[c].kind = "sync"
  BY DEF QueueInv, GroupSound
<1>4. \A i \in 1 .. Len(queue) : Fresh(call[queue[i]])
  BY <1>1 DEF QueueInv, Lined, Unwritten
<1>5. \A i \in 1 .. group : i \in 1 .. Len(queue) /\ (i = 1 \/ i \in 2 .. group)
  BY <1>3
<1>6. \A i \in group + 1 .. Len(queue) : i \in 1 .. Len(queue)
  BY <1>3
<1>. QED
  BY <1>1, <1>2, <1>3, <1>4, <1>5, <1>6 DEF QueueInv, GroupReady

\* The leader has logged, or failed to, and answers its group.
LEMMA EndLoggingKeeps ==
    ASSUME WriteInv, NEW c \in Callers, EndLogging(c)
    PROVE  WriteInv'
<1>1. /\ call[c].at = "logging" /\ QueueTypeOK /\ QueueInv /\ asleep \subseteq Callers
      /\ UNCHANGED <<imm, l0, thread, manual, open, crashed>>
      /\ queue \in Seq(Callers)
  BY DEF EndLogging, WriteInv, QueueTypeOK
<1>5. PICK m \in {"logged", "synced"} : m = IF call[c].kind = "sync" THEN "synced" ELSE "logged"
  OBVIOUS
<1>2. CASE /\ Answer(queue, group, Logged(c, m, TRUE), "ok", asleep)
           /\ full' \in BOOLEAN /\ UNCHANGED bgError
  <2>. DEFINE a == TRUE
              cs == Logged(c, m, a)
  <2>1. a \in BOOLEAN
    OBVIOUS
  <2>7. a = TRUE /\ (call[c].kind = "sync" => m = "synced")
    BY <1>5
  <2>2. Answer(queue, group, cs, "ok", asleep)
    BY <1>2
  <2>. HIDE DEF a, cs
  <2>3. /\ GroupReady(c, cs)
        /\ \A i \in 1 .. group : cs[queue[i]].kind # "range" =>
               cs[queue[i]].mark = m /\ cs[queue[i]].inMem = a
    BY <1>1, <2>1, LoggedGroup DEF cs
  <2>4. \A i \in 1 .. group : Truth(cs[queue[i]], "ok")
    BY <2>7, <2>3 DEF GroupReady, Truth
  <2>5. Served(cs)
    BY <1>1, <2>2, <2>3, <2>4, AnswerKeeps DEF GroupReady, Served
  <2>6. RoomMade /\ bgError' \in BOOLEAN
    BY <1>1, <1>2 DEF RoomMade, QueueTypeOK
  <2>. QED
    BY <1>1, <1>2, <2>3, <2>5, <2>6, QueueStepKeeps DEF GroupReady
<1>3. CASE Answer(queue, group, call, "error", asleep) /\ UNCHANGED <<full, bgError>>
  <2>1. GroupReady(c, call) /\ \A i \in 1 .. group : Fresh(call[queue[i]])
    BY <1>1, UnloggedGroup
  <2>2. \A i \in 1 .. group : Truth(call[queue[i]], "error")
    BY <2>1 DEF Truth, Fresh
  <2>3. Served(call)
    BY <1>1, <1>3, <2>1, <2>2, AnswerKeeps DEF GroupReady, Served
  <2>4. RoomMade /\ bgError' \in BOOLEAN
    BY <1>1, <1>3 DEF RoomMade, QueueTypeOK
  <2>. QED
    BY <1>1, <1>3, <2>3, <2>4, QueueStepKeeps
<1>4. CASE /\ bgError' = TRUE /\ UNCHANGED full
           /\ Answer(queue, group, Logged(c, "logged", FALSE), "error",
                     IF bgError THEN asleep ELSE Roused(call, asleep))
  <2>. DEFINE a  == FALSE
              cs == Logged(c, "logged", a)
              sl == IF bgError THEN asleep ELSE Roused(call, asleep)
  <2>1. /\ "logged" \in {"logged", "synced"} /\ a \in BOOLEAN /\ ~a
        /\ cs = Logged(c, "logged", a)
    OBVIOUS
  <2>2. Answer(queue, group, cs, "error", sl)
    BY <1>4
  <2>3. sl \in SUBSET Callers
    BY <1>1 DEF Roused
  <2>. HIDE DEF a, cs, sl
  <2>4. /\ GroupReady(c, cs)
        /\ \A i \in 1 .. group : cs[queue[i]].kind # "range" =>
               cs[queue[i]].mark = "logged" /\ cs[queue[i]].inMem = a
    BY <1>1, <2>1, LoggedGroup DEF cs
  <2>5. \A i \in 1 .. group : Truth(cs[queue[i]], "error")
    BY <2>1, <2>4 DEF Truth
  <2>6. Served(cs)
    BY <1>1, <2>2, <2>3, <2>4, <2>5, AnswerKeeps DEF GroupReady, Served
  <2>7. RoomMade /\ bgError' \in BOOLEAN
    BY <1>1, <1>4 DEF RoomMade, QueueTypeOK
  <2>. QED
    BY <1>1, <1>4, <2>4, <2>6, <2>7, QueueStepKeeps DEF GroupReady
<1>. QED
  BY <1>2, <1>3, <1>4, <1>5 DEF EndLogging

-----------------------------------------------------------------------------
(* The other calls and the background. *)

\* A step that changes no write keeps what holds of the queue.
LEMMA OutsideQueue ==
    ASSUME QueueInv, UNCHANGED <<queue, group>>,
           \A c \in Callers :
               \/ /\ call'[c].at = call[c].at /\ call'[c].kind = call[c].kind
                  /\ call'[c].mark = call[c].mark /\ call'[c].inMem = call[c].inMem
                  /\ call'[c].answer = call[c].answer
               \/ /\ call[c].at \in Waits /\ call'[c].at \in Waits \ {"room"}
               \/ /\ call[c].at \in Waits \ {"room"} /\ call'[c].at = "idle"
                  /\ call'[c].kind = "range",
           \A c \in Callers : call[c].at = "room" => call'[c].at = "room",
           queue \in Seq(Callers)
    PROVE  QueueInv'
<1>1. \A c \in Callers : call'[c].at \in Writing <=> call[c].at \in Writing
  BY DEF Waits, Writing
<1>2. \A c \in Callers : call[c].at \in Writing =>
          /\ call'[c].at = call[c].at /\ call'[c].kind = call[c].kind
          /\ call'[c].mark = call[c].mark /\ call'[c].inMem = call[c].inMem
  BY DEF Waits, Writing
<1>3. \A i \in 1 .. Len(queue) : queue[i] \in Callers /\ call[queue[i]].at \in Writing
  BY DEF QueueInv, Lined
<1>4. \A i \in 2 .. Len(queue) : i \in 1 .. Len(queue)
  OBVIOUS
<1>5. Lined(queue, call)'
  BY <1>1, <1>2, <1>3, <1>4 DEF QueueInv, Lined
<1>6. Unwritten(call)'
  BY <1>1, <1>2 DEF QueueInv, Unwritten, Fresh
<1>7. Answered(call)'
  BY DEF QueueInv, Answered, Truth, Waits
<1>8. GroupSound(queue, call, group)'
  <2>1. SUFFICES ASSUME NEW c \in Callers, call'[c].at = "logging"
                 PROVE  /\ group \in 1 .. Len(queue)
                        /\ \A i \in 2 .. group :
                               call'[queue[i]].kind = "sync" => call'[c].kind = "sync"
    BY DEF GroupSound
  <2>2. call[c].at = "logging" /\ call'[c].kind = call[c].kind
    BY <1>2, <2>1 DEF Waits, Writing
  <2>3. /\ group \in 1 .. Len(queue)
        /\ \A i \in 2 .. group : call[queue[i]].kind = "sync" => call[c].kind = "sync"
    BY <2>2 DEF QueueInv, GroupSound
  <2>4. \A i \in 2 .. group : i \in 1 .. Len(queue)
    BY <2>3
  <2>. QED
    BY <1>2, <1>3, <2>2, <2>3, <2>4
<1>. QED
  BY <1>5, <1>6, <1>7, <1>8 DEF QueueInv

\* A CompactRange after its flush.
LEMMA AtFlushKeeps ==
    ASSUME WriteInv, NEW c \in Callers, AtFlush(c)
    PROVE  WriteInv'
<1>1. /\ UNCHANGED <<queue, group, imm, full, l0, bgError, thread, manual, open, crashed>>
      /\ call[c].at = "flush" /\ QueueTypeOK /\ QueueInv /\ ThreadInv
      /\ asleep' \in {asleep, asleep \cup {c}}
  BY DEF AtFlush, WriteInv
<1>2. call[c] \in Calls /\ call \in [Callers -> Calls]
  BY <1>1 DEF QueueTypeOK
<1>3. CASE call' = call
  BY <1>1, <1>3 DEF WriteInv, QueueTypeOK, QueueInv, ThreadInv
<1>4. CASE call' = [call EXCEPT ![c].at = "manual"]
  <2>1. call'[c] = [call[c] EXCEPT !.at = "manual"] /\ \A d \in Callers \ {c} : call'[d] = call[d]
    BY <1>2, <1>4
  <2>2. /\ call'[c] \in Calls /\ call'[c].at = "manual" /\ call'[c].left = call[c].left
    BY <1>2, <2>1 DEF Calls, Points, Waits
  <2>3. call' \in [Callers -> Calls]
    BY <1>2, <1>4, <2>1, <2>2
  <2>4. QueueTypeOK'
    BY <1>1, <2>3 DEF QueueTypeOK
  <2>5. \A d \in Callers : call[d].at = "room" => call'[d].at = "room"
    BY <1>1, <2>1
  <2>6. QueueInv'
    BY <1>1, <2>1, <2>2, <2>5, OutsideQueue DEF QueueTypeOK, Waits
  <2>7. ThreadInv'
    BY <1>1, <2>1, <2>2 DEF QueueTypeOK, ThreadInv
  <2>. QED
    BY <2>4, <2>6, <2>7 DEF WriteInv
<1>. QED
  BY <1>3, <1>4 DEF AtFlush

\* A CompactRange claims manual_compaction_, waits, or ends.
LEMMA AtManualKeeps ==
    ASSUME WriteInv, NEW c \in Callers, AtManual(c)
    PROVE  WriteInv'
<1>1. /\ UNCHANGED <<queue, group, imm, full, l0, bgError, open, crashed>>
      /\ call[c].at = "manual" /\ QueueTypeOK /\ QueueInv /\ ThreadInv
      /\ call \in [Callers -> Calls]
  BY DEF AtManual, WriteInv, QueueTypeOK
<1>2. CASE call[c].done \/ bgError
  <2>. DEFINE r == [NoCall EXCEPT !.kind = "range"]
  <2>1. call' = [call EXCEPT ![c] = r] /\ manual' = Cancelled(c) /\ UNCHANGED <<asleep, thread>>
    BY <1>2 DEF AtManual
  <2>2. r \in Calls /\ r.at = "idle" /\ r.kind = "range"
    <3>1. 0 \in 0 .. MaxPieces /\ "idle" \in Points
      BY QueueAssumption DEF Points
    <3>. QED
      BY <3>1 DEF NoCall, Calls
  <2>. HIDE DEF r
  <2>3. call'[c] = r /\ (\A d \in Callers \ {c} : call'[d] = call[d]) /\ call' \in [Callers -> Calls]
    BY <1>1, <2>1, <2>2
  <2>4. manual' \in {manual, None} /\ manual' # c
    BY QueueAssumption, <2>1 DEF Cancelled
  <2>5. QueueTypeOK'
    BY <1>1, <2>1, <2>3, <2>4 DEF QueueTypeOK
  <2>6. QueueInv'
    BY <1>1, <2>2, <2>3, OutsideQueue DEF QueueTypeOK, Waits
  <2>7. ThreadInv'
    <3>1. manual = c \/ manual' = manual
      BY <2>1 DEF Cancelled
    <3>2. manual' # None => manual' = manual /\ manual' \in Callers \ {c}
      BY <1>1, <2>4 DEF QueueTypeOK
    <3>3. ASSUME thread = "byhand", manual' = None PROVE bgError
      <4>1. CASE manual = None
        BY <1>1, <3>3, <4>1 DEF ThreadInv
      <4>2. CASE manual = c
        BY <1>1, <1>2, <4>2, QueueAssumption DEF ThreadInv
      <4>. QED
        BY <3>1, <3>3, <4>1, <4>2
    <3>. QED
      BY <1>1, <2>1, <2>3, <3>2, <3>3 DEF ThreadInv
  <2>. QED
    BY <2>5, <2>6, <2>7 DEF WriteInv
<1>3. CASE ~(call[c].done \/ bgError)
  <2>1. /\ manual' = IF manual = None THEN c ELSE manual
        /\ thread' = IF manual = None THEN Scheduled(imm, c, l0) ELSE thread
        /\ asleep' = asleep \cup {c} /\ UNCHANGED call
    BY <1>3 DEF AtManual
  <2>2. thread' \in {thread, "ready"}
    BY <2>1 DEF Scheduled
  <2>3. QueueTypeOK' /\ QueueInv'
    BY <1>1, <2>1, <2>2 DEF QueueTypeOK, QueueInv
  <2>4. ThreadInv'
    BY <1>1, <1>3, <2>1, <2>2 DEF ThreadInv
  <2>. QED
    BY <2>3, <2>4 DEF WriteInv
<1>. QED
  BY <1>2, <1>3

LEMMA CloseKeeps ==
    ASSUME WriteInv, Close
    PROVE  WriteInv'
BY DEF WriteInv, QueueTypeOK, QueueInv, ThreadInv, Close

\* The end of BackgroundCall, whatever the thread has done before.
LEMMA BackgroundEnds ==
    ASSUME WriteInv, call' \in [Callers -> Calls], QueueInv',
           NEW flush \in BOOLEAN, flush => imm,
           NEW byHand \in {None, manual},
           byHand # None => call'[byHand].at = "manual" /\ ~call'[byHand].done,
           NEW files \in 0 .. L0Stop, flush => files < L0Stop,
           NEW error \in BOOLEAN, bgError => error,
           EndBackgroundCall(flush, byHand, files, error),
           UNCHANGED <<queue, group, full, open, crashed>>
    PROVE  WriteInv'
<1>1. /\ imm' = flush /\ manual' = byHand /\ l0' = files /\ bgError' = error
      /\ thread' \in {"ready", "off"} /\ asleep' \in SUBSET Callers
  BY DEF EndBackgroundCall, Roused, WriteInv, QueueTypeOK
<1>2. QueueTypeOK'
  BY <1>1 DEF WriteInv, QueueTypeOK
<1>3. ThreadInv'
  BY <1>1 DEF WriteInv, ThreadInv
<1>. QED
  BY <1>2, <1>3 DEF WriteInv

\* Only manual_compaction_ learns something of its call.
LEMMA ManualLearns ==
    ASSUME WriteInv, manual # None, UNCHANGED <<queue, group>>, NEW n \in 0 .. MaxPieces,
           \/ call' = [call EXCEPT ![manual].done = TRUE]
           \/ call' = [call EXCEPT ![manual].left = n]
    PROVE  call' \in [Callers -> Calls] /\ QueueInv'
<1>1. /\ manual \in Callers /\ call \in [Callers -> Calls] /\ call[manual].at = "manual"
      /\ call[manual] \in Calls /\ QueueInv /\ queue \in Seq(Callers)
  BY DEF WriteInv, QueueTypeOK, ThreadInv
<1>2. \/ call'[manual] = [call[manual] EXCEPT !.done = TRUE]
      \/ call'[manual] = [call[manual] EXCEPT !.left = n]
  BY <1>1
<1>3. /\ call'[manual] \in Calls /\ call'[manual].at = call[manual].at
      /\ call'[manual].kind = call[manual].kind /\ call'[manual].mark = call[manual].mark
      /\ call'[manual].inMem = call[manual].inMem /\ call'[manual].answer = call[manual].answer
  BY <1>1, <1>2 DEF Calls
<1>4. \A c \in Callers \ {manual} : call'[c] = call[c]
  BY <1>1
<1>5. call' \in [Callers -> Calls]
  BY <1>1, <1>3, <1>4
<1>6. \A c \in Callers :
          /\ call'[c].at = call[c].at /\ call'[c].kind = call[c].kind
          /\ call'[c].mark = call[c].mark /\ call'[c].inMem = call[c].inMem
          /\ call'[c].answer = call[c].answer
  BY <1>3, <1>4
<1>7. QueueInv'
  BY <1>1, <1>6, OutsideQueue
<1>. QED
  BY <1>5, <1>7

\* When the thread leaves the calls alone.
LEMMA CallsUntouched ==
    ASSUME WriteInv, UNCHANGED <<queue, call, group>>
    PROVE  /\ call' \in [Callers -> Calls] /\ QueueInv'
           /\ manual # None => call'[manual].at = "manual" /\ ~call'[manual].done
BY DEF WriteInv, QueueTypeOK, QueueInv, ThreadInv

LEMMA ThreadStartsKeeps ==
    ASSUME WriteInv, ThreadStarts
    PROVE  WriteInv'
<1>. DEFINE byHand == ~imm /\ manual # None
            over   == IF byHand THEN call[manual].left = 0 ELSE ~imm /\ l0 < L0Trigger
<1>1. /\ thread = "ready" /\ UNCHANGED <<queue, group, full, open, crashed>>
      /\ QueueTypeOK /\ QueueInv /\ ThreadInv /\ bgError \in BOOLEAN /\ imm \in BOOLEAN
      /\ l0 \in 0 .. L0Stop /\ (imm => l0 < L0Stop)
  BY DEF ThreadStarts, WriteInv, QueueTypeOK, ThreadInv
<1>2. CASE EndBackgroundCall(imm, manual, l0, bgError) /\ UNCHANGED call
  BY <1>1, <1>2, CallsUntouched, BackgroundEnds
<1>3. CASE /\ ~over /\ UNCHANGED <<call, asleep, imm, l0, bgError, manual>>
           /\ thread' = IF imm THEN "flushing" ELSE IF byHand THEN "byhand" ELSE "merging"
  <2>1. QueueTypeOK' /\ QueueInv'
    BY <1>1, <1>3 DEF QueueTypeOK, QueueInv
  <2>2. thread' = "byhand" => manual # None /\ call[manual].left # 0
    BY <1>3
  <2>3. manual # None => call[manual].left \in 0 .. MaxPieces
    BY <1>1 DEF QueueTypeOK, Calls
  <2>4. thread' = "byhand" => manual # None /\ call[manual].left > 0
    BY <2>2, <2>3, QueueAssumption
  <2>5. thread' = "flushing" => imm
    BY <1>3
  <2>6. ThreadInv'
    BY <1>1, <1>3, <2>4, <2>5 DEF ThreadInv
  <2>. QED
    BY <2>1, <2>6 DEF WriteInv
<1>4. CASE /\ over /\ EndBackgroundCall(imm, None, l0, bgError)
           /\ call' = IF byHand THEN [call EXCEPT ![manual].done = TRUE] ELSE call
  <2>1. call' \in [Callers -> Calls] /\ QueueInv'
    <3>1. CASE byHand
      <4>1. manual # None /\ 0 \in 0 .. MaxPieces
        BY <3>1, QueueAssumption
      <4>2. call' = [call EXCEPT ![manual].done = TRUE]
        BY <1>4, <3>1
      <4>. HIDE DEF byHand
      <4>. QED
        BY <1>1, <4>1, <4>2, ManualLearns
    <3>2. CASE ~byHand
      BY <1>1, <1>4, <3>2, CallsUntouched
    <3>. QED
      BY <3>1, <3>2
  <2>. QED
    BY <1>1, <1>4, <2>1, BackgroundEnds
<1>. QED
  BY <1>2, <1>3, <1>4 DEF ThreadStarts

LEMMA FlushEndsKeeps ==
    ASSUME WriteInv, FlushEnds
    PROVE  WriteInv'
<1>1. /\ UNCHANGED <<queue, call, group, full, open, crashed>> /\ thread = "flushing"
      /\ bgError \in BOOLEAN /\ imm \in BOOLEAN /\ l0 \in 0 .. L0Stop
      /\ imm /\ l0 < L0Stop /\ manual \in {None, manual} /\ L0Stop \in Nat
  BY QueueAssumption DEF FlushEnds, WriteInv, QueueTypeOK, ThreadInv
<1>2. ASSUME NEW n \in {l0, l0 + 1}, EndBackgroundCall(FALSE, manual, n, bgError)
      PROVE  WriteInv'
  <2>1. n \in 0 .. L0Stop
    BY <1>1
  <2>. QED
    BY <1>1, <1>2, <2>1, CallsUntouched, BackgroundEnds
<1>3. CASE EndBackgroundCall(imm, manual, l0, TRUE)
  BY <1>1, <1>3, CallsUntouched, BackgroundEnds
<1>. QED
  BY <1>2, <1>3 DEF FlushEnds

LEMMA FlushWhileMergingKeeps ==
    ASSUME WriteInv, FlushWhileMerging
    PROVE  WriteInv'
<1>1. /\ UNCHANGED <<queue, call, group, full, thread, manual, open, crashed>>
      /\ thread \in {"merging", "byhand"} /\ imm /\ asleep' = Roused(call, asleep)
      /\ imm' \in BOOLEAN /\ l0' \in {l0, l0 + 1} /\ (imm' => l0' = l0)
      /\ bgError' \in BOOLEAN /\ (bgError => bgError')
  <2>1. imm \in BOOLEAN /\ bgError \in BOOLEAN
    BY DEF WriteInv, QueueTypeOK
  <2>2. \/ imm' = FALSE /\ l0' \in {l0, l0 + 1} /\ bgError' = bgError
        \/ bgError' = TRUE /\ imm' = imm /\ l0' = l0
    BY DEF FlushWhileMerging
  <2>3. imm' \in BOOLEAN /\ l0' \in {l0, l0 + 1} /\ bgError' \in BOOLEAN
    BY <2>1, <2>2
  <2>4. (imm' => l0' = l0) /\ (bgError => bgError')
    BY <2>2
  <2>. QED
    BY <2>3, <2>4 DEF FlushWhileMerging
<1>2. l0 \in 0 .. L0Stop /\ l0 < L0Stop /\ L0Stop \in Nat
  BY <1>1, QueueAssumption DEF WriteInv, QueueTypeOK, ThreadInv
<1>3. l0' \in 0 .. L0Stop /\ (imm' => l0' < L0Stop)
  BY <1>1, <1>2
<1>4. asleep' \subseteq Callers
  BY <1>1 DEF Roused, WriteInv, QueueTypeOK
<1>5. QueueTypeOK'
  BY <1>1, <1>3, <1>4 DEF WriteInv, QueueTypeOK
<1>6. ThreadInv'
  BY <1>1, <1>3 DEF WriteInv, ThreadInv
<1>7. QueueInv'
  BY <1>1 DEF WriteInv, QueueInv
<1>. QED
  BY <1>5, <1>6, <1>7 DEF WriteInv

LEMMA MergeEndsKeeps ==
    ASSUME WriteInv, MergeEnds
    PROVE  WriteInv'
<1>1. /\ UNCHANGED <<queue, call, group, full, open, crashed>>
      /\ bgError \in BOOLEAN /\ imm \in BOOLEAN /\ l0 \in 0 .. L0Stop
      /\ (imm => l0 < L0Stop) /\ L0Stop \in Nat
  BY QueueAssumption DEF MergeEnds, WriteInv, QueueTypeOK, ThreadInv
<1>2. ASSUME NEW n \in 0 .. (l0 - 1), EndBackgroundCall(imm, manual, n, bgError)
      PROVE  WriteInv'
  <2>1. n \in 0 .. L0Stop /\ n < L0Stop
    BY <1>1
  <2>. QED
    BY <1>1, <1>2, <2>1, CallsUntouched, BackgroundEnds
<1>3. CASE EndBackgroundCall(imm, manual, l0, TRUE)
  BY <1>1, <1>3, CallsUntouched, BackgroundEnds
<1>. QED
  BY <1>2, <1>3 DEF MergeEnds

LEMMA ManualMergeEndsKeeps ==
    ASSUME WriteInv, ManualMergeEnds
    PROVE  WriteInv'
<1>1. /\ UNCHANGED <<queue, group, full, open>> /\ thread = "byhand"
      /\ QueueTypeOK /\ QueueInv /\ ThreadInv
      /\ bgError \in BOOLEAN /\ imm \in BOOLEAN /\ l0 \in 0 .. L0Stop
      /\ (imm => l0 < L0Stop) /\ L0Stop \in Nat
  BY QueueAssumption DEF ManualMergeEnds, WriteInv, QueueTypeOK, ThreadInv
<1>2. CASE /\ manual = None /\ crashed' = TRUE
           /\ UNCHANGED <<call, asleep, imm, l0, bgError, thread, manual>>
  <2>1. bgError
    BY <1>1, <1>2 DEF ThreadInv
  <2>. QED
    BY <1>1, <1>2, <2>1 DEF WriteInv, QueueTypeOK, QueueInv, ThreadInv
<1>3. ASSUME manual # None, UNCHANGED crashed, NEW n \in 0 .. l0,
             call' = [call EXCEPT ![manual].left = @ - 1],
             EndBackgroundCall(imm, None, n, bgError)
      PROVE  WriteInv'
  <2>1. manual \in Callers /\ call[manual].left \in 0 .. MaxPieces /\ call[manual].left > 0
    BY <1>1, <1>3 DEF QueueTypeOK, ThreadInv, Calls
  <2>2. PICK p \in 0 .. MaxPieces : p = call[manual].left - 1
    BY <2>1, QueueAssumption
  <2>3. call' = [call EXCEPT ![manual].left = p]
    BY <1>1, <1>3, <2>1, <2>2 DEF QueueTypeOK
  <2>4. call' \in [Callers -> Calls] /\ QueueInv'
    BY <1>1, <1>3, <2>3, ManualLearns
  <2>5. n \in 0 .. L0Stop /\ (imm => n < L0Stop)
    BY <1>1
  <2>. QED
    BY <1>1, <1>3, <2>4, <2>5, BackgroundEnds
<1>4. CASE /\ manual # None /\ UNCHANGED crashed
           /\ call' = [call EXCEPT ![manual].done = TRUE]
           /\ EndBackgroundCall(imm, None, l0, TRUE)
  <2>1. 0 \in 0 .. MaxPieces
    BY QueueAssumption
  <2>2. call' \in [Callers -> Calls] /\ QueueInv'
    BY <1>1, <1>4, <2>1, ManualLearns
  <2>. QED
    BY <1>1, <1>4, <2>2, BackgroundEnds
<1>. QED
  BY <1>2, <1>3, <1>4 DEF ManualMergeEnds

-----------------------------------------------------------------------------
(* The theorems. *)

LEMMA InitEstablishesWriteInv == QueueInit => WriteInv
<1>1. SUFFICES ASSUME QueueInit PROVE WriteInv
  OBVIOUS
<1>2. NoCall \in Calls /\ NoCall.at = "idle" /\ NoCall.answer = "none" /\ ~NoCall.inMem
  <2>1. 0 \in 0 .. MaxPieces /\ "idle" \in Points
    BY QueueAssumption DEF Points
  <2>. QED
    BY <2>1 DEF NoCall, Calls
<1>3. call \in [Callers -> Calls] /\ \A c \in Callers : call[c] = NoCall
  BY <1>1, <1>2 DEF QueueInit
<1>4. QueueTypeOK
  <2>1. queue \in Seq(Callers) /\ asleep \subseteq Callers /\ 0 \in 0 .. L0Stop
    BY <1>1, QueueAssumption DEF QueueInit
  <2>. QED
    BY <1>1, <1>3, <2>1 DEF QueueInit, QueueTypeOK
<1>5. QueueInv
  <2>1. Len(queue) = 0
    BY <1>1 DEF QueueInit
  <2>2. Lined(queue, call)
    BY <1>2, <1>3, <2>1 DEF Lined, Writing
  <2>. QED
    BY <1>2, <1>3, <2>2 DEF QueueInv, Unwritten, Answered, Truth, GroupSound, Writing
<1>6. ThreadInv
  BY <1>1 DEF QueueInit, ThreadInv
<1>. QED
  BY <1>4, <1>5, <1>6 DEF WriteInv

LEMMA StepKeepsWriteInv == WriteInv /\ [QueueNext]_queueVars => WriteInv'
<1>1. SUFFICES ASSUME WriteInv, [QueueNext]_queueVars PROVE WriteInv'
  OBVIOUS
<1>2. CASE UNCHANGED queueVars
  BY <1>1, <1>2 DEF queueVars, WriteInv, QueueTypeOK, QueueInv, ThreadInv
<1>3. ASSUME NEW c \in Callers, NEW k \in Uses[c], Call(c, k) PROVE WriteInv'
  BY <1>1, <1>3, CallKeeps
<1>4. ASSUME NEW c \in Callers,
             GoOn(c) \/ EndLogging(c) \/ AtFlush(c) \/ AtManual(c)
      PROVE  WriteInv'
  BY <1>1, <1>4, GoOnKeeps, EndLoggingKeeps, AtFlushKeeps, AtManualKeeps
<1>5. CASE Close \/ ThreadStarts \/ FlushEnds \/ FlushWhileMerging \/ MergeEnds
           \/ ManualMergeEnds
  BY <1>1, <1>5, CloseKeeps, ThreadStartsKeeps, FlushEndsKeeps, FlushWhileMergingKeeps,
     MergeEndsKeeps, ManualMergeEndsKeeps
<1>. QED
  BY <1>1, <1>2, <1>3, <1>4, <1>5 DEF QueueNext

\* The inductive invariant holds throughout.
THEOREM WriteInvariant == QueueSpec => []WriteInv
<1>. QED
  BY InitEstablishesWriteInv, StepKeepsWriteInv, PTL DEF QueueSpec

\* The state of the write queue is well typed (db_impl.h:132-178): no count of
\* files or pieces leaves its range.
THEOREM QueueTypes == QueueSpec => []QueueTypeOK
<1>1. WriteInv => QueueTypeOK
  BY DEF WriteInv
<1>. QED
  BY <1>1, WriteInvariant, PTL

\* However many callers write, what Write tells each of them is true, also when
\* another caller logged for it (db_impl.cc:1188-1265).
THEOREM EveryAnswerIsTrue == QueueSpec => []AnswersAreTrue
<1>1. WriteInv => AnswersAreTrue
  <2>1. SUFFICES ASSUME WriteInv, NEW c \in Callers, call[c].at = "idle", call[c].kind # "range"
                 PROVE  CASE call[c].answer = "ok" ->
                                 /\ call[c].inMem /\ call[c].mark # "none"
                                 /\ call[c].kind = "sync" => call[c].mark = "synced"
                          [] OTHER -> ~call[c].inMem
    BY DEF AnswersAreTrue
  <2>2. Truth(call[c], call[c].answer)
    BY <2>1 DEF WriteInv, QueueInv, Answered
  <2>. QED
    BY <2>1, <2>2 DEF Truth
<1>. QED
  BY <1>1, WriteInvariant, PTL

\* Only the caller in front of writers_ is past the queue, and its group is still
\* queued behind it (db_impl.cc:1200-1262).
THEOREM OneLeaderOnly == QueueSpec => []OneLeader
<1>1. WriteInv => OneLeader
  <2>1. SUFFICES ASSUME WriteInv, NEW c \in Callers,
                        call[c].at \in {"delayed", "room", "logging"}
                 PROVE  /\ queue # <<>> /\ c = Head(queue)
                        /\ call[c].at = "logging" => group \in 1 .. Len(queue)
    BY DEF OneLeader
  <2>2. queue \in Seq(Callers) /\ Lined(queue, call) /\ GroupSound(queue, call, group)
    BY <2>1 DEF WriteInv, QueueTypeOK, QueueInv
  <2>3. queue # <<>> /\ c = queue[1]
    BY <2>1, <2>2, OnlyFront DEF Writing
  <2>. QED
    BY <2>2, <2>3 DEF GroupSound
<1>. QED
  BY <1>1, WriteInvariant, PTL

\* A running manual compaction finds manual_compaction_ NULL only after a
\* background error (db_impl.cc:607-618, 756-767).
THEOREM CancelNeedsError == QueueSpec => []OnlyErrorsCancel
<1>1. WriteInv => OnlyErrorsCancel
  BY DEF WriteInv, ThreadInv, OnlyErrorsCancel
<1>. QED
  BY <1>1, WriteInvariant, PTL

-----------------------------------------------------------------------------
(* The log. *)

-----------------------------------------------------------------------------
(* The invariant of a file. *)

\* Where the blocks of a file begin.
Starts == {q * BlockSize : q \in Nat}

Chunk ==
    [at : Nat, len : Nat, type : {"full", "first", "middle", "last"},
     rec : Nat \ {0}, part : Nat \ {0}, whole : BOOLEAN]

Fragments == [rec : Nat \ {0}, left : Nat, part : Nat \ {0}]

Slots == DOMAIN chunks

LogType ==
    /\ chunks \in Seq(Chunk) /\ fileLen \in Nat /\ blockOffset \in 0 .. BlockSize
    /\ unwritten = <<>> \/ (unwritten = <<unwritten[1]>> /\ unwritten[1] \in Fragments)
    /\ records \in Seq({"open", "written", "failed"}) /\ Len(records) <= MaxRecords
    /\ shaken \in Nat /\ (shaken <= Len(records) \/ shaken = MaxRecords + 1)
    /\ badBytes \subseteq Nat
    /\ bufEnd \in Int /\ bufEnd >= -1 /\ bufPos \in Nat

Ends(i) == chunks[i].type \in {"full", "last"}

\* The fragments of a record are next to each other, in the order of their parts,
\* and after its last one, or one of which bytes are missing, there are no more.
PartsOK ==
    /\ \A i \in Slots : chunks[i].rec <= Len(records)
    /\ \A i \in Slots : \A m \in 1 .. i :
           /\ chunks[m].rec <= chunks[i].rec
           /\ chunks[m].rec = chunks[i].rec <=> m > i - chunks[i].part
           /\ chunks[m].rec = chunks[i].rec => chunks[m].part = chunks[i].part - (i - m)
    /\ \A i \in Slots : chunks[i].part <= i
    /\ \A i \in Slots : chunks[i].part = 1 <=> chunks[i].type \in {"full", "first"}
    /\ \A i, m \in Slots : i < m /\ (Ends(i) \/ ~chunks[i].whole) => chunks[i].rec < chunks[m].rec
    /\ \A r \in 1 .. Len(records) : records[r] = "written" => \E i \in Slots : chunks[i].rec = r /\ Ends(i)

\* The record being written is the last, and its fragments so far are.
WritingOK ==
    unwritten # <<>> =>
        LET p == unwritten[1]
            n == Len(chunks)
        IN  /\ bufEnd = -1 /\ p.rec = Len(records) /\ records[p.rec] = "open"
            /\ IF p.part = 1 THEN \A i \in Slots : chunks[i].rec < p.rec
               ELSE /\ n > 0 /\ chunks[n].rec = p.rec /\ chunks[n].part = p.part - 1
                    /\ chunks[n].whole /\ ~Ends(n)

\* Fragments do not overlap.
LayoutOK ==
    /\ \A i, m \in Slots : i < m => /\ chunks[i].at <= chunks[m].at
                                    /\ chunks[i].whole => EndOf(i) <= chunks[m].at
    /\ bufEnd = -1 => \A i \in Slots : /\ chunks[i].at <= fileLen
                                       /\ chunks[i].whole => EndOf(i) <= fileLen

\* Before the first short write a fragment is in one block, a, whose first byte is
\* that of a fragment, and the next one comes after the trailer, if there is one.
Laid(i, a) ==
    /\ a \in Starts /\ a <= chunks[i].at /\ EndOf(i) <= a + BlockSize
    /\ \E m \in 1 .. i : chunks[m].at = a
    /\ i + 1 \in Slots /\ chunks[i + 1].rec < shaken =>
           chunks[i + 1].at = IF a + BlockSize - EndOf(i) < HeaderSize THEN a + BlockSize ELSE EndOf(i)

AlignOK ==
    /\ \A i \in Slots : chunks[i].rec < shaken => chunks[i].whole /\ \E a \in Starts : Laid(i, a)
    /\ bufEnd = -1 /\ Len(records) < shaken =>
           IF chunks = <<>> THEN fileLen = 0 /\ blockOffset = 0
           ELSE LET n == Len(chunks)
                IN  EndOf(n) = fileLen /\ \E a \in Starts : Laid(n, a) /\ blockOffset = fileLen - a

\* What a fragment has added to scratch, or to out.
Upto(i) == [n \in 1 .. chunks[i].part |-> <<chunks[i].rec, n>>]

\* scratch ends with the fragment i, and what the reader looks at comes next.
Scratched(i) ==
    /\ chunks[i].whole /\ ~Ends(i) /\ scratch = Upto(i) /\ EndOf(i) <= bufPos
    /\ \/ bufPos = EndOf(i)
       \/ /\ bufPos < EndOf(i) + HeaderSize /\ bufPos \in Starts
          /\ bufEnd = fileLen \/ Buffered >= HeaderSize

\* out[x] is the record that ends with the fragment i.
Returned(x, i) == chunks[i].whole /\ Ends(i) /\ EndOf(i) <= bufPos /\ out[x] = Upto(i)

ReaderOK ==
    /\ bufEnd <= 0 => bufPos = 0 /\ scratch = <<>> /\ out = <<>>
    /\ bufEnd >= 0 =>
           /\ unwritten = <<>> /\ bufPos <= bufEnd /\ bufEnd <= fileLen
           /\ bufEnd \in Starts \/ bufEnd = fileLen
           /\ \E a \in Starts : a <= bufPos /\ bufEnd <= a + BlockSize
    /\ scratch # <<>> => \E i \in Slots : Scratched(i)
    /\ out \in Seq(Seq(Nat \X Nat))
    /\ \A x \in DOMAIN out : \E i \in Slots : Returned(x, i)
    /\ \A x, y \in DOMAIN out : x < y => out[x][1][1] < out[y][1][1]

\* Fragments that are where the writer meant them to be and nothing happened to.
Sound(i) ==
    /\ chunks[i].rec < shaken /\ EndOf(i) <= fileLen
    /\ BlocksOf(i) \cap DamagedBlocks = {}

\* Every sound fragment of the block at hand can be reached, and every safe record
\* is read, being read, or ahead.
ReachOK ==
    bufEnd >= 0 =>
        /\ \A i \in Slots : Sound(i) /\ bufPos <= chunks[i].at /\ chunks[i].at < bufEnd =>
               \E m \in 1 .. i : chunks[m].at = bufPos
        /\ \A r \in 1 .. Len(records) : Safe(r) =>
               \/ \E x \in DOMAIN out : out[x] = PartsOf(r)
               \/ \A i \in ChunksOf(r) : bufPos <= chunks[i].at
               \/ scratch # <<>> /\ scratch[1][1] = r

\* The inductive invariant.
LogInv == LogType /\ PartsOK /\ WritingOK /\ LayoutOK /\ AlignOK /\ ReaderOK /\ ReachOK

-----------------------------------------------------------------------------
(* Blocks. *)

LEMMA StartsIs ==
    /\ Starts \subseteq Nat /\ 0 \in Starts
    /\ \A a \in Starts : a + BlockSize \in Starts
<1>1. \A q \in Nat : q * BlockSize \in Nat BY LogAssumption
<1>2. 0 * BlockSize = 0 BY LogAssumption
<1>3. ASSUME NEW q \in Nat PROVE q * BlockSize + BlockSize \in Starts
  <2>1. q * BlockSize + BlockSize = (q + 1) * BlockSize BY LogAssumption
  <2> QED BY <2>1 DEF Starts
<1> QED BY <1>1, <1>2, <1>3 DEF Starts

\* Blocks do not overlap.
LEMMA StartsApart ==
    ASSUME NEW a \in Starts, NEW b \in Starts, a < b
    PROVE  a + BlockSize <= b
<1>1. PICK p \in Nat : a = p * BlockSize BY DEF Starts
<1>2. PICK q \in Nat : b = q * BlockSize BY DEF Starts
<1>3. BlockSize \in Nat BY LogAssumption
<1>4. p < q
  <2>1. SUFFICES ASSUME q <= p PROVE FALSE BY <1>1, <1>2
  <2>2. p = q + (p - q) /\ p - q \in Nat BY <1>1, <1>2, <2>1
  <2>3. p * BlockSize = q * BlockSize + (p - q) * BlockSize BY <1>3, <2>2
  <2>4. (p - q) * BlockSize >= 0 BY <1>3, <2>2
  <2>5. p * BlockSize \in Nat /\ q * BlockSize \in Nat /\ (p - q) * BlockSize \in Nat BY <1>3, <2>2
  <2> QED BY <1>1, <1>2, <2>3, <2>4, <2>5
<1>5. q - p - 1 \in Nat BY <1>4
<1>6. q * BlockSize = p * BlockSize + BlockSize + (q - p - 1) * BlockSize BY <1>3
<1>7. (q - p - 1) * BlockSize \in Nat /\ p * BlockSize \in Nat BY <1>3, <1>5
<1> QED BY <1>1, <1>2, <1>3, <1>6, <1>7

\* The block of a byte is known from its first byte.
LEMMA StartsDiv ==
    ASSUME NEW a \in Starts, NEW x \in a .. (a + BlockSize - 1)
    PROVE  x \div BlockSize = a \div BlockSize
<1>1. PICK p \in Nat : a = p * BlockSize BY DEF Starts
<1>2. BlockSize \in Nat /\ BlockSize > 0 BY LogAssumption
<1>3. a \in Nat /\ x \in Nat BY StartsIs
<1>4. ASSUME NEW y \in a .. (a + BlockSize - 1) PROVE y \div BlockSize = p
  <2>1. y \in Nat BY <1>3
  <2> DEFINE d == y \div BlockSize
  <2>2. d \in Nat /\ d * BlockSize <= y /\ y < d * BlockSize + BlockSize BY <1>2, <2>1
  <2> HIDE DEF d
  <2>3. d * BlockSize \in Starts BY <2>2 DEF Starts
  <2>4. d * BlockSize \in Nat /\ d * BlockSize = a
    <3>1. d * BlockSize \in Nat BY <2>3, StartsIs
    <3>2. ~(d * BlockSize < a) BY <1>2, <1>3, <2>1, <2>2, <2>3, <3>1, StartsApart
    <3>3. ~(a < d * BlockSize) BY <1>2, <1>3, <2>1, <2>2, <2>3, <3>1, StartsApart
    <3> QED BY <1>3, <3>1, <3>2, <3>3
  <2>5. d = p
    <3>1. ~(d < p)
      <4>1. SUFFICES ASSUME d < p PROVE FALSE OBVIOUS
      <4>2. p - d - 1 \in Nat BY <2>2, <4>1
      <4>3. p * BlockSize = d * BlockSize + BlockSize + (p - d - 1) * BlockSize BY <1>2, <2>2
      <4>4. (p - d - 1) * BlockSize \in Nat BY <1>2, <4>2
      <4> QED BY <1>1, <1>2, <2>4, <4>3, <4>4
    <3>2. ~(p < d)
      <4>1. SUFFICES ASSUME p < d PROVE FALSE OBVIOUS
      <4>2. d - p - 1 \in Nat BY <2>2, <4>1
      <4>3. d * BlockSize = p * BlockSize + BlockSize + (d - p - 1) * BlockSize BY <1>2, <2>2
      <4>4. (d - p - 1) * BlockSize \in Nat BY <1>2, <4>2
      <4> QED BY <1>1, <1>2, <1>3, <2>4, <4>3, <4>4
    <3> QED BY <2>2, <3>1, <3>2
  <2> QED BY <2>5 DEF d
<1>5. a \in a .. (a + BlockSize - 1) BY <1>2, <1>3
<1> QED BY <1>4, <1>5

\* Two blocks with a byte in common are one.
LEMMA SameBlock ==
    ASSUME NEW a \in Starts, NEW b \in Starts, NEW x \in Nat,
           a <= x, x < a + BlockSize, b <= x, x < b + BlockSize
    PROVE  a = b
<1>1. a \in Nat /\ b \in Nat /\ BlockSize \in Nat BY StartsIs, LogAssumption
<1>2. ~(a < b) BY <1>1, StartsApart
<1>3. ~(b < a) BY <1>1, StartsApart
<1> QED BY <1>1, <1>2, <1>3

-----------------------------------------------------------------------------
(* Fragments. *)

LEMMA ChunkIs ==
    ASSUME LogType, NEW i \in Slots
    PROVE  /\ i \in Nat /\ i >= 1 /\ i <= Len(chunks) /\ 1 .. i \subseteq Slots
           /\ chunks[i] \in Chunk /\ chunks[i].at \in Nat /\ chunks[i].len \in Nat
           /\ chunks[i].rec \in Nat /\ chunks[i].part \in Nat /\ chunks[i].rec >= 1 /\ chunks[i].part >= 1
           /\ EndOf(i) \in Nat /\ EndOf(i) = chunks[i].at + HeaderSize + chunks[i].len
           /\ chunks[i].at < EndOf(i) /\ chunks[i].at + HeaderSize <= EndOf(i)
<1>1. Slots = 1 .. Len(chunks) /\ Len(chunks) \in Nat BY DEF LogType, Slots
<1>2. chunks[i] \in Chunk BY <1>1 DEF LogType
<1>3. /\ chunks[i].at \in Nat /\ chunks[i].len \in Nat
      /\ chunks[i].rec \in Nat \ {0} /\ chunks[i].part \in Nat \ {0}
  BY <1>2 DEF Chunk
<1>4. EndOf(i) = chunks[i].at + HeaderSize + chunks[i].len BY DEF EndOf
<1>5. EndOf(i) \in Nat /\ chunks[i].at < EndOf(i) /\ chunks[i].at + HeaderSize <= EndOf(i)
  BY <1>3, <1>4, LogAssumption
<1> QED BY <1>1, <1>2, <1>3, <1>4, <1>5

LEMMA UptoIs ==
    ASSUME LogType, NEW i \in Slots
    PROVE  /\ Upto(i) \in Seq(Nat \X Nat) /\ Upto(i) # <<>> /\ Len(Upto(i)) = chunks[i].part
           /\ Upto(i)[1][1] = chunks[i].rec
           /\ chunks[i].part = 1 => Upto(i) = <<Fragment(chunks[i])>>
<1>1. /\ chunks[i].part \in Nat /\ chunks[i].part >= 1 /\ chunks[i].rec \in Nat BY ChunkIs
<1>2. \A n \in 1 .. chunks[i].part : <<chunks[i].rec, n>> \in Nat \X Nat BY <1>1
<1>3. /\ Upto(i) \in Seq(Nat \X Nat) /\ Len(Upto(i)) = chunks[i].part
      /\ \A n \in 1 .. chunks[i].part : Upto(i)[n] = <<chunks[i].rec, n>>
  BY <1>1, <1>2, IsASeq DEF Upto
<1>4. Upto(i)[1] = <<chunks[i].rec, 1>> BY <1>1, <1>3
<1>5. Upto(i) # <<>> BY <1>1, <1>3
<1>6. ASSUME chunks[i].part = 1 PROVE Upto(i) = <<Fragment(chunks[i])>>
  <2>1. Upto(i) \in Seq(Nat \X Nat) /\ Len(Upto(i)) = 1 BY <1>3, <1>6
  <2>2. Upto(i)[1] = Fragment(chunks[i]) BY <1>4, <1>6 DEF Fragment
  <2> QED BY <2>1, <2>2
<1> QED BY <1>3, <1>4, <1>5, <1>6

\* The parts of a record are those up to its last fragment.
LEMMA PartsOfIs ==
    ASSUME LogType, PartsOK, NEW i \in Slots, Ends(i)
    PROVE  PartsOf(chunks[i].rec) = Upto(i) /\ i \in ChunksOf(chunks[i].rec)
<1> DEFINE r == chunks[i].rec
           k == chunks[i].part
<1>1. k \in Nat /\ k >= 1 /\ k <= i /\ i \in Nat /\ 1 .. i \subseteq Slots BY ChunkIs DEF PartsOK
<1>2. \A m \in 1 .. i : chunks[m].rec = r <=> m > i - k BY DEF PartsOK
<1>3. \A m \in Slots : i < m => chunks[m].rec # r
  <2>1. \A m \in Slots : i < m => r < chunks[m].rec BY DEF PartsOK
  <2>2. r \in Nat BY ChunkIs
  <2> QED BY <2>1, <2>2
<1>4. ChunksOf(r) = (i - k + 1) .. i
  <2>1. ASSUME NEW m \in ChunksOf(r) PROVE m \in (i - k + 1) .. i
    <3>1. m \in Slots /\ chunks[m].rec = r BY DEF ChunksOf, Slots
    <3>2. m \in Nat /\ m >= 1 BY <3>1, ChunkIs
    <3>3. m <= i BY <1>1, <1>3, <3>1, <3>2
    <3> HIDE DEF r, k
    <3>4. m > i - k BY <1>2, <1>1, <3>1, <3>2, <3>3
    <3> QED BY <1>1, <3>2, <3>3, <3>4
  <2>2. ASSUME NEW m \in (i - k + 1) .. i PROVE m \in ChunksOf(r)
    <3>1. m \in 1 .. i /\ m > i - k BY <1>1
    <3>2. m \in Slots /\ chunks[m].rec = r BY <1>1, <1>2, <3>1
    <3> QED BY <3>2 DEF ChunksOf, Slots
  <2> QED BY <2>1, <2>2
<1>5. Cardinality((i - k + 1) .. i) = k
  <2> HIDE DEF k
  <2>1. i - k + 1 \in Int /\ i \in Int /\ ~(i - k + 1 > i) /\ i - (i - k + 1) + 1 = k BY <1>1
  <2> QED BY <2>1, FS_Interval
<1>6. PartsOf(r) = Upto(i) BY <1>4, <1>5 DEF PartsOf, Upto
<1>7. i \in ChunksOf(r) BY DEF ChunksOf, Slots
<1> QED BY <1>6, <1>7
-----------------------------------------------------------------------------
(* The writer. *)

\* What a turn of AddRecord's loop does, whatever the file takes of it: the fragment
\* p of a record becomes the physical record ch.
Emits(p, ch) ==
    /\ bufEnd = -1 /\ unwritten # <<>> /\ p = unwritten[1] /\ p \in Fragments
    /\ ch \in Chunk /\ ch.rec = p.rec /\ ch.part = p.part
    /\ ch.part = 1 <=> ch.type \in {"full", "first"}
    /\ chunks' = Append(chunks, ch)
    /\ fileLen' \in Nat /\ fileLen <= ch.at /\ ch.at <= fileLen'
    /\ ch.whole => fileLen' = ch.at + HeaderSize + ch.len
    /\ blockOffset' \in 0 .. BlockSize
    /\ shaken' = shaken \/ shaken' = Lesser(shaken, p.rec)
    /\ ~ch.whole => shaken' <= p.rec
    /\ UNCHANGED <<badBytes, bufEnd, bufPos, scratch, out>>

\* The record goes on, is written or is given up.
Goes(p, ch) ==
    \/ /\ ch.whole /\ ch.type \notin {"full", "last"} /\ records' = records
       /\ unwritten' = <<unwritten'[1]>> /\ unwritten'[1] \in Fragments
       /\ unwritten'[1].rec = p.rec /\ unwritten'[1].part = p.part + 1
    \/ /\ ch.whole /\ ch.type \in {"full", "last"} /\ unwritten' = <<>>
       /\ records' = [records EXCEPT ![p.rec] = "written"]
    \/ unwritten' = <<>> /\ records' = [records EXCEPT ![p.rec] = "failed"]

\* Where the fragment is if nothing has been shifted.
InPlace(p, ch) ==
    shaken' > p.rec =>
        /\ ch.whole /\ blockOffset' <= BlockSize
        /\ IF BlockSize - blockOffset < HeaderSize
           THEN ch.at = fileLen + (BlockSize - blockOffset) /\ blockOffset' = HeaderSize + ch.len
           ELSE ch.at = fileLen /\ blockOffset' = blockOffset + HeaderSize + ch.len

LEMMA EmitFacts ==
    ASSUME LogType, EmitPhysicalRecord
    PROVE  \E p, ch : Emits(p, ch) /\ Goes(p, ch) /\ InPlace(p, ch)
<1> DEFINE p        == unwritten[1]
           leftover == BlockSize - blockOffset
           trailer  == IF leftover < HeaderSize THEN leftover ELSE 0
           start    == IF leftover < HeaderSize THEN 0 ELSE blockOffset
           n        == Lesser(p.left, BlockSize - start - HeaderSize)
           end      == n = p.left
           type     == IF p.part = 1 THEN (IF end THEN "full" ELSE "first")
                                     ELSE (IF end THEN "last" ELSE "middle")
           New(filler, bytes) == [at |-> fileLen + filler, len |-> n, type |-> type,
                                  rec |-> p.rec, part |-> p.part, whole |-> bytes = HeaderSize + n]
           Next1    == [p EXCEPT !.left = @ - n, !.part = @ + 1]
           Emit(filler, bytes) ==
               /\ chunks' = Append(chunks, New(filler, bytes))
               /\ fileLen' = fileLen + filler + bytes
           Proceed ==
               /\ unwritten' = IF end THEN <<>> ELSE <<Next1>>
               /\ records' = IF end THEN [records EXCEPT ![p.rec] = "written"] ELSE records
           GiveUp   ==
               /\ unwritten' = <<>>
               /\ records' = [records EXCEPT ![p.rec] = "failed"]
           Fault(shifts) ==
               /\ faults < MaxFaults /\ faults' = faults + 1
               /\ shaken' = IF shifts THEN Lesser(shaken, p.rec) ELSE shaken
<1>1. /\ bufEnd = -1 /\ unwritten # <<>> /\ p \in Fragments
      /\ UNCHANGED <<badBytes, bufEnd, bufPos, scratch, out>>
      /\ blockOffset' = start + HeaderSize + n
  BY DEF EmitPhysicalRecord, LogType
<1>2. \/ Emit(trailer, HeaderSize + n) /\ Proceed /\ UNCHANGED <<faults, shaken>>
      \/ \E b \in 0 .. (HeaderSize + n) : Fault(b < HeaderSize + n) /\ GiveUp /\ Emit(trailer, b)
      \/ \E f \in 0 .. (trailer - 1) : Fault(TRUE) /\ Proceed /\ Emit(f, HeaderSize + n)
  BY DEF EmitPhysicalRecord
<1>3. /\ BlockSize \in Nat /\ HeaderSize \in Nat /\ HeaderSize >= 1 /\ HeaderSize < BlockSize
      /\ blockOffset \in Nat /\ blockOffset <= BlockSize /\ fileLen \in Nat /\ shaken \in Nat
  BY LogAssumption DEF LogType
<1>4. p.rec \in Nat \ {0} /\ p.left \in Nat /\ p.part \in Nat \ {0} BY <1>1 DEF Fragments
<1>5. /\ trailer \in Nat /\ start \in Nat /\ start + HeaderSize <= BlockSize
      /\ leftover < HeaderSize => trailer = leftover /\ start = 0
      /\ ~(leftover < HeaderSize) => trailer = 0 /\ start = blockOffset
  BY <1>3
<1>6. n \in Nat /\ start + HeaderSize + n <= BlockSize /\ n <= p.left BY <1>3, <1>4, <1>5 DEF Lesser
<1>7. /\ type \in {"full", "first", "middle", "last"}
      /\ p.part = 1 <=> type \in {"full", "first"}
      /\ end <=> type \in {"full", "last"}
  OBVIOUS
<1>8. ASSUME ~end
      PROVE  Next1 \in Fragments /\ Next1.rec = p.rec /\ Next1.part = p.part + 1
  <2> HIDE DEF n
  <2>1. p.left - n \in Nat /\ p.part + 1 \in Nat \ {0} BY <1>4, <1>6
  <2> HIDE DEF p
  <2> QED BY <1>1, <2>1 DEF Fragments
<1>9. ASSUME NEW filler \in Nat, NEW bytes \in Nat
      PROVE  /\ New(filler, bytes) \in Chunk
             /\ New(filler, bytes).rec = p.rec /\ New(filler, bytes).part = p.part
             /\ New(filler, bytes).type = type /\ New(filler, bytes).len = n
             /\ New(filler, bytes).at = fileLen + filler
             /\ New(filler, bytes).whole = (bytes = HeaderSize + n)
  <2> HIDE DEF n, type, p
  <2> QED BY <1>3, <1>4, <1>6, <1>7 DEF Chunk
<1>10. Lesser(shaken, p.rec) <= p.rec BY <1>3, <1>4 DEF Lesser
<1> HIDE DEF p, trailer, start, n, end, type, Next1, New
<1>0. HeaderSize + n \in Nat BY <1>3, <1>6
<1>11. ASSUME Proceed
       PROVE  \/ /\ type \notin {"full", "last"} /\ records' = records
                 /\ unwritten' = <<unwritten'[1]>> /\ unwritten'[1] \in Fragments
                 /\ unwritten'[1].rec = p.rec /\ unwritten'[1].part = p.part + 1
              \/ /\ type \in {"full", "last"} /\ unwritten' = <<>>
                 /\ records' = [records EXCEPT ![p.rec] = "written"]
  <2>1. CASE end BY <1>7, <1>11, <2>1
  <2>2. CASE ~end
    <3>1. unwritten' = <<Next1>> /\ records' = records BY <1>11, <2>2
    <3> QED BY <1>7, <1>8, <2>2, <3>1
  <2> QED BY <2>1, <2>2
<1>12. CASE Emit(trailer, HeaderSize + n) /\ Proceed /\ UNCHANGED <<faults, shaken>>
  <2> DEFINE ch == New(trailer, HeaderSize + n)
  <2>1. /\ ch \in Chunk /\ ch.rec = p.rec /\ ch.part = p.part /\ ch.type = type /\ ch.len = n
        /\ ch.at = fileLen + trailer /\ ch.whole = (HeaderSize + n = HeaderSize + n)
    BY <1>0, <1>5, <1>9
  <2>0. ch.whole BY <2>1
  <2>2. chunks' = Append(chunks, ch) /\ fileLen' = fileLen + trailer + (HeaderSize + n) BY <1>12
  <2> HIDE DEF ch
  <2>3. Emits(p, ch)
    <3>1. fileLen' \in Nat /\ fileLen <= ch.at /\ ch.at <= fileLen' /\ fileLen' = ch.at + HeaderSize + ch.len
      <4>1. trailer \in Nat /\ n \in Nat /\ HeaderSize \in Nat /\ fileLen \in Nat BY <1>3, <1>5, <1>6
      <4>2. ch.at = fileLen + trailer /\ ch.len = n BY <2>1
      <4> QED BY <2>2, <4>1, <4>2
    <3>2. blockOffset' \in 0 .. BlockSize BY <1>1, <1>3, <1>5, <1>6
    <3>3. p = unwritten[1] /\ shaken' = shaken BY <1>12 DEF p
    <3>4. ch.part = 1 <=> ch.type \in {"full", "first"} BY <1>7, <2>1
    <3>5. UNCHANGED <<badBytes, bufEnd, bufPos, scratch, out>> /\ bufEnd = -1 /\ unwritten # <<>> /\ p \in Fragments BY <1>1
    <3> QED BY <2>1, <2>2, <2>0, <3>1, <3>2, <3>3, <3>4, <3>5 DEF Emits
  <2>4. Goes(p, ch) BY <1>11, <1>12, <2>1 DEF Goes
  <2>5. InPlace(p, ch)
    <3>1. start + HeaderSize + n <= BlockSize /\ blockOffset' = start + HeaderSize + n BY <1>1, <1>6
    <3>2. CASE leftover < HeaderSize
      <4>1. ch.at = fileLen + leftover /\ blockOffset' = HeaderSize + ch.len BY <1>0, <1>3, <1>5, <2>1, <3>1, <3>2
      <4> QED BY <2>0, <3>1, <3>2, <4>1 DEF InPlace
    <3>3. CASE ~(leftover < HeaderSize)
      <4>1. ch.at = fileLen /\ blockOffset' = blockOffset + HeaderSize + ch.len BY <1>0, <1>3, <1>5, <2>1, <3>1, <3>3
      <4> QED BY <2>0, <3>1, <3>3, <4>1 DEF InPlace
    <3> QED BY <3>2, <3>3
  <2> QED BY <2>3, <2>4, <2>5
<1>13. CASE \E b \in 0 .. (HeaderSize + n) : Fault(b < HeaderSize + n) /\ GiveUp /\ Emit(trailer, b)
  <2>1. PICK b \in 0 .. (HeaderSize + n) : Fault(b < HeaderSize + n) /\ GiveUp /\ Emit(trailer, b) BY <1>13
  <2> DEFINE ch == New(trailer, b)
  <2>2. /\ ch \in Chunk /\ ch.rec = p.rec /\ ch.part = p.part /\ ch.type = type /\ ch.len = n
        /\ ch.at = fileLen + trailer /\ ch.whole = (b = HeaderSize + n)
    <3>1. b \in Nat BY <1>0
    <3> QED BY <1>5, <1>9, <3>1
  <2>0. b \in Nat /\ b <= HeaderSize + n BY <1>0
  <2>3. chunks' = Append(chunks, ch) /\ fileLen' = fileLen + trailer + b BY <2>1
  <2> HIDE DEF ch
  <2>4. /\ shaken' = shaken \/ shaken' = Lesser(shaken, p.rec)
        /\ b < HeaderSize + n => shaken' = Lesser(shaken, p.rec)
    BY <2>1
  <2>5. ch.whole <=> b = HeaderSize + n BY <2>2
  <2>6. ~ch.whole => shaken' <= p.rec BY <1>3, <1>6, <1>10, <2>0, <2>4, <2>5
  <2>7. Emits(p, ch)
    <3>1. fileLen' \in Nat /\ fileLen <= ch.at /\ ch.at <= fileLen' BY <1>3, <1>5, <1>6, <2>2, <2>3, <2>0
    <3>2. blockOffset' \in 0 .. BlockSize BY <1>1, <1>3, <1>5, <1>6
    <3>3. ch.whole => fileLen' = ch.at + HeaderSize + ch.len BY <1>3, <1>5, <1>6, <2>2, <2>3, <2>5, <2>0
    <3>4. ch.part = 1 <=> ch.type \in {"full", "first"} BY <1>7, <2>2
    <3>5. p = unwritten[1] BY DEF p
    <3> QED BY <1>1, <2>2, <2>3, <2>4, <2>6, <3>1, <3>2, <3>3, <3>4, <3>5 DEF Emits
  <2>8. Goes(p, ch) BY <2>1 DEF Goes
  <2>9. InPlace(p, ch)
    <3>1. SUFFICES ASSUME shaken' > p.rec PROVE InPlace(p, ch) BY DEF InPlace
    <3>2. ch.whole
      <4>1. Lesser(shaken, p.rec) \in Nat BY <1>3, <1>4 DEF Lesser
      <4> QED BY <1>4, <2>4, <2>6, <3>1, <4>1, <1>3
    <3> QED BY <1>1, <1>3, <1>5, <1>6, <2>2, <3>2 DEF InPlace
  <2> QED BY <2>7, <2>8, <2>9
<1>14. CASE \E f \in 0 .. (trailer - 1) : Fault(TRUE) /\ Proceed /\ Emit(f, HeaderSize + n)
  <2>1. PICK f \in 0 .. (trailer - 1) : Fault(TRUE) /\ Proceed /\ Emit(f, HeaderSize + n) BY <1>14
  <2> DEFINE ch == New(f, HeaderSize + n)
  <2>2. /\ ch \in Chunk /\ ch.rec = p.rec /\ ch.part = p.part /\ ch.type = type /\ ch.len = n
        /\ ch.at = fileLen + f /\ ch.whole = (HeaderSize + n = HeaderSize + n)
    <3>1. f \in Nat BY <1>5
    <3> QED BY <1>0, <1>9, <3>1
  <2>0. f \in Nat BY <1>5
  <2>3. chunks' = Append(chunks, ch) /\ fileLen' = fileLen + f + (HeaderSize + n) BY <2>1
  <2> HIDE DEF ch
  <2>4. shaken' = Lesser(shaken, p.rec) BY <2>1
  <2>5. Emits(p, ch)
    <3>1. fileLen' \in Nat /\ fileLen <= ch.at /\ ch.at <= fileLen' /\ fileLen' = ch.at + HeaderSize + ch.len
      BY <1>3, <1>5, <1>6, <2>2, <2>3, <2>0
    <3>2. blockOffset' \in 0 .. BlockSize BY <1>1, <1>3, <1>5, <1>6
    <3>3. p = unwritten[1] BY DEF p
    <3> QED BY <1>1, <1>7, <2>2, <2>3, <2>4, <3>1, <3>2, <3>3 DEF Emits
  <2>6. Goes(p, ch) BY <1>11, <2>1, <2>2 DEF Goes
  <2>7. InPlace(p, ch)
    <3>1. Lesser(shaken, p.rec) \in Nat BY <1>3, <1>4 DEF Lesser
    <3> QED BY <1>4, <1>10, <2>4, <3>1 DEF InPlace
  <2> QED BY <2>5, <2>6, <2>7
<1> QED BY <1>2, <1>12, <1>13, <1>14
LEMMA RecordsIs ==
    ASSUME LogType
    PROVE  /\ Len(records) \in Nat /\ DOMAIN records = 1 .. Len(records)
           /\ shaken \in Nat /\ MaxRecords \in Nat /\ fileLen \in Nat /\ blockOffset \in Nat
           /\ BlockSize \in Nat /\ HeaderSize \in Nat /\ HeaderSize >= 1 /\ HeaderSize < BlockSize
BY LogAssumption DEF LogType

LEMMA FragmentIs ==
    ASSUME NEW p, NEW ch, LogType, Emits(p, ch)
    PROVE  /\ p.rec \in Nat /\ p.rec >= 1 /\ p.part \in Nat /\ p.part >= 1
           /\ ch.rec = p.rec /\ ch.part = p.part /\ ch.at \in Nat /\ ch.len \in Nat
           /\ shaken' \in Nat /\ shaken' <= shaken
           /\ shaken' = shaken \/ (shaken' <= p.rec /\ (shaken' = p.rec \/ shaken' = shaken))
<1>1. p.rec \in Nat \ {0} /\ p.part \in Nat \ {0} BY DEF Emits, Fragments
<1>2. ch.at \in Nat /\ ch.len \in Nat BY DEF Emits, Chunk
<1>3. shaken \in Nat BY DEF LogType
<1>4. Lesser(shaken, p.rec) \in {shaken, p.rec} /\ Lesser(shaken, p.rec) <= shaken
      /\ Lesser(shaken, p.rec) <= p.rec
  BY <1>1, <1>3 DEF Lesser
<1>5. shaken' = shaken \/ shaken' = Lesser(shaken, p.rec) BY DEF Emits
<1> QED BY <1>1, <1>2, <1>3, <1>4, <1>5 DEF Emits

LEMMA EmitSlots ==
    ASSUME NEW p, NEW ch, LogType, Emits(p, ch), NEW n, n = Len(chunks)
    PROVE  /\ n \in Nat /\ Slots = 1 .. n /\ Slots' = 1 .. (n + 1) /\ Len(chunks') = n + 1
           /\ chunks'[n + 1] = ch
           /\ \A i \in Slots : chunks'[i] = chunks[i] /\ EndOf(i)' = EndOf(i) /\ Ends(i)' = Ends(i)
           /\ EndOf(n + 1)' = ch.at + HeaderSize + ch.len
           /\ Ends(n + 1)' <=> ch.type \in {"full", "last"}
<1>1. chunks \in Seq(Chunk) /\ ch \in Chunk /\ chunks' = Append(chunks, ch) BY DEF LogType, Emits
<1>2. /\ n \in Nat /\ Slots = 1 .. n /\ Slots' = 1 .. (n + 1) /\ Len(chunks') = n + 1
      /\ chunks'[n + 1] = ch
      /\ \A i \in 1 .. n : chunks'[i] = chunks[i]
  BY <1>1 DEF Slots
<1> QED BY <1>2 DEF EndOf, Ends

LEMMA EmitType ==
    ASSUME NEW p, NEW ch, LogType, WritingOK, Emits(p, ch), Goes(p, ch)
    PROVE  LogType' /\ Len(records') = Len(records) /\ p.rec = Len(records)
<1>1. p = unwritten[1] /\ unwritten # <<>> BY DEF Emits
<1>2. p.rec = Len(records) BY <1>1 DEF WritingOK
<1>3. records' \in Seq({"open", "written", "failed"}) /\ Len(records') = Len(records)
  <2>1. records \in Seq({"open", "written", "failed"}) BY DEF LogType
  <2>2. \/ records' = records
        \/ \E v \in {"open", "written", "failed"} : records' = [records EXCEPT ![p.rec] = v]
    BY DEF Goes
  <2> QED BY <2>1, <2>2
<1>4. unwritten' = <<>> \/ (unwritten' = <<unwritten'[1]>> /\ unwritten'[1] \in Fragments) BY DEF Goes
<1>5. shaken' \in Nat /\ (shaken' <= Len(records') \/ shaken' = MaxRecords + 1)
  BY <1>2, <1>3, FragmentIs, RecordsIs DEF LogType
<1>6. chunks' \in Seq(Chunk) BY DEF LogType, Emits
<1>7. /\ fileLen' \in Nat /\ blockOffset' \in 0 .. BlockSize /\ badBytes' \subseteq Nat
      /\ bufEnd' \in Int /\ bufEnd' >= -1 /\ bufPos' \in Nat
  BY DEF LogType, Emits
<1>8. Len(records') <= MaxRecords BY <1>3 DEF LogType
<1> QED BY <1>2, <1>3, <1>4, <1>5, <1>6, <1>7, <1>8 DEF LogType

\* What is known of the fragments before the one that is written.
LEMMA Before ==
    ASSUME NEW p, NEW ch, LogType, PartsOK, WritingOK, Emits(p, ch), NEW n, n = Len(chunks)
    PROVE  /\ \A i \in Slots : chunks[i].rec <= p.rec
           /\ \A i \in Slots : chunks[i].rec = p.rec <=> i > n + 1 - p.part
           /\ \A i \in Slots : chunks[i].rec = p.rec => chunks[i].part = p.part - (n + 1 - i)
           /\ p.part <= n + 1
           /\ \A i \in Slots : Ends(i) \/ ~chunks[i].whole => chunks[i].rec < p.rec
<1>1. p = unwritten[1] /\ unwritten # <<>> BY DEF Emits
<1>2. p.rec = Len(records) BY <1>1 DEF WritingOK
<1>3. \A i \in Slots : chunks[i].rec <= p.rec BY <1>2 DEF PartsOK
<1>4. n \in Nat /\ Slots = 1 .. n /\ p.rec \in Nat /\ p.part \in Nat /\ p.part >= 1 BY EmitSlots, FragmentIs
<1>5. CASE p.part = 1
  <2>1. \A i \in Slots : chunks[i].rec < p.rec BY <1>1, <1>5 DEF WritingOK
  <2>2. \A i \in Slots : chunks[i].rec # p.rec
    <3>1. \A i \in Slots : chunks[i].rec \in Nat BY ChunkIs
    <3> QED BY <1>4, <2>1, <3>1
  <2>3. \A i \in Slots : ~(i > n + 1 - p.part) BY <1>4, <1>5
  <2> QED BY <1>3, <1>4, <1>5, <2>1, <2>2, <2>3
<1>6. CASE p.part # 1
  <2>1. n > 0 /\ chunks[n].rec = p.rec /\ chunks[n].part = p.part - 1 /\ chunks[n].whole /\ ~Ends(n)
    BY <1>1, <1>6 DEF WritingOK
  <2>2. n \in Slots BY <1>4, <2>1
  <2>3. ASSUME NEW i \in Slots
        PROVE  /\ chunks[i].rec = p.rec <=> i > n + 1 - p.part
               /\ chunks[i].rec = p.rec => chunks[i].part = p.part - (n + 1 - i)
    <3>1. i \in 1 .. n /\ i \in Nat BY <1>4
    <3>2. /\ chunks[i].rec = chunks[n].rec <=> i > n - chunks[n].part
          /\ chunks[i].rec = chunks[n].rec => chunks[i].part = chunks[n].part - (n - i)
      BY <2>2, <3>1 DEF PartsOK
    <3>3. n - (p.part - 1) = n + 1 - p.part /\ p.part - 1 - (n - i) = p.part - (n + 1 - i) BY <1>4, <3>1
    <3> QED BY <2>1, <3>2, <3>3
  <2>4. p.part <= n + 1
    <3>1. p.part - 1 <= n BY <2>1, <2>2 DEF PartsOK
    <3> QED BY <1>4, <3>1
  <2>5. ASSUME NEW i \in Slots, Ends(i) \/ ~chunks[i].whole PROVE chunks[i].rec < p.rec
    <3>1. i # n BY <2>1, <2>5
    <3>2. i < n BY <1>4, <3>1
    <3> QED BY <2>1, <2>2, <2>5, <3>2 DEF PartsOK
  <2> QED BY <1>3, <2>3, <2>4, <2>5
<1> QED BY <1>5, <1>6

LEMMA EmitParts ==
    ASSUME NEW p, NEW ch, LogType, PartsOK, WritingOK, Emits(p, ch), Goes(p, ch)
    PROVE  PartsOK'
<1>0. PICK n : n = Len(chunks) OBVIOUS
<1>1. /\ n \in Nat /\ Slots = 1 .. n /\ Slots' = 1 .. (n + 1) /\ Len(chunks') = n + 1
      /\ chunks'[n + 1] = ch
      /\ \A i \in Slots : chunks'[i] = chunks[i] /\ Ends(i)' = Ends(i)
      /\ Ends(n + 1)' <=> ch.type \in {"full", "last"}
  BY <1>0, EmitSlots
<1>2. /\ \A i \in Slots : chunks[i].rec <= p.rec
      /\ \A i \in Slots : chunks[i].rec = p.rec <=> i > n + 1 - p.part
      /\ \A i \in Slots : chunks[i].rec = p.rec => chunks[i].part = p.part - (n + 1 - i)
      /\ p.part <= n + 1
      /\ \A i \in Slots : Ends(i) \/ ~chunks[i].whole => chunks[i].rec < p.rec
  BY <1>0, Before
<1>3. /\ p.rec \in Nat /\ p.rec >= 1 /\ p.part \in Nat /\ p.part >= 1
      /\ ch.rec = p.rec /\ ch.part = p.part
  BY FragmentIs
<1>4. Len(records') = Len(records) /\ p.rec = Len(records) BY EmitType
<1>5. \A i \in Slots' : i \in Slots \/ i = n + 1 BY <1>1
<1>6. \A i \in Slots' : chunks'[i].rec <= Len(records')
  BY <1>1, <1>2, <1>3, <1>4, <1>5
<1>7. ASSUME NEW i \in Slots', NEW m \in 1 .. i
      PROVE  /\ chunks'[m].rec <= chunks'[i].rec
             /\ chunks'[m].rec = chunks'[i].rec <=> m > i - chunks'[i].part
             /\ chunks'[m].rec = chunks'[i].rec => chunks'[m].part = chunks'[i].part - (i - m)
  <2>1. CASE i \in Slots
    <3>1. m \in Slots BY <1>1, <2>1
    <3>2. chunks'[i] = chunks[i] /\ chunks'[m] = chunks[m] BY <1>1, <2>1, <3>1
    <3>3. /\ chunks[m].rec <= chunks[i].rec
          /\ chunks[m].rec = chunks[i].rec <=> m > i - chunks[i].part
          /\ chunks[m].rec = chunks[i].rec => chunks[m].part = chunks[i].part - (i - m)
      BY <2>1 DEF PartsOK
    <3> QED BY <3>2, <3>3
  <2>2. CASE i = n + 1 /\ m \in Slots
    <3>1. chunks'[i] = ch /\ chunks'[m] = chunks[m] BY <1>1, <2>2
    <3>2. /\ chunks[m].rec <= p.rec
          /\ chunks[m].rec = p.rec <=> m > n + 1 - p.part
          /\ chunks[m].rec = p.rec => chunks[m].part = p.part - (n + 1 - m)
      BY <1>2, <2>2
    <3>3. n + 1 - p.part = i - p.part /\ n + 1 - m = i - m
      <4>1. n \in Nat /\ m \in Nat /\ p.part \in Nat BY <1>1, <1>3, <2>2
      <4> QED BY <2>2, <4>1
    <3> QED BY <1>3, <3>1, <3>2, <3>3
  <2>3. CASE i = n + 1 /\ m = n + 1
    <3>1. chunks'[i] = ch /\ chunks'[m] = ch BY <1>1, <2>3
    <3> QED BY <1>1, <1>3, <2>3, <3>1
  <2> QED BY <1>1, <2>1, <2>2, <2>3
<1>8. \A i \in Slots' : chunks'[i].part <= i
  <2>1. \A i \in Slots : chunks[i].part <= i BY DEF PartsOK
  <2> QED BY <1>1, <1>2, <1>3, <1>5, <2>1
<1>9. \A i \in Slots' : chunks'[i].part = 1 <=> chunks'[i].type \in {"full", "first"}
  <2>1. \A i \in Slots : chunks[i].part = 1 <=> chunks[i].type \in {"full", "first"} BY DEF PartsOK
  <2>2. ch.part = 1 <=> ch.type \in {"full", "first"} BY DEF Emits
  <2> QED BY <1>1, <1>5, <2>1, <2>2
<1>10. ASSUME NEW i \in Slots', NEW m \in Slots', i < m, Ends(i)' \/ ~chunks'[i].whole
       PROVE  chunks'[i].rec < chunks'[m].rec
  <2>1. i \in Slots BY <1>1, <1>10
  <2>2. chunks'[i] = chunks[i] /\ (Ends(i) \/ ~chunks[i].whole) BY <1>1, <1>10, <2>1
  <2>3. CASE m \in Slots
    <3>1. chunks[i].rec < chunks[m].rec BY <1>10, <2>1, <2>2, <2>3 DEF PartsOK
    <3> QED BY <1>1, <2>2, <2>3, <3>1
  <2>4. CASE m = n + 1 BY <1>1, <1>2, <1>3, <2>1, <2>2, <2>4
  <2> QED BY <1>5, <2>3, <2>4
<1>11. ASSUME NEW r \in 1 .. Len(records'), records'[r] = "written"
       PROVE  \E i \in Slots' : chunks'[i].rec = r /\ Ends(i)'
  <2>1. CASE records[r] = "written"
    <3>1. PICK i \in Slots : chunks[i].rec = r /\ Ends(i) BY <1>4, <2>1 DEF PartsOK
    <3>2. i \in Slots' BY <1>1, <3>1
    <3> QED BY <1>1, <3>1, <3>2
  <2>2. CASE records[r] # "written"
    <3>1. r = p.rec /\ ch.type \in {"full", "last"}
      <4>1. r \in DOMAIN records BY <1>4 DEF LogType
      <4> QED BY <1>11, <2>2, <4>1 DEF Goes
    <3>2. n + 1 \in Slots' BY <1>1
    <3> QED BY <1>1, <1>3, <3>1, <3>2
  <2> QED BY <2>1, <2>2
<1> QED BY <1>6, <1>7, <1>8, <1>9, <1>10, <1>11 DEF PartsOK

LEMMA EmitWriting ==
    ASSUME NEW p, NEW ch, LogType, WritingOK, Emits(p, ch), Goes(p, ch)
    PROVE  WritingOK'
<1>0. PICK n : n = Len(chunks) OBVIOUS
<1>1. n \in Nat /\ Len(chunks') = n + 1 /\ chunks'[n + 1] = ch /\ (Ends(n + 1)' <=> ch.type \in {"full", "last"})
  BY <1>0, EmitSlots
<1>2. p.part \in Nat /\ p.part >= 1 /\ ch.rec = p.rec /\ ch.part = p.part BY FragmentIs
<1>3. Len(records') = Len(records) /\ p.rec = Len(records) BY EmitType
<1>4. bufEnd' = -1 BY DEF Emits
<1>5. records[p.rec] = "open" BY DEF WritingOK, Emits
<1>6. ASSUME unwritten' # <<>>
      PROVE  /\ unwritten'[1].rec = Len(records') /\ records'[unwritten'[1].rec] = "open"
             /\ unwritten'[1].part # 1 /\ Len(chunks') > 0
             /\ chunks'[Len(chunks')].rec = unwritten'[1].rec
             /\ chunks'[Len(chunks')].part = unwritten'[1].part - 1
             /\ chunks'[Len(chunks')].whole /\ ~Ends(Len(chunks))'
  <2>1. /\ ch.whole /\ ch.type \notin {"full", "last"} /\ records' = records
        /\ unwritten'[1].rec = p.rec /\ unwritten'[1].part = p.part + 1
    BY <1>6 DEF Goes
  <2>2. unwritten'[1].part # 1 /\ unwritten'[1].part - 1 = p.part BY <1>2, <2>1
  <2>3. ~Ends(n + 1)' BY <1>1, <2>1
  <2>4. ~Ends(Len(chunks))' BY <1>1, <2>3 DEF Ends
  <2> QED BY <1>1, <1>2, <1>3, <1>5, <2>1, <2>2, <2>4
<1> QED BY <1>4, <1>6 DEF WritingOK

LEMMA EmitLayout ==
    ASSUME NEW p, NEW ch, LogType, LayoutOK, Emits(p, ch)
    PROVE  LayoutOK'
<1>0. PICK n : n = Len(chunks) OBVIOUS
<1>1. /\ n \in Nat /\ Slots = 1 .. n /\ Slots' = 1 .. (n + 1) /\ chunks'[n + 1] = ch
      /\ \A i \in Slots : chunks'[i] = chunks[i] /\ EndOf(i)' = EndOf(i)
      /\ EndOf(n + 1)' = ch.at + HeaderSize + ch.len
  BY <1>0, EmitSlots
<1>2. /\ bufEnd = -1 /\ fileLen' \in Nat /\ fileLen \in Nat /\ fileLen <= ch.at /\ ch.at <= fileLen'
      /\ ch.whole => fileLen' = ch.at + HeaderSize + ch.len
      /\ ch.at \in Nat
  BY FragmentIs DEF Emits, LogType
<1>3. \A i \in Slots : chunks[i].at <= fileLen /\ (chunks[i].whole => EndOf(i) <= fileLen)
  BY <1>2 DEF LayoutOK
<1>4. \A i \in Slots : chunks[i].at \in Nat /\ EndOf(i) \in Nat BY ChunkIs
<1>5. ASSUME NEW i \in Slots', NEW m \in Slots', i < m
      PROVE  chunks'[i].at <= chunks'[m].at /\ (chunks'[i].whole => EndOf(i)' <= chunks'[m].at)
  <2>1. i \in Slots BY <1>1, <1>5
  <2>2. CASE m \in Slots
    <3>1. chunks[i].at <= chunks[m].at /\ (chunks[i].whole => EndOf(i) <= chunks[m].at)
      BY <1>5, <2>1, <2>2 DEF LayoutOK
    <3> QED BY <1>1, <2>1, <2>2, <3>1
  <2>3. CASE m = n + 1
    <3>1. chunks'[i] = chunks[i] /\ EndOf(i)' = EndOf(i) /\ chunks'[m] = ch BY <1>1, <2>1, <2>3
    <3> QED BY <1>2, <1>3, <1>4, <2>1, <3>1
  <2> QED BY <1>1, <2>2, <2>3
<1>6. ASSUME NEW i \in Slots'
      PROVE  chunks'[i].at <= fileLen' /\ (chunks'[i].whole => EndOf(i)' <= fileLen')
  <2>1. CASE i \in Slots
    <3>1. chunks'[i] = chunks[i] /\ EndOf(i)' = EndOf(i) BY <1>1, <2>1
    <3> QED BY <1>2, <1>3, <1>4, <2>1, <3>1
  <2>2. CASE i = n + 1
    <3>1. chunks'[i] = ch /\ EndOf(i)' = ch.at + HeaderSize + ch.len BY <1>1, <2>2
    <3> QED BY <1>2, <3>1
  <2> QED BY <1>1, <2>1, <2>2
<1> QED BY <1>5, <1>6 DEF LayoutOK
\* A fragment that is not the last stays where it was in its block.
LEMMA LaidStays ==
    ASSUME NEW p, NEW ch, LogType, Emits(p, ch), NEW i \in Slots, i + 1 \in Slots,
           NEW a \in Starts, Laid(i, a)
    PROVE  Laid(i, a)'
<1>0. PICK n : n = Len(chunks) OBVIOUS
<1>1. /\ n \in Nat /\ Slots = 1 .. n /\ Slots' = 1 .. (n + 1)
      /\ \A m \in Slots : chunks'[m] = chunks[m] /\ EndOf(m)' = EndOf(m)
  BY <1>0, EmitSlots
<1>2. PICK m \in 1 .. i : chunks[m].at = a BY DEF Laid
<1>3. m \in Slots /\ \A k \in Slots : chunks[k].rec \in Nat BY <1>1, ChunkIs
<1>4. chunks'[m].at = a BY <1>1, <1>2, <1>3
<1>5. shaken' \in Nat /\ shaken' <= shaken /\ shaken \in Nat BY FragmentIs, RecordsIs
<1>6. ASSUME chunks'[i + 1].rec < shaken'
      PROVE  chunks'[i + 1].at = IF a + BlockSize - EndOf(i) < HeaderSize THEN a + BlockSize ELSE EndOf(i)
  <2>1. chunks[i + 1].rec < shaken BY <1>1, <1>3, <1>5, <1>6
  <2> QED BY <1>1, <2>1 DEF Laid
<1>7. a <= chunks'[i].at /\ EndOf(i)' <= a + BlockSize BY <1>1 DEF Laid
<1>8. EndOf(i)' = EndOf(i) BY <1>1
<1> QED BY <1>2, <1>4, <1>6, <1>7, <1>8 DEF Laid

LEMMA Shifted ==
    ASSUME NEW a \in Nat, NEW x \in Nat, NEW y \in Nat, x <= y
    PROVE  a + x <= a + y /\ x = (a + x) - a
OBVIOUS

\* The new fragment is laid after the last one.
LEMMA EmitPlace ==
    ASSUME NEW p, NEW ch, LogType, WritingOK, AlignOK, Emits(p, ch), InPlace(p, ch),
           NEW n, n = Len(chunks), shaken' > p.rec
    PROVE  /\ ch.whole /\ EndOf(n + 1)' = fileLen'
           /\ \E a \in Starts : Laid(n + 1, a)' /\ blockOffset' = fileLen' - a
           /\ n \in Slots => \E a \in Starts : Laid(n, a)'
<1>1. /\ n \in Nat /\ Slots = 1 .. n /\ Slots' = 1 .. (n + 1) /\ Len(chunks') = n + 1
      /\ chunks'[n + 1] = ch
      /\ \A i \in Slots : chunks'[i] = chunks[i] /\ EndOf(i)' = EndOf(i)
      /\ EndOf(n + 1)' = ch.at + HeaderSize + ch.len
  BY EmitSlots
<1>2. /\ p.rec \in Nat /\ ch.at \in Nat /\ ch.len \in Nat /\ ch.rec = p.rec
      /\ shaken' \in Nat /\ shaken' <= shaken
      /\ shaken \in Nat /\ fileLen \in Nat /\ blockOffset \in Nat /\ blockOffset' \in Nat
      /\ BlockSize \in Nat /\ HeaderSize \in Nat /\ HeaderSize >= 1 /\ HeaderSize < BlockSize
  <2>1. blockOffset' \in Nat BY RecordsIs DEF Emits
  <2> QED BY <2>1, FragmentIs, RecordsIs
<1>3. p.rec = Len(records) /\ bufEnd = -1 BY DEF Emits, WritingOK
<1>4. /\ ch.whole /\ blockOffset' <= BlockSize
      /\ IF BlockSize - blockOffset < HeaderSize
         THEN ch.at = fileLen + (BlockSize - blockOffset) /\ blockOffset' = HeaderSize + ch.len
         ELSE ch.at = fileLen /\ blockOffset' = blockOffset + HeaderSize + ch.len
  BY DEF InPlace
<1>5. fileLen' = ch.at + HeaderSize + ch.len BY <1>4 DEF Emits
<1>6. Len(records) < shaken BY <1>2, <1>3
<1>7. n + 1 \in Slots' /\ n + 1 + 1 \notin Slots' BY <1>1
<1>8. ASSUME NEW a \in Starts, a <= ch.at, ch.at + HeaderSize + ch.len <= a + BlockSize,
             NEW m \in 1 .. (n + 1), chunks'[m].at = a
      PROVE  Laid(n + 1, a)'
  <2>1. a <= chunks'[n + 1].at /\ EndOf(n + 1)' <= a + BlockSize BY <1>1, <1>8
  <2> QED BY <1>7, <1>8, <2>1 DEF Laid
<1>9. CASE chunks = <<>>
  <2>1. n = 0 BY <1>9
  <2>2. fileLen = 0 /\ blockOffset = 0 BY <1>3, <1>6, <1>9 DEF AlignOK
  <2>3. ch.at = 0 /\ blockOffset' = HeaderSize + ch.len BY <1>2, <1>4, <2>2
  <2>4. 0 \in Starts BY StartsIs
  <2>5. 0 <= ch.at /\ ch.at + HeaderSize + ch.len <= 0 + BlockSize BY <1>2, <1>4, <2>3
  <2>6. 1 \in 1 .. (n + 1) /\ chunks'[1].at = 0 BY <1>1, <2>1, <2>3
  <2>7. Laid(n + 1, 0)' BY <1>8, <2>4, <2>5, <2>6
  <2>8. blockOffset' = fileLen' - 0 BY <1>2, <1>5, <2>3
  <2> QED BY <1>1, <1>4, <1>5, <2>1, <2>4, <2>7, <2>8
<1>10. CASE chunks # <<>>
  <2>1. n \in Slots /\ n >= 1
    <3>1. n # 0 BY <1>10 DEF LogType
    <3> QED BY <1>1, <3>1
  <2>2. EndOf(n) = fileLen /\ \E a \in Starts : Laid(n, a) /\ blockOffset = fileLen - a
    BY <1>3, <1>6, <1>10 DEF AlignOK
  <2>3. PICK a \in Starts : Laid(n, a) /\ blockOffset = fileLen - a BY <2>2
  <2>4. a \in Nat /\ a + BlockSize \in Starts BY StartsIs
  <2>5. PICK m \in 1 .. n : chunks[m].at = a BY <2>3 DEF Laid
  <2>6. m \in 1 .. (n + 1) /\ chunks'[m].at = a BY <1>1, <2>5
  <2>7. IF a + BlockSize - fileLen < HeaderSize
        THEN ch.at = a + BlockSize /\ blockOffset' = HeaderSize + ch.len
        ELSE ch.at = fileLen /\ blockOffset' = blockOffset + HeaderSize + ch.len
    <3>1. BlockSize - blockOffset = a + BlockSize - fileLen BY <1>2, <2>3, <2>4
    <3>2. fileLen + (BlockSize - blockOffset) = a + BlockSize BY <1>2, <2>3, <2>4
    <3> QED BY <1>4, <3>1, <3>2
  <2>8. Laid(n, a)'
    <3>1. a <= chunks'[n].at /\ EndOf(n)' <= a + BlockSize /\ EndOf(n)' = fileLen
      BY <1>1, <2>1, <2>2, <2>3 DEF Laid
    <3>2. \E k \in 1 .. n : chunks'[k].at = a BY <2>5, <2>6
    <3>3. chunks'[n + 1].at = IF a + BlockSize - EndOf(n)' < HeaderSize THEN a + BlockSize ELSE EndOf(n)'
      BY <1>1, <2>7, <3>1
    <3> QED BY <3>1, <3>2, <3>3 DEF Laid
  <2>9. CASE a + BlockSize - fileLen < HeaderSize
    <3>1. ch.at = a + BlockSize /\ blockOffset' = HeaderSize + ch.len BY <2>7, <2>9
    <3>2. ch.at + HeaderSize + ch.len = (a + BlockSize) + blockOffset' BY <1>2, <2>4, <3>1
    <3>3. /\ a + BlockSize <= ch.at /\ ch.at + HeaderSize + ch.len <= a + BlockSize + BlockSize
          /\ blockOffset' = fileLen' - (a + BlockSize)
      <4>1. fileLen' = (a + BlockSize) + blockOffset' BY <1>5, <3>2
      <4>2. a \in Nat /\ BlockSize \in Nat /\ blockOffset' \in Nat /\ blockOffset' <= BlockSize BY <1>2, <1>4, <2>4
      <4> QED BY <3>1, <3>2, <4>1, <4>2
    <3>4. n + 1 \in 1 .. (n + 1) /\ chunks'[n + 1].at = a + BlockSize BY <1>1, <3>1
    <3>5. Laid(n + 1, a + BlockSize)' BY <1>8, <2>4, <3>3, <3>4
    <3> QED BY <1>1, <1>4, <1>5, <2>4, <2>8, <3>3, <3>5
  <2>10. CASE ~(a + BlockSize - fileLen < HeaderSize)
    <3>1. ch.at = fileLen /\ blockOffset' = blockOffset + HeaderSize + ch.len BY <2>7, <2>10
    <3>2. ch.at = a + blockOffset /\ a <= ch.at BY <1>2, <2>3, <2>4, <3>1
    <3>3. ch.at + HeaderSize + ch.len = a + blockOffset' BY <1>2, <2>4, <3>1, <3>2
    <3>4. ch.at + HeaderSize + ch.len <= a + BlockSize /\ blockOffset' = fileLen' - a
      <4>1. fileLen' = a + blockOffset' BY <1>5, <3>3
      <4>2. a \in Nat /\ BlockSize \in Nat /\ blockOffset' \in Nat /\ blockOffset' <= BlockSize BY <1>2, <1>4, <2>4
      <4>3. a + blockOffset' <= a + BlockSize /\ blockOffset' = (a + blockOffset') - a BY <4>2, Shifted
      <4> QED BY <3>3, <4>1, <4>3
    <3>5. Laid(n + 1, a)' BY <1>8, <2>6, <3>2, <3>4
    <3> QED BY <1>1, <1>4, <1>5, <2>8, <3>4, <3>5
  <2> QED BY <2>9, <2>10
<1> QED BY <1>9, <1>10

LEMMA EmitAlign ==
    ASSUME NEW p, NEW ch, LogType, WritingOK, AlignOK, Emits(p, ch), Goes(p, ch), InPlace(p, ch)
    PROVE  AlignOK'
<1>0. PICK n : n = Len(chunks) OBVIOUS
<1>1. /\ n \in Nat /\ Slots = 1 .. n /\ Slots' = 1 .. (n + 1) /\ Len(chunks') = n + 1
      /\ chunks'[n + 1] = ch
      /\ \A i \in Slots : chunks'[i] = chunks[i] /\ EndOf(i)' = EndOf(i)
  BY <1>0, EmitSlots
<1>2. /\ p.rec \in Nat /\ ch.rec = p.rec /\ shaken' \in Nat /\ shaken' <= shaken /\ shaken \in Nat
      /\ p.rec = Len(records) /\ Len(records') = Len(records)
  BY FragmentIs, RecordsIs, EmitType
<1>3. shaken' > p.rec =>
        /\ ch.whole /\ EndOf(n + 1)' = fileLen'
        /\ \E a \in Starts : Laid(n + 1, a)' /\ blockOffset' = fileLen' - a
        /\ n \in Slots => \E a \in Starts : Laid(n, a)'
  BY <1>0, EmitPlace
<1>4. ASSUME NEW i \in Slots', chunks'[i].rec < shaken'
      PROVE  chunks'[i].whole /\ \E a \in Starts : Laid(i, a)'
  <2>1. CASE i \in Slots
    <3>1. chunks'[i] = chunks[i] /\ EndOf(i)' = EndOf(i) /\ chunks[i].rec \in Nat BY <1>1, <2>1, ChunkIs
    <3>2. chunks[i].rec < shaken BY <1>2, <1>4, <3>1
    <3>3. PICK a \in Starts : Laid(i, a) BY <2>1, <3>2 DEF AlignOK
    <3>4. chunks[i].whole BY <2>1, <3>2 DEF AlignOK
    <3>5. CASE i + 1 \in Slots BY <2>1, <3>1, <3>3, <3>4, <3>5, LaidStays
    <3>6. CASE i + 1 \notin Slots
      <4>1. i = n BY <1>1, <2>1, <3>6
      <4>2. CASE shaken' > p.rec BY <1>3, <2>1, <3>1, <3>4, <4>1, <4>2
      <4>3. CASE ~(shaken' > p.rec)
        <5>1. ~(chunks'[i + 1].rec < shaken') BY <1>1, <1>2, <4>1, <4>3
        <5>2. a <= chunks'[i].at /\ EndOf(i)' <= a + BlockSize BY <3>1, <3>3 DEF Laid
        <5>3. PICK m \in 1 .. i : chunks[m].at = a BY <3>3 DEF Laid
        <5>4. chunks'[m].at = a
          <6>1. m \in Slots BY <1>1, <4>1, <5>3
          <6> QED BY <1>1, <5>3, <6>1
        <5>5. Laid(i, a)' BY <5>1, <5>2, <5>3, <5>4 DEF Laid
        <5> QED BY <3>1, <3>4, <5>5
      <4> QED BY <4>2, <4>3
    <3> QED BY <3>5, <3>6
  <2>2. CASE i = n + 1
    <3>1. shaken' > p.rec BY <1>1, <1>2, <1>4, <2>2
    <3> QED BY <1>1, <1>3, <2>2, <3>1
  <2> QED BY <1>1, <2>1, <2>2
<1>5. chunks' # <<>>
  <2>1. chunks' \in Seq(Chunk) BY DEF Emits, LogType
  <2> QED BY <1>1, <2>1
<1>6. ASSUME Len(records') < shaken'
      PROVE  EndOf(n + 1)' = fileLen' /\ \E a \in Starts : Laid(n + 1, a)' /\ blockOffset' = fileLen' - a
  BY <1>2, <1>3, <1>6
<1>7. ASSUME Len(records') < shaken'
      PROVE  (EndOf(Len(chunks)) = fileLen /\ \E a \in Starts : Laid(Len(chunks), a) /\ blockOffset = fileLen - a)'
  <2>1. EndOf(n + 1)' = fileLen' BY <1>6, <1>7
  <2>2. (EndOf(Len(chunks)))' = fileLen' BY <1>1, <2>1 DEF EndOf
  <2>3. PICK a \in Starts : Laid(n + 1, a)' /\ blockOffset' = fileLen' - a BY <1>6, <1>7
  <2>4. (Laid(Len(chunks), a))' BY <1>1, <2>3 DEF Laid, EndOf
  <2> QED BY <2>2, <2>3, <2>4
<1> QED BY <1>4, <1>5, <1>7 DEF AlignOK

LEMMA EmitKeeps ==
    ASSUME LogInv, EmitPhysicalRecord
    PROVE  LogInv'
<1>1. LogType /\ PartsOK /\ WritingOK /\ LayoutOK /\ AlignOK /\ ReaderOK /\ ReachOK BY DEF LogInv
<1>2. PICK p, ch : Emits(p, ch) /\ Goes(p, ch) /\ InPlace(p, ch) BY <1>1, EmitFacts
<1>3. LogType' BY <1>1, <1>2, EmitType
<1>4. PartsOK' BY <1>1, <1>2, EmitParts
<1>5. WritingOK' BY <1>1, <1>2, EmitWriting
<1>6. LayoutOK' BY <1>1, <1>2, EmitLayout
<1>7. AlignOK' BY <1>1, <1>2, EmitAlign
<1>8. bufEnd' = -1 /\ bufEnd = -1 /\ UNCHANGED <<bufPos, scratch, out>> BY <1>2 DEF Emits
<1>9. bufPos = 0 /\ scratch = <<>> /\ out = <<>> BY <1>1, <1>8 DEF ReaderOK
<1>10. ReaderOK' BY <1>8, <1>9 DEF ReaderOK
<1>11. ReachOK' BY <1>8 DEF ReachOK
<1> QED BY <1>3, <1>4, <1>5, <1>6, <1>7, <1>10, <1>11 DEF LogInv
LEMMA InitHolds ==
    ASSUME LogInit
    PROVE  LogInv
<1>1. /\ chunks = <<>> /\ Slots = {} /\ unwritten = <<>> /\ records = <<>> /\ fileLen = 0
      /\ blockOffset = 0 /\ shaken = MaxRecords + 1 /\ badBytes = {}
      /\ bufEnd = -1 /\ bufPos = 0 /\ scratch = <<>> /\ out = <<>> /\ Len(records) = 0
      /\ BlockSize \in Nat /\ MaxRecords \in Nat
  BY LogAssumption DEF LogInit, Slots
<1>2. LogType BY <1>1 DEF LogType
<1>3. PartsOK BY <1>1 DEF PartsOK
<1>4. WritingOK BY <1>1 DEF WritingOK
<1>5. LayoutOK BY <1>1 DEF LayoutOK
<1>6. AlignOK BY <1>1 DEF AlignOK
<1>7. ReaderOK BY <1>1 DEF ReaderOK
<1>8. ReachOK BY <1>1 DEF ReachOK
<1> QED BY <1>2, <1>3, <1>4, <1>5, <1>6, <1>7, <1>8 DEF LogInv

LEMMA AddRecordKeeps ==
    ASSUME LogInv, NEW n \in Sizes, AddRecord(n)
    PROVE  LogInv'
<1>1. LogType /\ PartsOK /\ WritingOK /\ LayoutOK /\ AlignOK /\ ReaderOK /\ ReachOK BY DEF LogInv
<1> DEFINE k == Len(records) + 1
<1>2. /\ bufEnd = -1 /\ unwritten = <<>> /\ Len(records) < MaxRecords
      /\ records' = Append(records, "open")
      /\ unwritten' = <<[rec |-> Len(records'), left |-> n, part |-> 1]>>
      /\ UNCHANGED <<chunks, fileLen, blockOffset, faults, shaken, badBytes, bufEnd, bufPos, scratch, out>>
  BY DEF AddRecord, Idle
<1>3. /\ Len(records) \in Nat /\ shaken \in Nat /\ MaxRecords \in Nat /\ n \in Nat
      /\ shaken <= Len(records) \/ shaken = MaxRecords + 1
  BY <1>1, RecordsIs, LogAssumption DEF LogType
<1>4. /\ records' \in Seq({"open", "written", "failed"}) /\ Len(records') = k
      /\ records'[k] = "open" /\ \A r \in 1 .. Len(records) : records'[r] = records[r]
  BY <1>1, <1>2 DEF LogType
<1>5. unwritten'[1].rec = k /\ unwritten'[1].part = 1 /\ unwritten'[1] \in Fragments
      /\ unwritten' = <<unwritten'[1]>>
  BY <1>2, <1>3, <1>4 DEF Fragments
<1>6. LogType'
  <2>1. k <= MaxRecords /\ (shaken <= k \/ shaken = MaxRecords + 1) BY <1>2, <1>3
  <2> QED BY <1>1, <1>2, <1>4, <1>5, <2>1 DEF LogType
<1>7. Slots' = Slots /\ chunks' = chunks BY <1>2 DEF Slots
<1>8. \A i \in Slots : chunks[i].rec \in Nat /\ chunks[i].rec <= Len(records) BY <1>1, ChunkIs DEF PartsOK
<1>9. PartsOK'
  <2>1. \A i \in Slots' : chunks'[i].rec <= Len(records') BY <1>3, <1>4, <1>7, <1>8
  <2>2. ASSUME NEW r \in 1 .. Len(records'), records'[r] = "written"
        PROVE  \E i \in Slots' : chunks'[i].rec = r /\ Ends(i)'
    <3>1. r # k BY <1>4, <2>2
    <3>2. r \in 1 .. Len(records) /\ records[r] = "written" BY <1>3, <1>4, <2>2, <3>1
    <3>3. PICK i \in Slots : chunks[i].rec = r /\ Ends(i) BY <1>1, <3>2 DEF PartsOK
    <3> QED BY <1>7, <3>3 DEF Ends
  <2>3. /\ \A i \in Slots : \A m \in 1 .. i :
               /\ chunks[m].rec <= chunks[i].rec
               /\ chunks[m].rec = chunks[i].rec <=> m > i - chunks[i].part
               /\ chunks[m].rec = chunks[i].rec => chunks[m].part = chunks[i].part - (i - m)
        /\ \A i \in Slots : chunks[i].part <= i
        /\ \A i \in Slots : chunks[i].part = 1 <=> chunks[i].type \in {"full", "first"}
        /\ \A i, m \in Slots : i < m /\ (Ends(i) \/ ~chunks[i].whole) => chunks[i].rec < chunks[m].rec
    BY <1>1 DEF PartsOK
  <2>4. \A i : Ends(i)' = Ends(i) BY <1>7 DEF Ends
  <2> QED BY <1>7, <2>1, <2>2, <2>3, <2>4 DEF PartsOK
<1>10. WritingOK'
  <2>1. \A i \in Slots' : chunks'[i].rec < k BY <1>3, <1>7, <1>8
  <2> QED BY <1>2, <1>4, <1>5, <2>1 DEF WritingOK
<1>11. LayoutOK' BY <1>1, <1>2, <1>7 DEF LayoutOK, EndOf
<1>12. \A i, a : Laid(i, a)' <=> Laid(i, a) BY <1>2, <1>7 DEF Laid, EndOf
<1>13. AlignOK'
  <2>1. Len(records') < shaken => Len(records) < shaken BY <1>3, <1>4
  <2>2. \A i : EndOf(i)' = EndOf(i) BY <1>7 DEF EndOf
  <2>3. \A i \in Slots : chunks[i].rec < shaken => chunks[i].whole /\ \E a \in Starts : Laid(i, a)
    BY <1>1 DEF AlignOK
  <2>4. Len(records) < shaken =>
           IF chunks = <<>> THEN fileLen = 0 /\ blockOffset = 0
           ELSE EndOf(Len(chunks)) = fileLen /\ \E a \in Starts : Laid(Len(chunks), a) /\ blockOffset = fileLen - a
    BY <1>1, <1>2 DEF AlignOK
  <2>5. (EndOf(Len(chunks)))' = EndOf(Len(chunks)) BY <1>7 DEF EndOf
  <2>6. \A a : (Laid(Len(chunks), a))' <=> Laid(Len(chunks), a) BY <1>2, <1>7 DEF Laid, EndOf
  <2> QED BY <1>2, <1>7, <1>12, <2>1, <2>2, <2>3, <2>4, <2>5, <2>6 DEF AlignOK
<1>14. bufPos = 0 /\ scratch = <<>> /\ out = <<>> BY <1>1, <1>2 DEF ReaderOK
<1>15. ReaderOK' BY <1>2, <1>14 DEF ReaderOK
<1>16. ReachOK' BY <1>2 DEF ReachOK
<1> QED BY <1>6, <1>9, <1>10, <1>11, <1>13, <1>15, <1>16 DEF LogInv

\* Nothing has been read: everything is ahead.
Unread == bufEnd = 0 /\ bufPos = 0 /\ scratch = <<>> /\ out = <<>> /\ unwritten = <<>>

LEMMA NothingRead == LogType /\ Unread => ReaderOK /\ ReachOK
<1> SUFFICES ASSUME LogType, Unread PROVE ReaderOK /\ ReachOK OBVIOUS
<1> USE DEF Unread
<1>1. 0 \in Starts BY StartsIs
<1>2. BlockSize \in Nat /\ fileLen \in Nat BY RecordsIs
<1>3. ReaderOK
  <2>1. 0 <= bufPos /\ bufEnd <= 0 + BlockSize /\ bufEnd <= fileLen BY <1>2
  <2> QED BY <1>1, <2>1 DEF ReaderOK
<1>4. \A i \in Slots : bufPos <= chunks[i].at /\ ~(chunks[i].at < bufEnd) BY ChunkIs
<1>5. \A r : \A i \in ChunksOf(r) : bufPos <= chunks[i].at BY <1>4 DEF ChunksOf, Slots
<1>6. ReachOK BY <1>4, <1>5 DEF ReachOK
<1> QED BY <1>3, <1>6

LEMMA CrashKeeps ==
    ASSUME LogInv, NEW n \in 0 .. fileLen, Crash(n)
    PROVE  LogInv'
<1>1. LogType /\ PartsOK /\ WritingOK /\ LayoutOK /\ AlignOK /\ ReaderOK /\ ReachOK BY DEF LogInv
<1>2. /\ bufEnd = -1 /\ fileLen' = n /\ unwritten' = <<>> /\ bufEnd' = 0 /\ bufPos' = 0
      /\ UNCHANGED <<chunks, blockOffset, records, faults, shaken, badBytes, scratch, out>>
  BY DEF Crash
<1>3. LogType'
  <2>1. n \in Nat BY <1>1 DEF LogType
  <2> QED BY <1>1, <1>2, <2>1 DEF LogType
<1>4. Slots' = Slots BY <1>2 DEF Slots
<1>5. PartsOK' BY <1>1, <1>2, <1>4 DEF PartsOK, Ends
<1>6. WritingOK' BY <1>2 DEF WritingOK
<1>7. LayoutOK' BY <1>1, <1>2, <1>4 DEF LayoutOK, EndOf
<1>8. AlignOK'
  <2>1. \A i, a : Laid(i, a)' <=> Laid(i, a) BY <1>2, <1>4 DEF Laid, EndOf
  <2> QED BY <1>1, <1>2, <1>4, <2>1 DEF AlignOK
<1>9. scratch = <<>> /\ out = <<>> BY <1>1, <1>2 DEF ReaderOK
<1>10. ReaderOK' /\ ReachOK'
  <2>1. bufEnd' = 0 /\ bufPos' = 0 /\ scratch' = <<>> /\ out' = <<>> /\ unwritten' = <<>> BY <1>2, <1>9
  <2>2. Unread' BY <2>1 DEF Unread
  <2> QED BY <1>3, <2>2, NothingRead, PTL
<1> QED BY <1>3, <1>5, <1>6, <1>7, <1>8, <1>10 DEF LogInv

LEMMA DamageKeeps ==
    ASSUME LogInv, NEW b \in 0 .. (fileLen - 1), Damage(b)
    PROVE  LogInv'
<1>1. LogType /\ PartsOK /\ WritingOK /\ LayoutOK /\ AlignOK /\ ReaderOK /\ ReachOK BY DEF LogInv
<1>2. /\ bufEnd = 0 /\ badBytes' = badBytes \cup {b}
      /\ UNCHANGED <<chunks, fileLen, blockOffset, unwritten, records, shaken, bufEnd, bufPos, scratch, out>>
  BY DEF Damage
<1>3. LogType' BY <1>1, <1>2 DEF LogType
<1>4. Slots' = Slots BY <1>2 DEF Slots
<1>5. PartsOK' BY <1>1, <1>2, <1>4 DEF PartsOK, Ends
<1>6. unwritten = <<>> /\ bufPos = 0 /\ scratch = <<>> /\ out = <<>> BY <1>1, <1>2 DEF ReaderOK
<1>7. WritingOK' BY <1>2, <1>6 DEF WritingOK
<1>8. LayoutOK' BY <1>1, <1>2, <1>4 DEF LayoutOK, EndOf
<1>9. AlignOK'
  <2>1. \A i, a : Laid(i, a)' <=> Laid(i, a) BY <1>2, <1>4 DEF Laid, EndOf
  <2> QED BY <1>1, <1>2, <1>4, <2>1 DEF AlignOK
<1>10. ReaderOK' /\ ReachOK'
  <2>1. bufEnd' = 0 /\ bufPos' = 0 /\ scratch' = <<>> /\ out' = <<>> /\ unwritten' = <<>> BY <1>2, <1>6
  <2>2. Unread' BY <2>1 DEF Unread
  <2> QED BY <1>3, <2>2, NothingRead, PTL
<1> QED BY <1>3, <1>5, <1>7, <1>8, <1>9, <1>10 DEF LogInv
-----------------------------------------------------------------------------
(* The reader: what the block at hand holds. *)

LEMMA BufferIs ==
    ASSUME LogType, ReaderOK, bufEnd >= 0
    PROVE  /\ bufEnd \in Nat /\ bufPos \in Nat /\ bufPos <= bufEnd /\ bufEnd <= fileLen /\ fileLen \in Nat
           /\ bufEnd \in Starts \/ bufEnd = fileLen
           /\ \E a \in Starts : a \in Nat /\ a <= bufPos /\ bufEnd <= a + BlockSize
           /\ BlockSize \in Nat /\ HeaderSize \in Nat /\ HeaderSize >= 1 /\ HeaderSize < BlockSize
           /\ Buffered = bufEnd - bufPos
<1>1. bufEnd \in Int /\ bufPos \in Nat BY DEF LogType
<1>2. bufEnd \in Nat BY <1>1
<1>3. /\ bufPos <= bufEnd /\ bufEnd <= fileLen /\ (bufEnd \in Starts \/ bufEnd = fileLen)
      /\ \E a \in Starts : a <= bufPos /\ bufEnd <= a + BlockSize
  BY DEF ReaderOK
<1>4. Starts \subseteq Nat BY StartsIs
<1> QED BY <1>1, <1>2, <1>3, <1>4, RecordsIs DEF Buffered

\* A fragment of which the reader is past the end is before the one it is at.
LEMMA Earlier ==
    ASSUME LogType, LayoutOK, NEW i \in Slots, NEW k \in Slots, chunks[k].whole,
           EndOf(i) <= chunks[k].at
    PROVE  i < k
<1>1. i \in Nat /\ k \in Nat /\ chunks[i].at \in Nat /\ chunks[k].at \in Nat /\ EndOf(i) \in Nat /\ EndOf(k) \in Nat
      /\ chunks[i].at < EndOf(i) /\ chunks[k].at < EndOf(k)
  BY ChunkIs
<1>2. i # k BY <1>1
<1>3. ~(k < i)
  <2>1. SUFFICES ASSUME k < i PROVE FALSE OBVIOUS
  <2>2. EndOf(k) <= chunks[i].at BY <2>1 DEF LayoutOK
  <2> QED BY <1>1, <2>2
<1> QED BY <1>1, <1>2, <1>3

\* Two whole fragments are not in one place.
LEMMA OnePlace ==
    ASSUME LogType, LayoutOK, NEW i \in Slots, NEW k \in Slots, chunks[i].whole, chunks[k].whole,
           chunks[i].at = chunks[k].at
    PROVE  i = k
<1>1. i \in Nat /\ k \in Nat /\ chunks[i].at \in Nat /\ EndOf(i) \in Nat /\ EndOf(k) \in Nat
      /\ chunks[i].at < EndOf(i) /\ chunks[k].at < EndOf(k)
  BY ChunkIs
<1>2. i < k => EndOf(i) <= chunks[k].at BY DEF LayoutOK
<1>3. k < i => EndOf(k) <= chunks[i].at BY DEF LayoutOK
<1> QED BY <1>1, <1>2, <1>3

LEMMA ReadableIs ==
    ASSUME LogType, NEW k \in Readable
    PROVE  /\ k \in Slots /\ chunks[k].at = bufPos /\ chunks[k].whole /\ EndOf(k) <= bufEnd
           /\ bufPos < EndOf(k) /\ EndOf(k) = bufPos + HeaderSize + chunks[k].len
<1>1. k \in Slots /\ chunks[k].at = bufPos /\ chunks[k].whole BY DEF Readable, Slots
<1>2. EndOf(k) <= bufEnd BY DEF Readable, EndOf
<1> QED BY <1>1, <1>2, ChunkIs

\* The block of a fragment that was not shifted.
LEMMA BlockIs ==
    ASSUME LogType, AlignOK, NEW i \in Slots, chunks[i].rec < shaken, NEW A \in Starts,
           A <= chunks[i].at, chunks[i].at < A + BlockSize
    PROVE  Laid(i, A) /\ EndOf(i) <= A + BlockSize
<1>1. PICK a \in Starts : Laid(i, a) BY DEF AlignOK
<1>2. a <= chunks[i].at /\ EndOf(i) <= a + BlockSize BY <1>1 DEF Laid
<1>3. a \in Nat /\ A \in Nat /\ BlockSize \in Nat BY StartsIs, RecordsIs
<1>4. chunks[i].at \in Nat /\ EndOf(i) \in Nat /\ chunks[i].at < EndOf(i) BY ChunkIs
<1>5. chunks[i].at < a + BlockSize BY <1>2, <1>3, <1>4
<1>6. a = A BY <1>2, <1>4, <1>5, SameBlock
<1> QED BY <1>1, <1>2, <1>6

LEMMA SoundHere ==
    ASSUME LogInv, bufEnd >= 0, NEW i \in Slots, Sound(i), bufPos <= chunks[i].at, chunks[i].at < bufEnd
    PROVE  \E m \in Readable : m \in 1 .. i /\ bufPos + HeaderSize <= bufEnd
<1>1. LogType /\ PartsOK /\ LayoutOK /\ AlignOK /\ ReaderOK /\ ReachOK BY DEF LogInv
<1>2. PICK A \in Starts : A \in Nat /\ A <= bufPos /\ bufEnd <= A + BlockSize BY <1>1, BufferIs
<1>3. /\ bufEnd \in Nat /\ bufPos \in Nat /\ bufPos <= bufEnd /\ bufEnd <= fileLen /\ fileLen \in Nat
      /\ bufEnd \in Starts \/ bufEnd = fileLen
      /\ BlockSize \in Nat /\ HeaderSize \in Nat
  BY <1>1, BufferIs
<1>4. PICK m \in 1 .. i : chunks[m].at = bufPos BY <1>1 DEF ReachOK
<1>5. m \in Slots /\ m \in Nat /\ i \in Nat /\ m <= i BY <1>1, <1>4, ChunkIs
<1>6. /\ chunks[m].rec \in Nat /\ chunks[i].rec \in Nat /\ shaken \in Nat
      /\ chunks[m].at \in Nat /\ chunks[i].at \in Nat /\ EndOf(i) \in Nat /\ EndOf(m) \in Nat
      /\ chunks[i].at < EndOf(i) /\ chunks[m].at + HeaderSize <= EndOf(m) /\ chunks[m].at < EndOf(m)
      /\ EndOf(m) = chunks[m].at + HeaderSize + chunks[m].len
  BY <1>1, <1>5, ChunkIs, RecordsIs
<1>7. chunks[m].rec <= chunks[i].rec /\ chunks[i].rec < shaken /\ EndOf(i) <= fileLen
      /\ BlocksOf(i) \cap DamagedBlocks = {}
  BY <1>1, <1>4 DEF PartsOK, Sound
<1>8. chunks[m].rec < shaken BY <1>6, <1>7
<1>9. chunks[m].whole BY <1>1, <1>5, <1>8 DEF AlignOK
<1>10. EndOf(m) <= A + BlockSize
  <2>1. A <= chunks[m].at /\ chunks[m].at < A + BlockSize BY <1>2, <1>3, <1>4, <1>6
  <2> QED BY <1>1, <1>5, <1>8, <2>1, BlockIs
<1>11. A <= chunks[i].at /\ EndOf(i) <= A + BlockSize
  <2>1. A <= chunks[i].at /\ chunks[i].at < A + BlockSize BY <1>2, <1>3, <1>6
  <2> QED BY <1>1, <1>7, <2>1, BlockIs
<1>12. EndOf(m) <= bufEnd
  <2>1. CASE bufEnd \in Starts
    <3>1. A < bufEnd BY <1>2, <1>3, <1>6
    <3>2. A + BlockSize <= bufEnd BY <2>1, <3>1, StartsApart
    <3> QED BY <1>2, <1>3, <1>6, <1>10, <3>2
  <2>2. CASE bufEnd = fileLen
    <3>1. CASE m = i BY <1>7, <2>2, <3>1
    <3>2. CASE m < i
      <4>1. EndOf(m) <= chunks[i].at BY <1>1, <1>5, <1>9, <3>2 DEF LayoutOK
      <4> QED BY <1>3, <1>6, <4>1
    <3> QED BY <1>5, <3>1, <3>2
  <2> QED BY <1>3, <2>1, <2>2
<1>13. badBytes \cap (chunks[m].at .. (EndOf(m) - 1)) = {}
  <2>1. SUFFICES ASSUME NEW b \in badBytes, b \in chunks[m].at .. (EndOf(m) - 1) PROVE FALSE OBVIOUS
  <2>2. b \in A .. (A + BlockSize - 1) BY <1>2, <1>3, <1>4, <1>6, <1>10, <2>1
  <2>3. b \div BlockSize = A \div BlockSize BY <2>2, StartsDiv
  <2>4. chunks[i].at \in A .. (A + BlockSize - 1) /\ EndOf(i) - 1 \in A .. (A + BlockSize - 1)
    BY <1>2, <1>3, <1>6, <1>11
  <2>5. chunks[i].at \div BlockSize = A \div BlockSize /\ (EndOf(i) - 1) \div BlockSize = A \div BlockSize
    BY <2>4, StartsDiv
  <2>6. A \div BlockSize \in Int BY <1>2, LogAssumption
  <2>7. A \div BlockSize \in BlocksOf(i) BY <2>5, <2>6 DEF BlocksOf
  <2>8. A \div BlockSize \in DamagedBlocks BY <2>1, <2>3 DEF DamagedBlocks
  <2> QED BY <1>7, <2>7, <2>8
<1>14. m \in Readable BY <1>4, <1>5, <1>6, <1>9, <1>12, <1>13 DEF Readable, Slots
<1> QED BY <1>3, <1>4, <1>6, <1>12, <1>14

\* What follows the fragment that was put in scratch last.
LEMMA NextAfter ==
    ASSUME LogInv, NEW j \in Slots, Scratched(j), NEW k \in Readable, chunks[k].part # 1
    PROVE  k = j + 1 /\ chunks[k].rec = chunks[j].rec /\ chunks[k].part = chunks[j].part + 1
<1>1. LogType /\ PartsOK /\ LayoutOK BY DEF LogInv
<1>2. k \in Slots /\ chunks[k].at = bufPos /\ chunks[k].whole BY <1>1, ReadableIs
<1>3. /\ k \in Nat /\ j \in Nat /\ 1 .. k \subseteq Slots /\ k >= 1 /\ j >= 1
      /\ chunks[k].part \in Nat /\ chunks[k].part >= 1 /\ chunks[k].rec \in Nat
      /\ EndOf(j) \in Nat /\ bufPos \in Nat /\ HeaderSize \in Nat
  BY <1>1, <1>2, ChunkIs, RecordsIs
<1>4. chunks[k].part <= k BY <1>1, <1>2 DEF PartsOK
<1>5. PICK m : m = k - 1 OBVIOUS
<1>6. m \in 1 .. k /\ m \in Slots /\ m > k - chunks[k].part /\ m < k /\ k - m = 1 BY <1>3, <1>4, <1>5
<1>7. chunks[m].rec = chunks[k].rec /\ chunks[m].part = chunks[k].part - (k - m) BY <1>1, <1>2, <1>6 DEF PartsOK
<1>8. chunks[m].whole
  <2>1. ~chunks[m].whole => chunks[m].rec < chunks[k].rec BY <1>1, <1>2, <1>6 DEF PartsOK
  <2> QED BY <1>3, <1>7, <2>1
<1>9. EndOf(m) <= bufPos BY <1>1, <1>2, <1>6, <1>8 DEF LayoutOK
<1>10. /\ chunks[j].whole /\ EndOf(j) <= bufPos
       /\ bufPos = EndOf(j) \/ bufPos < EndOf(j) + HeaderSize
  BY DEF Scratched
<1>11. j < k BY <1>1, <1>2, <1>10, Earlier
<1>12. ~(j < m)
  <2>1. SUFFICES ASSUME j < m PROVE FALSE OBVIOUS
  <2>2. EndOf(j) <= chunks[m].at BY <1>1, <1>6, <1>10, <2>1 DEF LayoutOK
  <2>3. bufPos = EndOf(j) \/ bufPos < EndOf(j) + HeaderSize BY <1>10
  <2>4. chunks[m].at \in Nat /\ EndOf(m) \in Nat /\ chunks[m].at + HeaderSize <= EndOf(m) BY <1>1, <1>6, ChunkIs
  <2>5. HeaderSize >= 1 BY <1>1, RecordsIs
  <2>6. EndOf(j) + HeaderSize <= bufPos BY <1>3, <1>9, <2>2, <2>4
  <2>7. EndOf(j) \in Nat /\ bufPos \in Nat /\ HeaderSize \in Nat BY <1>3
  <2>8. ~(bufPos < EndOf(j) + HeaderSize) /\ bufPos # EndOf(j) BY <2>5, <2>6, <2>7
  <2> QED BY <2>8, <2>3
<1>13. j = m BY <1>3, <1>5, <1>11, <1>12
<1>14. k = j + 1 /\ chunks[k].part = chunks[j].part + 1
  <2>1. chunks[j].part = chunks[k].part - 1 BY <1>6, <1>7, <1>13
  <2> QED BY <1>3, <1>5, <1>13, <2>1
<1> QED BY <1>7, <1>13, <1>14

\* The next fragment of a safe record that is being read.
LEMMA InProgress ==
    ASSUME LogInv, bufEnd >= 0, NEW j \in Slots, Scratched(j), Safe(chunks[j].rec)
    PROVE  /\ j + 1 \in Slots /\ chunks[j + 1].rec = chunks[j].rec /\ chunks[j + 1].part = chunks[j].part + 1
           /\ Sound(j + 1) /\ bufPos <= chunks[j + 1].at
           /\ Buffered >= HeaderSize => chunks[j + 1].at = bufPos
<1> DEFINE r == chunks[j].rec
<1>1. LogType /\ PartsOK /\ LayoutOK /\ AlignOK /\ ReaderOK BY DEF LogInv
<1>2. /\ chunks[j].whole /\ ~Ends(j) /\ EndOf(j) <= bufPos
      /\ \/ bufPos = EndOf(j)
         \/ bufPos < EndOf(j) + HeaderSize /\ bufPos \in Starts
  BY DEF Scratched
<1>3. r \in 1 .. Len(records) /\ r \in Nat
  <2>1. r \in Nat /\ r >= 1 BY <1>1, ChunkIs
  <2>2. r <= Len(records) BY <1>1 DEF PartsOK
  <2> HIDE DEF r
  <2> QED BY <1>1, <2>1, <2>2, RecordsIs
<1>4. records[r] = "written" /\ r < shaken BY DEF Safe
<1>5. PICK e \in Slots : chunks[e].rec = r /\ Ends(e) BY <1>1, <1>3, <1>4 DEF PartsOK
<1>6. /\ e \in Nat /\ j \in Nat /\ 1 .. e \subseteq Slots /\ j >= 1 BY <1>1, ChunkIs
<1>7. e > j
  <2>1. e # j BY <1>2, <1>5
  <2>2. ~(e < j)
    <3>1. e < j => chunks[e].rec < r BY <1>1, <1>5 DEF PartsOK
    <3> QED BY <1>3, <1>5, <3>1
  <2> QED BY <1>6, <2>1, <2>2
<1>8. PICK m : m = j + 1 OBVIOUS
<1>9. m \in Slots /\ j \in 1 .. m /\ m \in 1 .. e /\ j < m BY <1>6, <1>7, <1>8
<1>10. chunks[m].rec = r
  <2>1. chunks[j].rec <= chunks[m].rec /\ chunks[m].rec <= chunks[e].rec BY <1>1, <1>5, <1>9 DEF PartsOK
  <2>2. chunks[m].rec \in Nat BY <1>1, <1>9, ChunkIs
  <2> QED BY <1>3, <1>5, <2>1, <2>2
<1>11. chunks[m].part = chunks[j].part + 1
  <2>1. chunks[j].part = chunks[m].part - (m - j) BY <1>1, <1>9, <1>10 DEF PartsOK
  <2>2. chunks[m].part \in Nat /\ m - j = 1 BY <1>1, <1>6, <1>8, <1>9, ChunkIs
  <2> QED BY <2>1, <2>2
<1>12. Sound(m)
  <2>1. m \in ChunksOf(r) BY <1>9, <1>10 DEF ChunksOf, Slots
  <2> QED BY <1>4, <1>10, <2>1 DEF Safe, Sound
<1>13. PICK a \in Starts : Laid(j, a) BY <1>1, <1>4 DEF AlignOK
<1>14. /\ a <= chunks[j].at /\ EndOf(j) <= a + BlockSize
       /\ chunks[m].at = IF a + BlockSize - EndOf(j) < HeaderSize THEN a + BlockSize ELSE EndOf(j)
  BY <1>4, <1>8, <1>9, <1>10, <1>13 DEF Laid
<1>15. /\ a \in Nat /\ a + BlockSize \in Starts /\ chunks[j].at \in Nat /\ chunks[m].at \in Nat
       /\ EndOf(j) \in Nat /\ chunks[j].at < EndOf(j)
       /\ bufEnd \in Nat /\ bufPos \in Nat /\ bufPos <= bufEnd
       /\ BlockSize \in Nat /\ HeaderSize \in Nat /\ HeaderSize >= 1 /\ HeaderSize < BlockSize
       /\ Buffered = bufEnd - bufPos
  BY <1>1, <1>9, StartsIs, ChunkIs, BufferIs
<1>16. CASE bufPos # EndOf(j)
  <2>1. EndOf(j) < bufPos /\ bufPos < EndOf(j) + HeaderSize /\ bufPos \in Starts BY <1>2, <1>15, <1>16
  <2>2. a < bufPos BY <1>14, <1>15, <2>1
  <2>3. a + BlockSize <= bufPos BY <2>1, <2>2, StartsApart
  <2>4. ~(a + BlockSize < bufPos)
    <3>1. SUFFICES ASSUME a + BlockSize < bufPos PROVE FALSE OBVIOUS
    <3>2. a + BlockSize + BlockSize <= bufPos BY <1>15, <2>1, <3>1, StartsApart
    <3> QED BY <1>14, <1>15, <2>1, <3>2
  <2>5. bufPos = a + BlockSize BY <1>15, <2>3, <2>4
  <2>6. chunks[m].at = bufPos BY <1>14, <1>15, <2>1, <2>5
  <2> QED BY <1>8, <1>9, <1>10, <1>11, <1>12, <1>15, <2>6
<1>17. CASE bufPos = EndOf(j)
  <2>1. bufPos <= chunks[m].at BY <1>14, <1>15, <1>17
  <2>2. ASSUME Buffered >= HeaderSize PROVE chunks[m].at = bufPos
    <3>1. SUFFICES ASSUME a + BlockSize - EndOf(j) < HeaderSize, EndOf(j) < a + BlockSize PROVE FALSE
      BY <1>14, <1>15, <1>17
    <3>2. PICK A \in Starts : A \in Nat /\ A <= bufPos /\ bufEnd <= A + BlockSize BY <1>1, BufferIs
    <3>3. bufPos < A + BlockSize BY <1>15, <2>2, <3>2
    <3>4. a <= bufPos /\ bufPos < a + BlockSize BY <1>14, <1>15, <1>17, <3>1
    <3>5. a = A BY <1>15, <3>2, <3>3, <3>4, SameBlock
    <3> QED BY <1>15, <1>17, <2>2, <3>1, <3>2, <3>5
  <2> QED BY <1>8, <1>9, <1>10, <1>11, <1>12, <2>1, <2>2
<1> QED BY <1>16, <1>17
-----------------------------------------------------------------------------
(* The reader: a step changes only what it has in hand. *)

Reads ==
    /\ UNCHANGED <<chunks, fileLen, blockOffset, unwritten, records, faults, shaken, badBytes>>
    /\ bufEnd >= 0 /\ bufEnd' \in Nat /\ bufEnd' > 0 /\ bufPos' \in Nat
    /\ bufPos <= bufPos' /\ bufPos' <= bufEnd'

LEMMA ReadsSame ==
    ASSUME Reads
    PROVE  /\ Slots' = Slots /\ chunks' = chunks /\ records' = records
           /\ \A i : EndOf(i)' = EndOf(i) /\ Ends(i)' = Ends(i) /\ Upto(i)' = Upto(i)
           /\ \A i : Sound(i)' = Sound(i)
           /\ \A i, a : Laid(i, a)' = Laid(i, a)
           /\ \A r : Safe(r)' = Safe(r) /\ PartsOf(r)' = PartsOf(r) /\ ChunksOf(r)' = ChunksOf(r)
<1>1. UNCHANGED <<chunks, fileLen, records, shaken, badBytes>> BY DEF Reads
<1>2. Slots' = Slots BY <1>1 DEF Slots
<1>3. \A i : EndOf(i)' = EndOf(i) /\ Ends(i)' = Ends(i) /\ Upto(i)' = Upto(i) BY <1>1 DEF EndOf, Ends, Upto
<1>4. \A r : PartsOf(r)' = PartsOf(r) /\ ChunksOf(r)' = ChunksOf(r) BY <1>1 DEF PartsOf, ChunksOf
<1>5. DamagedBlocks' = DamagedBlocks BY <1>1 DEF DamagedBlocks
<1>6. \A i : BlocksOf(i)' = BlocksOf(i) BY <1>1, <1>3 DEF BlocksOf
<1>7. \A i : Sound(i)' = Sound(i) BY <1>1, <1>3, <1>5, <1>6 DEF Sound
<1>8. \A r : Safe(r)' = Safe(r) BY <1>1, <1>3, <1>4, <1>5, <1>6 DEF Safe
<1>9. \A i, a : Laid(i, a)' = Laid(i, a) BY <1>1, <1>2, <1>3 DEF Laid
<1> QED BY <1>1, <1>2, <1>3, <1>4, <1>7, <1>8, <1>9

LEMMA ReadsKeeps ==
    ASSUME LogInv, Reads
    PROVE  LogType' /\ PartsOK' /\ WritingOK' /\ LayoutOK' /\ AlignOK'
<1>1. LogType /\ PartsOK /\ LayoutOK /\ AlignOK /\ ReaderOK BY DEF LogInv
<1>2. /\ UNCHANGED <<chunks, fileLen, blockOffset, unwritten, records, shaken, badBytes>>
      /\ bufEnd >= 0 /\ bufEnd' \in Nat /\ bufEnd' > 0 /\ bufPos' \in Nat
  BY DEF Reads
<1>3. LogType' BY <1>1, <1>2 DEF LogType
<1>4. Slots' = Slots /\ \A i : EndOf(i)' = EndOf(i) /\ Ends(i)' = Ends(i) BY ReadsSame
<1>5. PartsOK' BY <1>1, <1>2, <1>4 DEF PartsOK
<1>6. unwritten' = <<>> BY <1>1, <1>2 DEF ReaderOK
<1>7. WritingOK' BY <1>6 DEF WritingOK
<1>8. bufEnd' # -1 BY <1>2
<1>9. LayoutOK' BY <1>1, <1>2, <1>4, <1>8 DEF LayoutOK
<1>10. AlignOK'
  <2>1. \A i, a : Laid(i, a)' = Laid(i, a) BY ReadsSame
  <2> QED BY <1>1, <1>2, <1>4, <1>8, <2>1 DEF AlignOK
<1> QED BY <1>3, <1>5, <1>7, <1>9, <1>10

\* What was returned stays returned.
LEMMA ReturnedStays ==
    ASSUME LogInv, Reads, NEW x \in DOMAIN out, x \in DOMAIN out', out'[x] = out[x]
    PROVE  \E i \in Slots' : Returned(x, i)'
<1>1. PICK i \in Slots : Returned(x, i) BY DEF LogInv, ReaderOK
<1>2. Slots' = Slots /\ EndOf(i)' = EndOf(i) /\ Ends(i)' = Ends(i) /\ Upto(i)' = Upto(i) /\ chunks' = chunks
  BY ReadsSame
<1>3. EndOf(i) <= bufPos'
  <2>1. EndOf(i) <= bufPos BY <1>1 DEF Returned
  <2>2. EndOf(i) \in Nat /\ bufPos \in Nat /\ bufPos' \in Nat /\ bufPos <= bufPos'
    BY ChunkIs DEF LogInv, LogType, Reads
  <2> QED BY <2>1, <2>2
<1> QED BY <1>1, <1>2, <1>3 DEF Returned

\* The conjuncts of ReaderOK that are about the buffer.
BufferOK ==
    /\ unwritten = <<>> /\ bufPos <= bufEnd /\ bufEnd <= fileLen
    /\ bufEnd \in Starts \/ bufEnd = fileLen
    /\ \E a \in Starts : a <= bufPos /\ bufEnd <= a + BlockSize

-----------------------------------------------------------------------------
(* The next block. *)

LEMMA RefillFacts ==
    ASSUME LogInv, Refill
    PROVE  /\ Reads /\ bufEnd' \in Nat /\ bufPos' = bufEnd /\ bufEnd < fileLen /\ bufEnd \in Starts
           /\ bufEnd' = fileLen \/ bufEnd' = bufEnd + BlockSize
           /\ bufEnd < bufEnd' /\ bufEnd' <= fileLen /\ bufEnd' <= bufEnd + BlockSize
           /\ Buffered < HeaderSize /\ UNCHANGED <<scratch, out>>
<1>1. LogType /\ ReaderOK BY DEF LogInv
<1>2. /\ bufEnd >= 0 /\ Buffered < HeaderSize /\ bufEnd < fileLen
      /\ bufEnd' = Lesser(bufEnd + BlockSize, fileLen) /\ bufPos' = bufEnd
      /\ UNCHANGED <<chunks, fileLen, blockOffset, unwritten, records, faults, shaken, badBytes, scratch, out>>
  BY DEF Refill
<1>3. /\ bufEnd \in Nat /\ bufPos \in Nat /\ bufPos <= bufEnd /\ bufEnd <= fileLen /\ fileLen \in Nat
      /\ bufEnd \in Starts \/ bufEnd = fileLen
      /\ BlockSize \in Nat /\ HeaderSize \in Nat /\ HeaderSize >= 1 /\ HeaderSize < BlockSize
  BY <1>1, <1>2, BufferIs
<1>4. /\ bufEnd' \in Nat /\ (bufEnd' = fileLen \/ bufEnd' = bufEnd + BlockSize)
      /\ bufEnd < bufEnd' /\ bufEnd' <= fileLen /\ bufEnd' <= bufEnd + BlockSize
  BY <1>2, <1>3 DEF Lesser
<1>5. bufEnd \in Starts BY <1>2, <1>3
<1>6. Reads BY <1>2, <1>3, <1>4 DEF Reads
<1> QED BY <1>2, <1>4, <1>5, <1>6

LEMMA RefillReader ==
    ASSUME LogInv, Refill
    PROVE  ReaderOK'
<1>1. LogType /\ ReaderOK BY DEF LogInv
<1>2. /\ Reads /\ bufEnd' \in Nat /\ bufPos' = bufEnd /\ bufEnd < fileLen /\ bufEnd \in Starts
      /\ bufEnd' = fileLen \/ bufEnd' = bufEnd + BlockSize
      /\ bufEnd < bufEnd' /\ bufEnd' <= fileLen /\ bufEnd' <= bufEnd + BlockSize
      /\ Buffered < HeaderSize /\ UNCHANGED <<scratch, out>>
  BY RefillFacts
<1>3. UNCHANGED <<fileLen, unwritten, chunks>> /\ bufEnd >= 0 BY <1>2 DEF Reads
<1>4. /\ bufEnd \in Nat /\ bufPos \in Nat /\ bufPos <= bufEnd /\ fileLen \in Nat
      /\ BlockSize \in Nat /\ HeaderSize \in Nat /\ HeaderSize >= 1 /\ HeaderSize < BlockSize
      /\ Buffered = bufEnd - bufPos
  BY <1>1, <1>3, BufferIs
<1>5. unwritten = <<>> BY <1>1, <1>3 DEF ReaderOK
<1>6. BufferOK'
  <2>1. \/ bufEnd' \in Starts \/ bufEnd' = fileLen' BY <1>2, <1>3, StartsIs
  <2>2. bufPos' <= bufEnd' /\ bufEnd' <= fileLen' BY <1>2, <1>3, <1>4
  <2>3. bufEnd <= bufPos' /\ bufEnd' <= bufEnd + BlockSize BY <1>2, <1>4
  <2> QED BY <1>2, <1>3, <1>5, <2>1, <2>2, <2>3 DEF BufferOK
<1>7. Slots' = Slots /\ \A i : EndOf(i)' = EndOf(i) /\ Ends(i)' = Ends(i) /\ Upto(i)' = Upto(i)
  BY <1>2, ReadsSame
<1>8. ASSUME scratch' # <<>> PROVE \E i \in Slots' : Scratched(i)'
  <2>1. PICK j \in Slots : Scratched(j) BY <1>1, <1>2, <1>8 DEF ReaderOK
  <2>2. /\ chunks[j].whole /\ ~Ends(j) /\ scratch = Upto(j) /\ EndOf(j) <= bufPos
        /\ \/ bufPos = EndOf(j)
           \/ bufEnd = fileLen \/ Buffered >= HeaderSize
    BY <2>1 DEF Scratched
  <2>3. EndOf(j) \in Nat BY <1>1, ChunkIs
  <2>4. bufPos = EndOf(j) BY <1>2, <1>4, <2>2
  <2>5. EndOf(j) <= bufPos' /\ bufPos' < EndOf(j) + HeaderSize /\ bufPos' \in Starts
    BY <1>2, <1>4, <2>3, <2>4
  <2>6. bufEnd' = fileLen' \/ bufEnd' - bufPos' >= HeaderSize
    <3>1. CASE bufEnd' = fileLen BY <1>3, <3>1
    <3>2. CASE bufEnd' = bufEnd + BlockSize
      <4>1. bufEnd' - bufPos' = (bufEnd + BlockSize) - bufEnd BY <1>2, <3>2
      <4> QED BY <1>4, <4>1
    <3> QED BY <1>2, <3>1, <3>2
  <2>7. Scratched(j)' BY <1>2, <1>3, <1>7, <2>2, <2>5, <2>6 DEF Scratched, Buffered
  <2> QED BY <1>7, <2>7
<1>9. \A x \in DOMAIN out' : \E i \in Slots' : Returned(x, i)' BY <1>2, ReturnedStays
<1>10. ~(bufEnd' <= 0) BY <1>2, <1>4
<1>11. /\ out' \in Seq(Seq(Nat \X Nat))
       /\ \A x, y \in DOMAIN out' : x < y => out'[x][1][1] < out'[y][1][1]
  BY <1>1, <1>2 DEF ReaderOK
<1> QED BY <1>6, <1>8, <1>9, <1>10, <1>11 DEF ReaderOK, BufferOK

LEMMA RefillReach ==
    ASSUME LogInv, Refill
    PROVE  ReachOK'
<1>1. LogType /\ PartsOK /\ AlignOK /\ ReaderOK /\ ReachOK BY DEF LogInv
<1>2. /\ Reads /\ bufEnd' \in Nat /\ bufPos' = bufEnd /\ bufEnd < fileLen /\ bufEnd \in Starts
      /\ bufEnd < bufEnd' /\ bufEnd' <= bufEnd + BlockSize
      /\ Buffered < HeaderSize /\ UNCHANGED <<scratch, out>>
  BY RefillFacts
<1>3. bufEnd >= 0 BY <1>2 DEF Reads
<1>4. /\ bufEnd \in Nat /\ bufPos \in Nat /\ BlockSize \in Nat /\ HeaderSize \in Nat
      /\ Buffered = bufEnd - bufPos
  BY <1>1, <1>3, BufferIs
<1>5. /\ Slots' = Slots /\ chunks' = chunks /\ records' = records
      /\ \A i : Sound(i)' = Sound(i)
      /\ \A r : Safe(r)' = Safe(r) /\ PartsOf(r)' = PartsOf(r) /\ ChunksOf(r)' = ChunksOf(r)
  BY <1>2, ReadsSame
<1>6. ASSUME NEW i \in Slots, Sound(i), bufPos <= chunks[i].at PROVE bufEnd <= chunks[i].at
  <2>1. chunks[i].at \in Nat BY <1>1, ChunkIs
  <2>2. chunks[i].at < bufEnd => bufPos + HeaderSize <= bufEnd BY <1>3, <1>6, SoundHere
  <2> QED BY <1>2, <1>4, <2>1, <2>2
<1>7. ASSUME NEW i \in Slots, Sound(i), bufEnd <= chunks[i].at, chunks[i].at < bufEnd'
      PROVE  \E m \in 1 .. i : chunks[m].at = bufEnd
  <2>1. chunks[i].at < bufEnd + BlockSize
    <3>1. chunks[i].at \in Nat BY <1>1, ChunkIs
    <3> QED BY <1>2, <1>4, <1>7, <3>1
  <2>2. chunks[i].rec < shaken BY <1>7 DEF Sound
  <2>3. Laid(i, bufEnd) BY <1>1, <1>2, <1>7, <2>1, <2>2, BlockIs
  <2> QED BY <2>3 DEF Laid
<1>8. ASSUME NEW r \in 1 .. Len(records), Safe(r)
      PROVE  \/ \E x \in DOMAIN out : out[x] = PartsOf(r)
             \/ \A i \in ChunksOf(r) : bufEnd <= chunks[i].at
             \/ scratch # <<>> /\ scratch[1][1] = r
  <2>1. \A i \in ChunksOf(r) : i \in Slots /\ Sound(i) BY <1>8 DEF ChunksOf, Slots, Safe, Sound
  <2>2. (\A i \in ChunksOf(r) : bufPos <= chunks[i].at) => \A i \in ChunksOf(r) : bufEnd <= chunks[i].at
    BY <1>6, <2>1
  <2> QED BY <1>1, <1>3, <1>8, <2>2 DEF ReachOK
<1> QED BY <1>2, <1>5, <1>7, <1>8 DEF ReachOK

-----------------------------------------------------------------------------
(* The rest of the block is dropped. *)

LEMMA DropFacts ==
    ASSUME LogInv, DropBlock
    PROVE  /\ Reads /\ bufEnd >= 0 /\ bufEnd \in Nat /\ bufPos' = bufEnd /\ bufEnd' = bufEnd
           /\ scratch' = <<>> /\ out' = out /\ Readable = {} /\ Buffered >= HeaderSize
<1>1. LogType /\ ReaderOK BY DEF LogInv
<1>2. /\ Buffered >= HeaderSize /\ Readable = {} /\ bufPos' = bufEnd /\ scratch' = <<>>
      /\ UNCHANGED <<chunks, fileLen, blockOffset, unwritten, records, faults, shaken, badBytes, bufEnd, out>>
  BY DEF DropBlock
<1>3. bufEnd \in Int /\ bufPos \in Nat /\ HeaderSize \in Nat /\ HeaderSize >= 1 BY <1>1, RecordsIs DEF LogType
<1>4. bufEnd >= 0 /\ bufEnd > 0 /\ bufEnd \in Nat /\ bufPos <= bufEnd BY <1>2, <1>3 DEF Buffered
<1>5. Reads BY <1>2, <1>3, <1>4 DEF Reads
<1> QED BY <1>2, <1>4, <1>5

LEMMA DropReader ==
    ASSUME LogInv, DropBlock
    PROVE  ReaderOK'
<1>1. LogType /\ ReaderOK BY DEF LogInv
<1>2. /\ Reads /\ bufEnd >= 0 /\ bufEnd \in Nat /\ bufPos' = bufEnd /\ bufEnd' = bufEnd
      /\ scratch' = <<>> /\ out' = out
  BY DropFacts
<1>3. UNCHANGED <<fileLen, unwritten>> /\ bufEnd' > 0 BY <1>2 DEF Reads
<1>4. BufferOK BY <1>1, <1>2 DEF ReaderOK, BufferOK
<1>5. BufferOK'
  <2>1. PICK a \in Starts : a <= bufPos /\ bufEnd <= a + BlockSize BY <1>4 DEF BufferOK
  <2>2. a \in Nat /\ bufPos \in Nat /\ bufPos <= bufEnd /\ a <= bufPos BY <1>1, <1>2, <2>1, StartsIs, BufferIs
  <2>3. a <= bufEnd BY <1>2, <2>2
  <2>4. bufEnd <= bufEnd BY <1>2
  <2> QED BY <1>2, <1>3, <1>4, <2>1, <2>3, <2>4 DEF BufferOK
<1>6. \A x \in DOMAIN out' : \E i \in Slots' : Returned(x, i)' BY <1>2, ReturnedStays
<1>7. ~(bufEnd' <= 0) BY <1>2, <1>3
<1>8. /\ out' \in Seq(Seq(Nat \X Nat))
      /\ \A x, y \in DOMAIN out' : x < y => out'[x][1][1] < out'[y][1][1]
  BY <1>1, <1>2 DEF ReaderOK
<1> QED BY <1>2, <1>5, <1>6, <1>7, <1>8 DEF ReaderOK, BufferOK

LEMMA ScratchIs ==
    ASSUME LogType, ReaderOK, scratch # <<>>
    PROVE  \E j \in Slots : Scratched(j) /\ scratch = Upto(j) /\ scratch[1][1] = chunks[j].rec
<1>1. PICK j \in Slots : Scratched(j) BY DEF ReaderOK
<1>2. scratch = Upto(j) BY <1>1 DEF Scratched
<1>3. Upto(j)[1][1] = chunks[j].rec BY UptoIs
<1> QED BY <1>1, <1>2, <1>3

LEMMA DropReach ==
    ASSUME LogInv, DropBlock
    PROVE  ReachOK'
<1>1. LogType /\ ReaderOK /\ ReachOK BY DEF LogInv
<1>2. /\ Reads /\ bufEnd >= 0 /\ bufEnd \in Nat /\ bufPos' = bufEnd /\ bufEnd' = bufEnd
      /\ scratch' = <<>> /\ out' = out /\ Readable = {} /\ Buffered >= HeaderSize
  BY DropFacts
<1>3. /\ Slots' = Slots /\ chunks' = chunks /\ records' = records
      /\ \A i : Sound(i)' = Sound(i)
      /\ \A r : Safe(r)' = Safe(r) /\ PartsOf(r)' = PartsOf(r) /\ ChunksOf(r)' = ChunksOf(r)
  BY <1>2, ReadsSame
<1>4. ASSUME NEW i \in Slots, Sound(i), bufPos <= chunks[i].at PROVE bufEnd <= chunks[i].at
  <2>1. chunks[i].at \in Nat BY <1>1, ChunkIs
  <2>2. ~(chunks[i].at < bufEnd) BY <1>2, <1>4, SoundHere
  <2> QED BY <1>2, <2>1, <2>2
<1>5. ASSUME NEW i \in Slots PROVE ~(bufEnd <= chunks[i].at /\ chunks[i].at < bufEnd)
  <2>1. chunks[i].at \in Nat BY <1>1, ChunkIs
  <2> QED BY <1>2, <2>1
<1>6. ASSUME NEW r \in 1 .. Len(records), Safe(r)
      PROVE  \/ \E x \in DOMAIN out : out[x] = PartsOf(r)
             \/ \A i \in ChunksOf(r) : bufEnd <= chunks[i].at
  <2>1. \A i \in ChunksOf(r) : i \in Slots /\ Sound(i) BY <1>6 DEF ChunksOf, Slots, Safe, Sound
  <2>2. CASE \E x \in DOMAIN out : out[x] = PartsOf(r) BY <2>2
  <2>3. CASE \A i \in ChunksOf(r) : bufPos <= chunks[i].at BY <1>4, <2>1, <2>3
  <2>4. CASE scratch # <<>> /\ scratch[1][1] = r
    <3>1. PICK j \in Slots : Scratched(j) /\ chunks[j].rec = r BY <1>1, <2>4, ScratchIs
    <3>2. j + 1 \in Slots /\ Sound(j + 1) /\ bufPos <= chunks[j + 1].at /\ chunks[j + 1].at = bufPos
      BY <1>2, <1>6, <3>1, InProgress
    <3>3. bufEnd <= chunks[j + 1].at BY <1>4, <3>2
    <3>4. bufPos < bufEnd
      <4>1. HeaderSize \in Nat /\ HeaderSize >= 1 /\ bufPos \in Nat /\ Buffered = bufEnd - bufPos
        BY <1>1, <1>2, BufferIs
      <4> QED BY <1>2, <4>1
    <3>5. bufPos \in Nat BY <1>1, <1>2, BufferIs
    <3> QED BY <1>2, <3>2, <3>3, <3>4, <3>5
  <2> QED BY <1>1, <1>2, <1>6, <2>2, <2>3, <2>4 DEF ReachOK
<1> QED BY <1>2, <1>3, <1>5, <1>6 DEF ReachOK
-----------------------------------------------------------------------------
(* A fragment is read. *)

\* What the reader does with the fragment k.
Takes(k) ==
    LET ch == chunks[k]
    IN  CASE ch.type = "full"   -> out' = Append(out, <<Fragment(ch)>>) /\ scratch' = <<>>
          [] ch.type = "first"  -> scratch' = <<Fragment(ch)>> /\ UNCHANGED out
          [] ch.type = "middle" -> /\ scratch' = IF scratch = <<>> THEN <<>>
                                                 ELSE Append(scratch, Fragment(ch))
                                   /\ UNCHANGED out
          [] ch.type = "last"   -> /\ scratch' = <<>>
                                   /\ out' = IF scratch = <<>> THEN out
                                             ELSE Append(out, Append(scratch, Fragment(ch)))

\* A record that is put together is that of the fragments up to the last one read.
LEMMA UptoNext ==
    ASSUME LogType, NEW j \in Slots, j + 1 \in Slots, chunks[j + 1].rec = chunks[j].rec,
           chunks[j + 1].part = chunks[j].part + 1
    PROVE  Append(Upto(j), Fragment(chunks[j + 1])) = Upto(j + 1)
<1> DEFINE s == Append(Upto(j), Fragment(chunks[j + 1]))
           t == Upto(j + 1)
           r == chunks[j].rec
           k == chunks[j].part
<1>1. r \in Nat /\ k \in Nat /\ k >= 1 BY ChunkIs
<1>2. Upto(j) \in Seq(Nat \X Nat) /\ Len(Upto(j)) = k /\ t \in Seq(Nat \X Nat) /\ Len(t) = k + 1
  BY UptoIs
<1>3. Fragment(chunks[j + 1]) = <<r, k + 1>> BY DEF Fragment
<1>4. \A n \in 1 .. k : Upto(j)[n] = <<r, n>> BY DEF Upto
<1>5. \A n \in 1 .. (k + 1) : t[n] = <<r, n>> BY DEF Upto
<1> HIDE DEF r, k, t
<1>6. /\ s \in Seq(Nat \X Nat) /\ Len(s) = k + 1
      /\ \A n \in 1 .. k : s[n] = Upto(j)[n]
      /\ s[k + 1] = <<r, k + 1>>
  BY <1>1, <1>2, <1>3
<1> HIDE DEF s
<1>7. ASSUME NEW n \in 1 .. (k + 1) PROVE s[n] = t[n]
  <2>1. CASE n \in 1 .. k BY <1>4, <1>5, <1>6, <2>1
  <2>2. CASE n = k + 1 BY <1>5, <1>6, <2>2
  <2>3. n \in 1 .. k \/ n = k + 1 BY <1>1
  <2> QED BY <2>1, <2>2, <2>3
<1>8. s = t BY <1>1, <1>2, <1>6, <1>7
<1> QED BY <1>8 DEF s, t

\* A fragment that is read begins a record or goes on with the one in scratch.
LEMMA TakesFacts ==
    ASSUME LogInv, ReadFragment
    PROVE  \E k \in Readable :
             /\ Reads /\ bufEnd' = bufEnd /\ bufPos' = EndOf(k) /\ Buffered >= HeaderSize
             /\ \/ scratch' = <<>> /\ out' = out /\ scratch = <<>> /\ chunks[k].part # 1
                \/ scratch' = <<>> /\ out' = Append(out, Upto(k)) /\ Ends(k)
                \/ scratch' = Upto(k) /\ out' = out /\ ~Ends(k)
<1>1. LogType /\ PartsOK /\ ReaderOK BY DEF LogInv
<1>2. /\ Buffered >= HeaderSize
      /\ UNCHANGED <<chunks, fileLen, blockOffset, unwritten, records, faults, shaken, badBytes, bufEnd>>
      /\ \E k \in Readable : bufPos' = bufPos + HeaderSize + chunks[k].len /\ Takes(k)
  BY DEF ReadFragment, Takes
<1>3. PICK k \in Readable : bufPos' = bufPos + HeaderSize + chunks[k].len /\ Takes(k) BY <1>2
<1>4. /\ k \in Slots /\ chunks[k].whole /\ EndOf(k) <= bufEnd
      /\ bufPos < EndOf(k) /\ EndOf(k) = bufPos + HeaderSize + chunks[k].len
  BY <1>1, ReadableIs
<1>5. Reads
  <2>1. /\ bufEnd \in Int /\ bufPos \in Nat /\ EndOf(k) \in Nat BY <1>1, <1>4, ChunkIs DEF LogType
  <2>2. bufEnd \in Nat /\ bufEnd > 0 BY <1>4, <2>1
  <2>3. bufPos' \in Nat /\ bufPos <= bufPos' /\ bufPos' <= bufEnd' BY <1>2, <1>3, <1>4, <2>1, <2>2
  <2> QED BY <1>2, <2>2, <2>3 DEF Reads
<1>6. chunks[k].type \in {"full", "first", "middle", "last"} /\ (chunks[k].part = 1 <=> chunks[k].type \in {"full", "first"})
  <2>1. chunks[k] \in Chunk BY <1>1, <1>4, ChunkIs
  <2> QED BY <1>1, <1>4, <2>1 DEF Chunk, PartsOK
<1>7. ASSUME scratch # <<>>, chunks[k].part # 1
      PROVE  Append(scratch, Fragment(chunks[k])) = Upto(k)
  <2>1. PICK j \in Slots : Scratched(j) /\ scratch = Upto(j) BY <1>1, <1>7, ScratchIs
  <2>2. k = j + 1 /\ chunks[k].rec = chunks[j].rec /\ chunks[k].part = chunks[j].part + 1
    BY <1>7, <2>1, NextAfter
  <2> QED BY <1>1, <1>4, <2>1, <2>2, UptoNext
<1>8. chunks[k].part = 1 => <<Fragment(chunks[k])>> = Upto(k) BY <1>1, <1>4, UptoIs
<1>9. \/ scratch' = <<>> /\ out' = out /\ scratch = <<>> /\ chunks[k].part # 1
      \/ scratch' = <<>> /\ out' = Append(out, Upto(k)) /\ Ends(k)
      \/ scratch' = Upto(k) /\ out' = out /\ ~Ends(k)
  <2>1. CASE chunks[k].type = "full"
    <3>1. out' = Append(out, <<Fragment(chunks[k])>>) /\ scratch' = <<>> BY <1>3, <2>1 DEF Takes
    <3> QED BY <1>6, <1>8, <2>1, <3>1 DEF Ends
  <2>2. CASE chunks[k].type = "first"
    <3>1. scratch' = <<Fragment(chunks[k])>> /\ out' = out BY <1>3, <2>2 DEF Takes
    <3> QED BY <1>6, <1>8, <2>2, <3>1 DEF Ends
  <2>3. CASE chunks[k].type = "middle"
    <3>1. /\ scratch' = IF scratch = <<>> THEN <<>> ELSE Append(scratch, Fragment(chunks[k]))
          /\ out' = out
      BY <1>3, <2>3 DEF Takes
    <3>2. chunks[k].part # 1 /\ ~Ends(k) BY <1>6, <2>3 DEF Ends
    <3> QED BY <1>7, <3>1, <3>2
  <2>4. CASE chunks[k].type = "last"
    <3>1. /\ scratch' = <<>>
          /\ out' = IF scratch = <<>> THEN out ELSE Append(out, Append(scratch, Fragment(chunks[k])))
      BY <1>3, <2>4 DEF Takes
    <3>2. chunks[k].part # 1 /\ Ends(k) BY <1>6, <2>4 DEF Ends
    <3> QED BY <1>7, <3>1, <3>2
  <2> QED BY <1>6, <2>1, <2>2, <2>3, <2>4
<1> QED BY <1>2, <1>3, <1>4, <1>5, <1>9

\* A record that is returned comes after those returned before.
LEMMA ReturnedBefore ==
    ASSUME LogInv, NEW k \in Readable, NEW x \in DOMAIN out
    PROVE  out[x][1][1] < chunks[k].rec
<1>1. LogType /\ PartsOK /\ LayoutOK /\ ReaderOK BY DEF LogInv
<1>2. PICK i \in Slots : Returned(x, i) BY <1>1 DEF ReaderOK
<1>3. Ends(i) /\ EndOf(i) <= bufPos /\ out[x] = Upto(i) BY <1>2 DEF Returned
<1>4. k \in Slots /\ chunks[k].at = bufPos /\ chunks[k].whole BY <1>1, ReadableIs
<1>5. i < k BY <1>1, <1>3, <1>4, Earlier
<1>6. chunks[i].rec < chunks[k].rec BY <1>1, <1>3, <1>4, <1>5 DEF PartsOK
<1>7. Upto(i)[1][1] = chunks[i].rec BY <1>1, UptoIs
<1> QED BY <1>3, <1>6, <1>7

LEMMA FragmentReader ==
    ASSUME LogInv, ReadFragment
    PROVE  ReaderOK'
<1>1. LogType /\ ReaderOK BY DEF LogInv
<1>2. PICK k \in Readable :
             /\ Reads /\ bufEnd' = bufEnd /\ bufPos' = EndOf(k) /\ Buffered >= HeaderSize
             /\ \/ scratch' = <<>> /\ out' = out /\ scratch = <<>> /\ chunks[k].part # 1
                \/ scratch' = <<>> /\ out' = Append(out, Upto(k)) /\ Ends(k)
                \/ scratch' = Upto(k) /\ out' = out /\ ~Ends(k)
  BY TakesFacts
<1>3. k \in Slots /\ chunks[k].whole /\ EndOf(k) <= bufEnd /\ bufPos < EndOf(k) BY <1>1, ReadableIs
<1>4. /\ UNCHANGED <<fileLen, unwritten>> /\ bufEnd' \in Nat /\ bufEnd' > 0 /\ bufEnd >= 0
      /\ bufPos' \in Nat /\ bufPos <= bufPos' /\ bufPos' <= bufEnd'
  BY <1>2 DEF Reads
<1>5. /\ Slots' = Slots /\ chunks' = chunks
      /\ \A i : EndOf(i)' = EndOf(i) /\ Ends(i)' = Ends(i) /\ Upto(i)' = Upto(i)
  BY <1>2, ReadsSame
<1>6. EndOf(k) \in Nat BY <1>1, <1>3, ChunkIs
<1>7. BufferOK'
  <2>1. BufferOK BY <1>1, <1>4 DEF ReaderOK, BufferOK
  <2>2. PICK a \in Starts : a <= bufPos /\ bufEnd <= a + BlockSize BY <2>1 DEF BufferOK
  <2>3. a <= bufPos'
    <3>1. a \in Nat /\ bufPos \in Nat BY <1>1, StartsIs DEF LogType
    <3> QED BY <1>4, <2>2, <3>1
  <2> QED BY <1>2, <1>4, <2>1, <2>2, <2>3 DEF BufferOK
<1>8. ASSUME scratch' # <<>> PROVE \E i \in Slots' : Scratched(i)'
  <2>1. scratch' = Upto(k) /\ ~Ends(k) BY <1>2, <1>8
  <2>2. EndOf(k) <= bufPos' BY <1>2, <1>6
  <2>3. Scratched(k)' BY <1>2, <1>3, <1>5, <2>1, <2>2 DEF Scratched
  <2> QED BY <1>3, <1>5, <2>3
<1>0. PICK S : S = Seq(Nat \X Nat) OBVIOUS
<1>9. out \in Seq(S) /\ Upto(k) \in S BY <1>0, <1>1, <1>3, UptoIs DEF ReaderOK
<1>10. \/ out' = out
       \/ out' = Append(out, Upto(k)) /\ Ends(k)
  BY <1>2
<1>11. out' \in Seq(S) BY <1>9, <1>10
<1>12. ASSUME NEW x \in DOMAIN out'
       PROVE  \/ x \in DOMAIN out /\ out'[x] = out[x]
              \/ x = Len(out) + 1 /\ out'[x] = Upto(k) /\ Ends(k)
  BY <1>9, <1>10
<1>13. ASSUME NEW x \in DOMAIN out' PROVE \E i \in Slots' : Returned(x, i)'
  <2>1. CASE x \in DOMAIN out /\ out'[x] = out[x] BY <1>2, <2>1, ReturnedStays
  <2>2. CASE out'[x] = Upto(k) /\ Ends(k)
    <3>1. EndOf(k) <= bufPos' BY <1>2, <1>6
    <3>2. Returned(x, k)' BY <1>3, <1>5, <2>2, <3>1 DEF Returned
    <3> QED BY <1>3, <1>5, <3>2
  <2> QED BY <1>12, <2>1, <2>2
<1>14. ASSUME NEW x \in DOMAIN out', NEW y \in DOMAIN out', x < y
       PROVE  out'[x][1][1] < out'[y][1][1]
  <2>1. x \in Nat /\ y \in Nat /\ Len(out) \in Nat /\ DOMAIN out = 1 .. Len(out) BY <1>9, <1>11
  <2>2. CASE y \in DOMAIN out /\ out'[y] = out[y]
    <3>1. x \in DOMAIN out /\ out'[x] = out[x] BY <1>12, <1>14, <2>1, <2>2
    <3>2. out[x][1][1] < out[y][1][1] BY <1>1, <1>14, <2>2, <3>1 DEF ReaderOK
    <3> QED BY <2>2, <3>1, <3>2
  <2>3. CASE y = Len(out) + 1 /\ out'[y] = Upto(k)
    <3>1. x \in DOMAIN out /\ out'[x] = out[x] BY <1>12, <1>14, <2>1, <2>3
    <3>2. out[x][1][1] < chunks[k].rec BY <3>1, ReturnedBefore
    <3>3. Upto(k)[1][1] = chunks[k].rec BY <1>1, <1>3, UptoIs
    <3> QED BY <2>3, <3>1, <3>2, <3>3
  <2> QED BY <1>12, <2>2, <2>3
<1>15. ~(bufEnd' <= 0) BY <1>4
<1> QED BY <1>0, <1>7, <1>8, <1>11, <1>13, <1>14, <1>15 DEF ReaderOK, BufferOK
\* After a fragment is read, what can be reached begins at the next one.
LEMMA FragmentNext ==
    ASSUME LogInv, NEW k \in Readable, NEW i \in Slots, bufEnd >= 0,
           Sound(i), EndOf(k) <= chunks[i].at, chunks[i].at < bufEnd
    PROVE  \E m \in 1 .. i : chunks[m].at = EndOf(k)
<1>1. LogType /\ PartsOK /\ LayoutOK /\ AlignOK /\ ReaderOK BY DEF LogInv
<1>2. /\ k \in Slots /\ chunks[k].at = bufPos /\ chunks[k].whole /\ EndOf(k) <= bufEnd /\ bufPos < EndOf(k)
  BY <1>1, ReadableIs
<1>3. /\ bufEnd \in Nat /\ bufPos \in Nat /\ BlockSize \in Nat /\ HeaderSize \in Nat /\ shaken \in Nat
      /\ chunks[i].at \in Nat /\ EndOf(k) \in Nat /\ EndOf(i) \in Nat /\ chunks[i].at < EndOf(i)
  BY <1>1, <1>2, BufferIs, ChunkIs, RecordsIs
<1>4. bufPos <= chunks[i].at BY <1>2, <1>3
<1>5. k < i
  <2>1. PICK m \in Readable : m \in 1 .. i BY <1>4, SoundHere
  <2>2. m \in Slots /\ chunks[m].at = bufPos /\ chunks[m].whole BY <1>1, <2>1, ReadableIs
  <2>3. k = m BY <1>1, <1>2, <2>2, OnePlace
  <2>4. k # i BY <1>2, <1>3
  <2>5. k \in Nat /\ i \in Nat BY <1>1, <1>2, ChunkIs
  <2> QED BY <2>1, <2>3, <2>4, <2>5
<1>6. PICK m : m = k + 1 OBVIOUS
<1>7. m \in Slots /\ m \in 1 .. i /\ k \in 1 .. i /\ m <= i
  <2>1. k \in Nat /\ i \in Nat /\ k >= 1 /\ 1 .. i \subseteq Slots BY <1>1, <1>2, ChunkIs
  <2> QED BY <1>5, <1>6, <2>1
<1>8. chunks[m].rec < shaken /\ chunks[k].rec < shaken
  <2>1. chunks[m].rec <= chunks[i].rec /\ chunks[k].rec <= chunks[i].rec BY <1>1, <1>7 DEF PartsOK
  <2>2. chunks[i].rec < shaken BY DEF Sound
  <2>3. chunks[m].rec \in Nat /\ chunks[k].rec \in Nat /\ chunks[i].rec \in Nat BY <1>1, <1>2, <1>7, ChunkIs
  <2> QED BY <1>3, <2>1, <2>2, <2>3
<1>9. PICK A \in Starts : A \in Nat /\ A <= bufPos /\ bufEnd <= A + BlockSize BY <1>1, BufferIs
<1>10. Laid(k, A)
  <2>1. A <= chunks[k].at /\ chunks[k].at < A + BlockSize BY <1>2, <1>3, <1>9
  <2> QED BY <1>1, <1>2, <1>8, <2>1, BlockIs
<1>11. chunks[m].at = IF A + BlockSize - EndOf(k) < HeaderSize THEN A + BlockSize ELSE EndOf(k)
  BY <1>6, <1>7, <1>8, <1>10 DEF Laid
<1>12. chunks[m].at <= chunks[i].at
  <2>1. m = i \/ m < i
    <3>1. m \in Nat /\ i \in Nat BY <1>1, <1>7, ChunkIs
    <3> QED BY <1>7, <3>1
  <2>2. m < i => chunks[m].at <= chunks[i].at BY <1>1, <1>7 DEF LayoutOK
  <2>3. m = i => chunks[m].at <= chunks[i].at BY <1>3
  <2> QED BY <2>1, <2>2, <2>3
<1>13. chunks[m].at = EndOf(k)
  <2>1. ~(A + BlockSize <= chunks[m].at)
    <3>1. chunks[m].at \in Nat BY <1>1, <1>7, ChunkIs
    <3> QED BY <1>3, <1>9, <1>12, <3>1
  <2>2. A + BlockSize <= A + BlockSize BY <1>3, <1>9
  <2> QED BY <1>11, <2>1, <2>2
<1> QED BY <1>7, <1>13

\* A safe record that was ahead, and of which the reader has a fragment now.
LEMMA FragmentBegins ==
    ASSUME LogInv, NEW k \in Readable, NEW r, r = chunks[k].rec, r < shaken,
           \A i \in ChunksOf(r) : bufPos <= chunks[i].at
    PROVE  chunks[k].part = 1
<1>1. LogType /\ PartsOK /\ LayoutOK /\ AlignOK BY DEF LogInv
<1>2. k \in Slots /\ chunks[k].at = bufPos BY <1>1, ReadableIs
<1>3. /\ k \in Nat /\ k >= 1 /\ 1 .. k \subseteq Slots /\ chunks[k].part \in Nat /\ chunks[k].part >= 1
      /\ chunks[k].part <= k
  BY <1>1, <1>2, ChunkIs DEF PartsOK
<1>4. SUFFICES ASSUME chunks[k].part # 1 PROVE FALSE OBVIOUS
<1>5. PICK m : m = k - 1 OBVIOUS
<1>6. m \in 1 .. k /\ m \in Slots /\ m > k - chunks[k].part /\ m < k BY <1>3, <1>4, <1>5
<1>7. chunks[m].rec = r BY <1>1, <1>2, <1>6 DEF PartsOK
<1>8. m \in ChunksOf(r) BY <1>6, <1>7 DEF ChunksOf, Slots
<1>9. chunks[m].whole BY <1>1, <1>6, <1>7 DEF AlignOK
<1>10. EndOf(m) <= bufPos BY <1>1, <1>2, <1>6, <1>9 DEF LayoutOK
<1>11. bufPos <= chunks[m].at BY <1>8
<1>12. chunks[m].at \in Nat /\ EndOf(m) \in Nat /\ chunks[m].at < EndOf(m) /\ bufPos \in Nat
  BY <1>1, <1>6, ChunkIs DEF LogType
<1> QED BY <1>10, <1>11, <1>12

LEMMA FragmentReach ==
    ASSUME LogInv, ReadFragment
    PROVE  ReachOK'
<1>1. LogType /\ PartsOK /\ LayoutOK /\ AlignOK /\ ReaderOK /\ ReachOK BY DEF LogInv
<1>2. PICK k \in Readable :
             /\ Reads /\ bufEnd' = bufEnd /\ bufPos' = EndOf(k) /\ Buffered >= HeaderSize
             /\ \/ scratch' = <<>> /\ out' = out /\ scratch = <<>> /\ chunks[k].part # 1
                \/ scratch' = <<>> /\ out' = Append(out, Upto(k)) /\ Ends(k)
                \/ scratch' = Upto(k) /\ out' = out /\ ~Ends(k)
  BY TakesFacts
<1>3. /\ k \in Slots /\ chunks[k].at = bufPos /\ chunks[k].whole /\ EndOf(k) <= bufEnd /\ bufPos < EndOf(k)
  BY <1>1, ReadableIs
<1>4. /\ Slots' = Slots /\ chunks' = chunks /\ records' = records
      /\ \A i : Sound(i)' = Sound(i)
      /\ \A r : Safe(r)' = Safe(r) /\ PartsOf(r)' = PartsOf(r) /\ ChunksOf(r)' = ChunksOf(r)
  BY <1>2, ReadsSame
<1>5. bufEnd >= 0 BY <1>2 DEF Reads
<1>6. /\ Upto(k) # <<>> /\ Upto(k)[1][1] = chunks[k].rec BY <1>1, <1>3, UptoIs
<1>7. Ends(k) => PartsOf(chunks[k].rec) = Upto(k) BY <1>1, <1>3, PartsOfIs
<1>8. /\ \A x \in DOMAIN out : x \in DOMAIN out' /\ out'[x] = out[x]
      /\ out' = Append(out, Upto(k)) => \E x \in DOMAIN out' : out'[x] = Upto(k)
  <2>1. PICK S : S = Seq(Nat \X Nat) OBVIOUS
  <2>2. out \in Seq(S) /\ Upto(k) \in S BY <1>1, <1>3, <2>1, UptoIs DEF ReaderOK
  <2>3. \/ out' = out
        \/ out' = Append(out, Upto(k))
    BY <1>2
  <2>4. ASSUME out' = Append(out, Upto(k)) PROVE \E x \in DOMAIN out' : out'[x] = Upto(k)
    <3>1. Len(out) + 1 \in DOMAIN out' /\ out'[Len(out) + 1] = Upto(k) BY <2>2, <2>4
    <3> QED BY <3>1
  <2>5. \A x \in DOMAIN out : x \in DOMAIN out' /\ out'[x] = out[x] BY <2>2, <2>3
  <2> QED BY <2>4, <2>5
\* The record of which the fragment was read is returned, or in scratch.
<1>9. ASSUME scratch # <<>> \/ chunks[k].part = 1
      PROVE  \/ \E x \in DOMAIN out' : out'[x] = PartsOf(chunks[k].rec)
             \/ scratch' # <<>> /\ scratch'[1][1] = chunks[k].rec
  BY <1>2, <1>6, <1>7, <1>8, <1>9
<1>10. ASSUME NEW r \in 1 .. Len(records), Safe(r)
       PROVE  \/ \E x \in DOMAIN out' : out'[x] = PartsOf(r)
              \/ \A i \in ChunksOf(r) : EndOf(k) <= chunks[i].at
              \/ scratch' # <<>> /\ scratch'[1][1] = r
  <2>1. \A i \in ChunksOf(r) : i \in Slots /\ Sound(i) /\ chunks[i].rec = r
    BY <1>10 DEF ChunksOf, Slots, Safe, Sound
  <2>2. CASE \E x \in DOMAIN out : out[x] = PartsOf(r) BY <1>8, <2>2
  <2>3. CASE \A i \in ChunksOf(r) : bufPos <= chunks[i].at
    <3>1. CASE chunks[k].rec = r
      <4>1. r < shaken BY <1>10 DEF Safe
      <4>2. chunks[k].part = 1 BY <2>3, <3>1, <4>1, FragmentBegins
      <4> QED BY <1>9, <3>1, <4>2
    <3>2. CASE chunks[k].rec # r
      <4>1. ASSUME NEW i \in ChunksOf(r) PROVE EndOf(k) <= chunks[i].at
        <5>1. i \in Slots /\ Sound(i) /\ chunks[i].rec = r /\ bufPos <= chunks[i].at BY <2>1, <2>3
        <5>2. chunks[i].whole BY <1>1, <5>1 DEF AlignOK, Sound
        <5>3. i # k BY <3>2, <5>1
        <5>4. /\ chunks[i].at \in Nat /\ EndOf(i) \in Nat /\ chunks[i].at < EndOf(i) /\ bufPos \in Nat
              /\ i \in Nat /\ k \in Nat
          BY <1>1, <1>3, <5>1, ChunkIs DEF LogType
        <5>5. i < k => EndOf(i) <= bufPos BY <1>1, <1>3, <5>1, <5>2 DEF LayoutOK
        <5>6. k < i BY <5>1, <5>3, <5>4, <5>5
        <5> QED BY <1>1, <1>3, <5>1, <5>6 DEF LayoutOK
      <4> QED BY <4>1
    <3> QED BY <3>1, <3>2
  <2>4. CASE scratch # <<>> /\ scratch[1][1] = r
    <3>1. PICK j \in Slots : Scratched(j) /\ chunks[j].rec = r BY <1>1, <2>4, ScratchIs
    <3>2. /\ j + 1 \in Slots /\ chunks[j + 1].rec = r /\ Sound(j + 1) /\ chunks[j + 1].at = bufPos
      BY <1>2, <1>5, <1>10, <3>1, InProgress
    <3>3. chunks[j + 1].whole BY <1>1, <3>2 DEF AlignOK, Sound
    <3>4. k = j + 1 BY <1>1, <1>3, <3>2, <3>3, OnePlace
    <3> QED BY <1>9, <2>4, <3>2, <3>4
  <2> QED BY <1>1, <1>5, <1>10, <2>2, <2>3, <2>4 DEF ReachOK
<1>11. \A i \in Slots : Sound(i) /\ EndOf(k) <= chunks[i].at /\ chunks[i].at < bufEnd =>
               \E m \in 1 .. i : chunks[m].at = EndOf(k)
  BY <1>5, FragmentNext
<1> QED BY <1>2, <1>4, <1>10, <1>11 DEF ReachOK

-----------------------------------------------------------------------------
(* The theorems. *)

LEMMA NextKeeps ==
    ASSUME LogInv, [LogNext]_logVars
    PROVE  LogInv'
<1>1. ASSUME NEW n \in Sizes, AddRecord(n) PROVE LogInv' BY <1>1, AddRecordKeeps
<1>2. CASE EmitPhysicalRecord BY <1>2, EmitKeeps
<1>3. ASSUME NEW n \in 0 .. fileLen, Crash(n) PROVE LogInv' BY <1>3, CrashKeeps
<1>4. ASSUME NEW b \in 0 .. (fileLen - 1), Damage(b) PROVE LogInv' BY <1>4, DamageKeeps
<1>5. CASE Refill
  <2>1. Reads BY <1>5, RefillFacts
  <2>2. LogType' /\ PartsOK' /\ WritingOK' /\ LayoutOK' /\ AlignOK' BY <2>1, ReadsKeeps
  <2>3. ReaderOK' /\ ReachOK' BY <1>5, RefillReader, RefillReach
  <2> QED BY <2>2, <2>3 DEF LogInv
<1>6. CASE ReadFragment
  <2>1. Reads BY <1>6, TakesFacts
  <2>2. LogType' /\ PartsOK' /\ WritingOK' /\ LayoutOK' /\ AlignOK' BY <2>1, ReadsKeeps
  <2>3. ReaderOK' /\ ReachOK' BY <1>6, FragmentReader, FragmentReach
  <2> QED BY <2>2, <2>3 DEF LogInv
<1>7. CASE DropBlock
  <2>1. Reads BY <1>7, DropFacts
  <2>2. LogType' /\ PartsOK' /\ WritingOK' /\ LayoutOK' /\ AlignOK' BY <2>1, ReadsKeeps
  <2>3. ReaderOK' /\ ReachOK' BY <1>7, DropReader, DropReach
  <2> QED BY <2>2, <2>3 DEF LogInv
<1>8. CASE UNCHANGED logVars
  <2>1. UNCHANGED <<chunks, fileLen, blockOffset, unwritten, records, shaken, badBytes,
                    bufEnd, bufPos, scratch, out>>
    BY <1>8 DEF logVars
  <2>2. LogType' BY <2>1 DEF LogInv, LogType
  <2>3. PartsOK' BY <2>1 DEF LogInv, PartsOK, Slots, Ends
  <2>4. WritingOK' BY <2>1 DEF LogInv, WritingOK, Slots, Ends
  <2>5. LayoutOK' BY <2>1 DEF LogInv, LayoutOK, Slots, EndOf
  <2>6. AlignOK' BY <2>1 DEF LogInv, AlignOK, Slots, Laid, EndOf
  <2>7. ReaderOK' BY <2>1 DEF LogInv, ReaderOK, Scratched, Returned, Slots, Ends, EndOf, Upto, Buffered
  <2>8. ReachOK'
    <3>1. /\ Slots' = Slots /\ DamagedBlocks' = DamagedBlocks
          /\ \A i : EndOf(i)' = EndOf(i) /\ BlocksOf(i)' = BlocksOf(i)
          /\ \A r : ChunksOf(r)' = ChunksOf(r) /\ PartsOf(r)' = PartsOf(r)
      BY <2>1 DEF Slots, DamagedBlocks, EndOf, BlocksOf, ChunksOf, PartsOf
    <3>2. \A i : Sound(i)' = Sound(i) BY <2>1, <3>1 DEF Sound
    <3>3. \A r : Safe(r)' = Safe(r) BY <2>1, <3>1 DEF Safe
    <3> QED BY <2>1, <3>1, <3>2, <3>3 DEF LogInv, ReachOK
  <2> QED BY <2>2, <2>3, <2>4, <2>5, <2>6, <2>7, <2>8 DEF LogInv
<1> QED BY <1>1, <1>2, <1>3, <1>4, <1>5, <1>6, <1>7, <1>8 DEF LogNext

\* The inductive invariant of the log: the writer's fragments are consecutive and in
\* place, and the reader has missed none it could read.
THEOREM LogInvariant == LogSpec => []LogInv
<1>1. LogInit => LogInv BY InitHolds
<1>2. LogInv /\ [LogNext]_logVars => LogInv' BY NextKeeps
<1> QED BY <1>1, <1>2, PTL DEF LogSpec

LEMMA InvReadsTrue ==
    ASSUME LogInv
    PROVE  ReaderIsTrue
<1>1. LogType /\ PartsOK /\ LayoutOK /\ AlignOK /\ ReaderOK /\ ReachOK BY DEF LogInv
<1>2. Len(records) \in Nat /\ DOMAIN records = 1 .. Len(records) BY <1>1, RecordsIs
<1>3. ASSUME AllRead, NEW r \in DOMAIN records, Safe(r)
      PROVE  \E x \in DOMAIN out : out[x] = PartsOf(r)
  <2>1. bufEnd = fileLen /\ Buffered < HeaderSize /\ bufEnd >= 0 BY <1>1, <1>3, RecordsIs DEF AllRead
  <2>2. bufEnd \in Nat /\ bufPos \in Nat /\ HeaderSize \in Nat /\ Buffered = bufEnd - bufPos
    BY <1>1, <2>1, BufferIs
  <2>3. ASSUME NEW i \in Slots, Sound(i), bufPos <= chunks[i].at PROVE FALSE
    <3>1. EndOf(i) <= bufEnd BY <2>1, <2>3 DEF Sound
    <3>2. chunks[i].at \in Nat /\ EndOf(i) \in Nat /\ chunks[i].at < EndOf(i) BY <1>1, ChunkIs
    <3>3. chunks[i].at < bufEnd BY <2>2, <3>1, <3>2
    <3>4. bufPos + HeaderSize <= bufEnd BY <2>1, <2>3, <3>3, SoundHere
    <3> QED BY <2>1, <2>2, <3>4
  <2>4. CASE \A i \in ChunksOf(r) : bufPos <= chunks[i].at
    <3>1. records[r] = "written" BY <1>3 DEF Safe
    <3>2. PICK e \in Slots : chunks[e].rec = r /\ Ends(e) BY <1>1, <1>2, <3>1 DEF PartsOK
    <3>3. e \in ChunksOf(r) BY <3>2 DEF ChunksOf, Slots
    <3>4. Sound(e) BY <1>3, <3>2, <3>3 DEF Safe, Sound
    <3> QED BY <2>3, <2>4, <3>3, <3>4
  <2>5. CASE scratch # <<>> /\ scratch[1][1] = r
    <3>1. PICK j \in Slots : Scratched(j) /\ chunks[j].rec = r BY <1>1, <2>5, ScratchIs
    <3>2. j + 1 \in Slots /\ Sound(j + 1) /\ bufPos <= chunks[j + 1].at BY <1>3, <2>1, <3>1, InProgress
    <3> QED BY <2>3, <3>2
  <2> QED BY <1>1, <1>2, <1>3, <2>1, <2>4, <2>5 DEF ReachOK
<1>4. ASSUME NEW x \in DOMAIN out
      PROVE  \E r \in DOMAIN records :
                 /\ out[x] = PartsOf(r)
                 /\ \E n \in ChunksOf(r) : chunks[n].type \in {"full", "last"}
  <2>1. PICK i \in Slots : Returned(x, i) BY <1>1 DEF ReaderOK
  <2>2. Ends(i) /\ out[x] = Upto(i) BY <2>1 DEF Returned
  <2>3. PartsOf(chunks[i].rec) = Upto(i) /\ i \in ChunksOf(chunks[i].rec) BY <1>1, <2>2, PartsOfIs
  <2>4. chunks[i].rec \in DOMAIN records
    <3>1. chunks[i].rec \in Nat /\ chunks[i].rec >= 1 BY <1>1, ChunkIs
    <3>2. chunks[i].rec <= Len(records) BY <1>1 DEF PartsOK
    <3> QED BY <1>2, <3>1, <3>2
  <2>5. chunks[i].type \in {"full", "last"} BY <2>2 DEF Ends
  <2> QED BY <2>2, <2>3, <2>4, <2>5
<1>5. SafeRecordsAreRead BY <1>3 DEF SafeRecordsAreRead
<1>6. \A x, y \in DOMAIN out : x < y => out[x][1][1] < out[y][1][1] BY <1>1 DEF ReaderOK
<1>7. NothingInvented BY <1>4, <1>6 DEF NothingInvented
<1> QED BY <1>5, <1>7 DEF ReaderIsTrue

\* Whatever the sizes of the blocks and the records, wherever the file is cut and
\* whichever bytes are bad, log::Reader returns every record that is safe and makes
\* up none.
THEOREM ReaderIsRight == LogSpec => []ReaderIsTrue
<1>1. LogInv => ReaderIsTrue BY InvReadsTrue
<1> QED BY <1>1, LogInvariant, PTL
=============================================================================

-------------------------------- MODULE Repo --------------------------------
(***************************************************************************)
(* Firebase's FRepo over its connection, taken as a ServerLink: sets,      *)
(* transactions and observers at one path.  `w` holds what the writes      *)
(* change: the connection's puts, FRepo's queue of transactions and the    *)
(* ids in FWriteTree.  A callback of a put runs inside the handler that    *)
(* calls it, so operators on `w` follow each other in the order of the     *)
(* calls.                                                                  *)
(***************************************************************************)
EXTENDS ServerLink, FiniteSets, Sequences

CONSTANTS
    Txs,            \* runTransactionBlock: calls
    App,            \* the app's own observer
    MaxRetries,     \* kFTransactionMaxRetries
    MaxWork,        \* bound: puts and transactions of a behaviour
    MaxListens      \* bound: listens of a behaviour

\* A call is known by a name, a set by the number of its put.
ASSUME RepoAssumption ==
    /\ IsFiniteSet(Txs) /\ Txs \cap Nat = {}
    /\ MaxRetries \in Nat /\ MaxWork \in Nat /\ MaxListens \in Nat

VARIABLES
    w,          \* [puts, count, wire, held, writes, queue, tx, told, raised]
    listens,    \* the FOutstandingQuery of the path: its number, or 0
    listenCount,
    asked,      \* listens sent on this connection without answer
    unacked,    \* unackedListensCount
    watchers,   \* registrations at the path: the app's, the transactions'
    last,       \* the server: the put whose value it has
    applied     \* the server: how often it took each transaction

writeVars  == <<w, last, applied>>
listenVars == <<listens, listenCount, asked, unacked, watchers>>
repoVars   == <<linkVars, writeVars, listenVars>>

\* puts: outstandingPuts, index -> its transactions (none: a set), and sent.
\* wire: the puts sent on this connection without answer.  held: putsToAck.
\* writes: a set's id is the index of its put; a transaction has one at a time.
\* queue: the transactions of the node, which stand in it by their `order`.
RepoInit ==
    /\ LinkInit
    /\ w = [puts |-> <<>>, count |-> 0, wire |-> <<>>, held |-> <<>>, writes |-> {},
            queue |-> {}, raised |-> "no",
            tx |-> [x \in Txs |-> [status |-> "none", order |-> 0, retries |-> 0, abort |-> "none"]],
            told |-> [x \in Txs \cup 1 .. MaxWork |-> "none"]]
    /\ listens = 0 /\ listenCount = 0 /\ asked = <<>> /\ unacked = 0 /\ watchers = {}
    /\ last = 0 /\ applied = [x \in Txs |-> 0]

-----------------------------------------------------------------------------
(* Operators on the writes; `up` is canSendWrites.                           *)

\* The keys of a dictionary, as it happens to give them.
InAnyOrder(S) ==
    {order \in [1 .. Cardinality(S) -> S] : {order[k] : k \in DOMAIN order} = S}

\* Faulty variant: sorted the wrong way round.
Descending(S) ==
    [k \in 1 .. Cardinality(S) |-> CHOOSE i \in S : Cardinality({j \in S : j >= i}) = k]

\* sortedArrayUsingSelector:
Ascending(S) ==
    [k \in 1 .. Cardinality(S) |-> CHOOSE i \in S : Cardinality({j \in S : j <= i}) = k]

RemovePuts(v, ids) == [v EXCEPT !.puts = [i \in DOMAIN v.puts \ ids |-> v.puts[i]]]

PutInternal(v, txs, up) ==
    LET i == v.count + 1
    IN  [v EXCEPT !.count = i,
                  !.puts = [j \in DOMAIN v.puts \cup {i} |->
                               IF j = i THEN [txs |-> txs, sent |-> up] ELSE v.puts[j]],
                  !.wire = IF up THEN Append(@, [put |-> i, txs |-> txs]) ELSE @]

\* Completion blocks are called: with a second call one would be told twice.
CallOnComplete(v, xs, status) ==
    [v EXCEPT !.told = [x \in DOMAIN v.told |->
                           IF x \notin xs THEN v.told[x]
                           ELSE IF v.told[x] = "none" THEN status ELSE "twice"]]

\* ackUserWriteWithWriteId: removeWriteId raises for an id that is not there.
Ack(v, ids) ==
    [v EXCEPT !.writes = @ \ ids, !.raised = IF ids \subseteq v.writes THEN @ ELSE "ack"]

End(v, xs, status) ==
    CallOnComplete(
        [v EXCEPT !.tx = [x \in Txs |-> IF x \in xs THEN [v.tx[x] EXCEPT !.status = "Completed"]
                                       ELSE v.tx[x]]], xs, status)

\* sendAllReadyTransactions, with all transactions at one node.
SendAllReady(v, up) ==
    LET queue  == {x \in v.queue : v.tx[x].status # "Completed"}
        sent   == [x \in Txs |-> IF x \in queue
                                   THEN [v.tx[x] EXCEPT !.status = "Sent", !.retries = @ + 1]
                                   ELSE v.tx[x]]
        pruned == [v EXCEPT !.queue = queue]
    IN  IF queue # {} /\ \A x \in queue : v.tx[x].status = "Run"
          THEN PutInternal([pruned EXCEPT !.tx = sent], queue, up)
          ELSE pruned

\* The transactions of rerunTransactionQueue that end: those to abort, and those
\* that were run often enough or whose block aborts, unless it is in goOn.
ToAbort(v) == {x \in v.queue : v.tx[x].status = "NeedsAbort"}
ToRun(v)   == {x \in v.queue : v.tx[x].status = "Run"}
GiveUp(v, goOn) == {x \in ToRun(v) : v.tx[x].retries >= MaxRetries \/ x \notin goOn}

\* A rerun acks its old write and adds a new one; what was canceled has none.
RerunTransactions(v, goOn, up) ==
    LET ended == ToAbort(v) \cup GiveUp(v, goOn)
        again == ToRun(v) \ ended
        old   == {x \in ToAbort(v) : v.tx[x].abort # "canceled"} \cup ToRun(v)
        acked == [Ack(v, old) EXCEPT !.writes = @ \cup again]
    IN  SendAllReady(End(acked, ended, "error"), up)

\* The callback of sendTransactionQueue for the transactions it sent together.
TxCallback(v, txs, status, goOn, up) ==
    LET after(x) ==
            IF status # "datastale" THEN [v.tx[x] EXCEPT !.status = "NeedsAbort", !.abort = status]
            ELSE IF v.tx[x].status = "SentNeedsAbort" THEN [v.tx[x] EXCEPT !.status = "NeedsAbort"]
            ELSE [v.tx[x] EXCEPT !.status = "Run"]
    IN  RerunTransactions(
            IF status = "ok" THEN SendAllReady(End(Ack(v, txs), txs, "ok"), up)
            ELSE [v EXCEPT !.tx = [x \in Txs |-> IF x \in txs THEN after(x) ELSE v.tx[x]]],
            goOn, up)

\* The callback of set:withNode:; the ack may raise events.
SetCallback(v, i, status, goOn, events, up) ==
    IF status = "canceled" THEN CallOnComplete(v, {i}, status)
    ELSE LET acked == CallOnComplete(Ack(v, {i}), {i}, status)
         IN  IF events THEN RerunTransactions(acked, goOn, up) ELSE acked

\* An answer is [put, txs, status].
Callback(v, answer, goOn, events, up) ==
    IF answer.txs = {} THEN SetCallback(v, answer.put, answer.status, goOn, events, up)
    ELSE TxCallback(v, answer.txs, answer.status, goOn, up)

\* The callbacks of one answer after the other.
Callbacks(v, answers, goOn, events, up) ==
    LET after[n \in 0 .. Len(answers)] ==
            IF n = 0 THEN v ELSE Callback(after[n - 1], answers[n], goOn, events, up)
    IN  after[Len(answers)]

AckPuts(v, goOn, events, up) ==
    [Callbacks(v, v.held, goOn, events, up) EXCEPT !.held = <<>>]

\* Puts that end without an answer of the server.
Ended(v, order, status) ==
    [k \in DOMAIN order |-> [put |-> order[k], txs |-> v.puts[order[k]].txs, status |-> status]]

SentTransactions(v) == {i \in DOMAIN v.puts : v.puts[i].txs # {} /\ v.puts[i].sent}

\* Faulty variant: sent transactions are restored like the sets.
CancelNothing(v, order, goOn) == v

\* cancelSentTransactions: a transaction is not sent again on the next connection.
\* No callback looks at the puts that are still to be canceled.
CancelSent(v, order, goOn) ==
    Callbacks(RemovePuts(v, SentTransactions(v)), Ended(v, order, "disconnect"), goOn, FALSE, FALSE)

\* restoreState sends all outstanding puts; the connection is new.
Restore(v) ==
    LET order == Ascending(DOMAIN v.puts)
    IN  [v EXCEPT
            !.wire = [k \in DOMAIN order |-> [put |-> order[k], txs |-> v.puts[order[k]].txs]],
            !.puts = [i \in DOMAIN v.puts |-> [v.puts[i] EXCEPT !.sent = TRUE]]]

\* The queue up to x.
UpTo(v, x) == {y \in v.queue : v.tx[y].order <= v.tx[x].order}

\* abortTransactionsAtNode: what is sent waits for its answer, the rest ends.
\* `lastSent` counts the transactions this call has marked, and as many stay.
AbortTransactions(v, error) ==
    LET sent   == {x \in v.queue : v.tx[x].status = "Sent"}
        ended  == {x \in v.queue : v.tx[x].status \notin {"Sent", "SentNeedsAbort"}}
        marked == [v EXCEPT
            !.tx = [x \in Txs |->
                       IF x \in sent THEN [v.tx[x] EXCEPT !.status = "SentNeedsAbort", !.abort = error]
                       ELSE v.tx[x]],
            !.queue = {x \in @ : Cardinality(UpTo(v, x)) <= Cardinality(sent)}]
    IN  End(IF error = "canceled" THEN marked ELSE Ack(marked, ended), ended, "error")

\* purgeOutstandingWrites of FRepo, and what that of the connection does after it
\* has acked the puts.  The writes are gone when an answer that was held comes to
\* ack one.
RollBack(v) == AbortTransactions([v EXCEPT !.writes = {}], "canceled")

CancelAll(v, goOn, events, up) ==
    [Callbacks(RemovePuts(v, DOMAIN v.puts), Ended(v, Ascending(DOMAIN v.puts), "canceled"),
               goOn, events, up) EXCEPT !.puts = <<>>]

-----------------------------------------------------------------------------
(* Steps.  Those of the link run with what the connection does in them.      *)

Running == w.raised = "no"

\* Which blocks go on when their transactions are run again.
MayGoOn == SUBSET w.queue

\* The result of a handler, within the bound.  An exception ends the program, and
\* the writes are left as they were.
Started(v) == {x \in Txs : v.tx[x].status # "none"}
HandlerLeaves(v) ==
    /\ w' = IF v.raised = "no" THEN v ELSE [w EXCEPT !.raised = v.raised]
    /\ v.count + Cardinality(Started(v)) <= MaxWork

LinkConnected  == link # "down"
LinkSendsWrites == link = "up"

\* onReady with a credential.
AskAuth == Running /\ Authorize /\ UNCHANGED <<writeVars, listenVars>>

SendListen(spec) == asked' = Append(asked, spec) /\ unacked' = unacked + 1

RestoreState ==
    /\ Running
    /\ ComeUp
    /\ w' = Restore(w)
    /\ IF listens # 0 THEN SendListen(listens) ELSE UNCHANGED <<asked, unacked>>
    /\ UNCHANGED <<last, applied, listens, listenCount, watchers>>

\* The server had taken some of the puts whose answers are lost.
Unheard ==
    \E taken \in SUBSET DOMAIN w.wire :
        /\ IF taken = {} THEN UNCHANGED last
           ELSE \E k \in taken : (\A m \in taken : m <= k) /\ last' = w.wire[k].put
        /\ applied' = [x \in Txs |->
                          applied[x] + Cardinality({k \in taken : x \in w.wire[k].txs})]

\* onDisconnect:withReason:, for whatever reason.
Disconnect ==
    /\ Running
    /\ GoDown
    /\ Unheard
    /\ \E goOn \in MayGoOn, order \in InAnyOrder(SentTransactions(w)) :
           HandlerLeaves(CancelSent([w EXCEPT !.wire = <<>>], order, goOn))
    /\ asked' = <<>> /\ unacked' = 0
    /\ UNCHANGED <<listens, listenCount, watchers>>

-----------------------------------------------------------------------------
(* Writes of the app, and their answers.                                     *)

SetValue ==
    /\ Running
    /\ \E goOn \in MayGoOn :
           LET added == PutInternal([w EXCEPT !.writes = @ \cup {w.count + 1}], {}, LinkSendsWrites)
           IN  HandlerLeaves(
                   RerunTransactions(AbortTransactions(added, "set"), goOn, LinkSendsWrites))
    /\ UNCHANGED <<linkVars, last, applied, listenVars>>

\* listen: of the connection, for the first registration.
Watch(x) ==
    /\ watchers' = watchers \cup {x}
    /\ IF watchers = {}
         THEN /\ listenCount < MaxListens
              /\ listenCount' = listenCount + 1
              /\ listens' = listenCount + 1
              /\ IF LinkConnected THEN SendListen(listenCount + 1) ELSE UNCHANGED <<asked, unacked>>
         ELSE UNCHANGED <<listens, listenCount, asked, unacked>>

\* A transaction watches its path; its block may abort at once.
StartTransaction(x) ==
    /\ Running
    /\ w.tx[x].status = "none"
    /\ Watch(x)
    /\ \/ HandlerLeaves(End(w, {x}, "error"))
       \/ HandlerLeaves(SendAllReady(
              [w EXCEPT !.writes = @ \cup {x}, !.queue = @ \cup {x},
                        !.tx[x].status = "Run", !.tx[x].order = Cardinality(Started(w)) + 1],
              LinkSendsWrites))
    /\ UNCHANGED <<linkVars, last, applied>>

Observe == Running /\ App \notin watchers /\ Watch(App) /\ UNCHANGED <<linkVars, writeVars>>

\* unlisten: for the last registration.
Unwatch(x) ==
    /\ Running
    /\ x \in watchers
    /\ x \in Txs => w.told[x] # "none"         \* its unwatcher was called
    /\ watchers' = watchers \ {x}
    /\ listens' = IF watchers = {x} THEN 0 ELSE listens
    /\ UNCHANGED <<linkVars, writeVars, listenCount, asked, unacked>>

\* The server takes or refuses the puts of a connection in their order.
Take(status, i, txs) ==
    /\ status = "datastale" => txs # {}
    /\ last' = IF status = "ok" THEN i ELSE last
    /\ applied' = [x \in Txs |->
                      IF status = "ok" /\ x \in txs THEN applied[x] + 1 ELSE applied[x]]

\* Faulty variant: the answer is not compared with the outstanding put.
PutAnsweredUnchecked(heard, answer, goOn, events) ==
    HandlerLeaves(Callback(RemovePuts(heard, {answer.put}), answer, goOn, events, LinkSendsWrites))

\* The response handler of sendPut:.
PutAnswered(heard, answer, goOn, events) ==
    LET forgot == RemovePuts(heard, {answer.put})
    IN  IF answer.put \notin DOMAIN w.puts THEN w' = heard
        ELSE IF unacked = 0
          THEN HandlerLeaves(Callback(forgot, answer, goOn, events, LinkSendsWrites))
        ELSE w' = [forgot EXCEPT !.held = Append(@, answer)]

AnswerPut ==
    /\ Running
    /\ w.wire # <<>>
    /\ \E status \in {"ok", "denied", "datastale"}, goOn \in MayGoOn, events \in BOOLEAN :
           LET put == Head(w.wire)
           IN  /\ Take(status, put.put, put.txs)
               /\ PutAnswered([w EXCEPT !.wire = Tail(@)],
                              [put |-> put.put, txs |-> put.txs, status |-> status], goOn, events)
    /\ UNCHANGED <<linkVars, listenVars>>

\* onResponse of a listen; an error ends the registrations of the current one.
ListenAnswered ==
    /\ Running
    /\ asked # <<>>
    /\ \E ok, events \in BOOLEAN, goOn \in MayGoOn :
           /\ IF ~ok /\ Head(asked) = listens
                THEN listens' = 0 /\ watchers' = {}
                ELSE UNCHANGED <<listens, watchers>>
           /\ IF unacked = 1 THEN HandlerLeaves(AckPuts(w, goOn, events, LinkSendsWrites))
              ELSE UNCHANGED w
    /\ asked' = Tail(asked)
    /\ unacked' = unacked - 1
    /\ UNCHANGED <<linkVars, last, applied, listenCount>>

\* The server revokes the listen (onListenRevoked).
ListenRevoked ==
    /\ Running
    /\ LinkConnected /\ listens # 0
    /\ listens' = 0 /\ watchers' = {}
    /\ UNCHANGED <<linkVars, writeVars, listenCount, asked, unacked>>

\* onDataUpdate: data at the path of the transactions changes.
DataUpdate ==
    /\ Running
    /\ LinkConnected
    /\ \E goOn \in MayGoOn : HandlerLeaves(RerunTransactions(w, goOn, LinkSendsWrites))
    /\ UNCHANGED <<linkVars, last, applied, listenVars>>

PurgeOutstandingWrites ==
    /\ Running
    /\ \E goOn \in MayGoOn, events \in BOOLEAN :
           LET acked    == AckPuts(RollBack(w), goOn, events, LinkSendsWrites)
               canceled == CancelAll(acked, goOn, events, LinkSendsWrites)
           IN  HandlerLeaves([canceled EXCEPT
                   !.raised = IF w.held = <<>> \/ @ = "no" THEN @ ELSE "purge"])
    /\ UNCHANGED <<linkVars, last, applied, listenVars>>

RepoNext ==
    \/ AskAuth \/ RestoreState \/ Disconnect
    \/ SetValue \/ AnswerPut \/ PurgeOutstandingWrites \/ DataUpdate
    \/ \E x \in Txs : StartTransaction(x)
    \/ Observe \/ \E x \in watchers : Unwatch(x)
    \/ ListenAnswered \/ ListenRevoked

RepoSpec == RepoInit /\ [][RepoNext]_repoVars

-----------------------------------------------------------------------------
(* Over lost connections, answers held back for a listen, purges and reruns   *)
(* every set has exactly one end: as long as its block was not called it is   *)
(* outstanding or acked and held, and FWriteTree shows its value; afterwards  *)
(* FWriteTree has dropped it, and no block is called a second time.  No write *)
(* is acked that FWriteTree does not have, which it raises for                *)
(* (FWriteTree.m:125), but those whose answers are held when a purge comes.   *)
WritesEndOnce ==
    /\ w.raised # "ack"
    /\ Running =>
        /\ \A x \in DOMAIN w.told : w.told[x] # "none" => w.told[x] # "twice" /\ x \notin w.writes
        /\ \A i \in w.writes \ Txs :
               (i \in DOMAIN w.puts) # (\E k \in DOMAIN w.held : w.held[k].put = i)

(* "Client was disconnected while running a transaction": the server takes a  *)
(* transaction at most once, though the client cannot know whether a lost     *)
(* connection's put was taken; and one reported as committed was taken.       *)
TransactionsApplyOnce ==
    \A x \in Txs : applied[x] <= 1 /\ (w.told[x] = "ok" => applied[x] = 1)

(* A write whose block was told of success is never overwritten on the server *)
(* by an older one that is sent again.                                        *)
AcksAreFinal == \A i \in 1 .. MaxWork : w.told[i] = "ok" => last >= i

(* FIRDatabaseReference.h:641 says of runTransactionBlock's completion block  *)
(* that it "will be triggered once the transaction is complete, whether it    *)
(* was successful or not": a transaction whose block was not called is still  *)
(* queued, or a put that carries it waits.                                    *)
TransactionsEnd ==
    Running =>
        \A x \in Txs :
            w.tx[x].status # "none" /\ w.told[x] = "none" =>
                \/ x \in w.queue
                \/ \E i \in DOMAIN w.puts : x \in w.puts[i].txs
                \/ \E k \in DOMAIN w.held : x \in w.held[k].txs
=============================================================================

--------------------------- MODULE DatabaseProofs ---------------------------
(***************************************************************************)
(* Firebase's database client.  PersistentConnection is never stranded and *)
(* implements ServerLink, for every number of attempts and of credentials  *)
(* under way; over a ServerLink, Repo's writes end once, its transactions  *)
(* apply once and its acks are final, for every number of calls and        *)
(* retries.  Repo's operators run one after the other in a handler: each   *)
(* has a lemma on the fields it changes and one that it keeps them Sound.  *)
(***************************************************************************)
EXTENDS PersistentConnection, Repo, FiniteSetTheorems, SequenceTheorems, WellFoundedInduction,
        TLAPS

-----------------------------------------------------------------------------
(* The connection.                                                           *)

\* Only the first credential of a connection restores the state, and the state is
\* restored by the step that makes the connection ready for writes.
RestoresOnce ==
    /\ restores = IF connectionState = "Connected" THEN 1 ELSE 0
    /\ \A i \in 1 .. Len(auths) :
           auths[i] = "restore" => i = 1 /\ connectionState = "Authenticating"

ConnInv == ConnTypeOK /\ NeverStranded /\ RestoresOnce

\* No credential is under way.
LEMMA NoAuths == <<>> \in Seq(Auths) /\ Len(<<>>) = 0 /\ \A i \in 1 .. Len(<<>>) : FALSE
OBVIOUS

\* A disconnection keeps the invariant, whoever calls it.
LEMMA DisconnectSafe ==
    ASSUME ConnTypeOK, NEW force \in BOOLEAN, interruptReasons' \subseteq Reasons,
           OnDisconnect(force, interruptReasons'), retry = "none" \/ interruptReasons' = {},
           authToken' \in BOOLEAN, UNCHANGED <<attempt, fetches>>
    PROVE  ConnInv'
<1>1. ConnTypeOK'
  BY NoAuths DEF ConnTypeOK, OnDisconnect, TryScheduleReconnect, States, Reasons
<1>2. NeverStranded'
  BY DEF ConnTypeOK, OnDisconnect, TryScheduleReconnect, NeverStranded, Authorizable
<1>3. RestoresOnce'
  BY DEF OnDisconnect, RestoresOnce
<1>4. QED  BY <1>1, <1>2, <1>3 DEF ConnInv

LEMMA ConnInitSafe == ConnInit => ConnInv
<1>1. ConnInit => ConnTypeOK
  <2>1. ConnInit => auths \in Seq(Auths)
    BY NoAuths DEF ConnInit
  <2>2. ConnInit => fetches \subseteq Nat /\ interruptReasons \subseteq Reasons
    BY DEF ConnInit, Reasons
  <2>3. ConnInit => forceAuthTokenRefresh \in BOOLEAN /\ authToken \in BOOLEAN
    BY Zenon DEF ConnInit
  <2>4. ConnInit => attempt \in Nat /\ restores \in Nat
    BY DEF ConnInit
  <2>5. ConnInit => /\ connectionState \in States /\ retry \in {"none", "plain", "forced"}
                    /\ realtime \in {"none", "connecting", "connected"}
    BY Zenon DEF ConnInit, States
  <2>6. QED  BY <2>1, <2>2, <2>3, <2>4, <2>5, Zenon DEF ConnTypeOK
<1>2. ConnInit => NeverStranded /\ RestoresOnce
  BY NoAuths DEF ConnInit, NeverStranded, RestoresOnce, Authorizable
<1>3. QED  BY <1>1, <1>2 DEF ConnInv

LEMMA ConnStepSafe == ConnInv /\ [ConnNext]_connVars => ConnInv'
<1>1. SUFFICES ASSUME ConnInv, [ConnNext]_connVars PROVE ConnInv'
  OBVIOUS
<1>2. ConnTypeOK /\ NeverStranded /\ RestoresOnce
  BY <1>1 DEF ConnInv
<1>3. ASSUME NEW r \in Reasons, InterruptForReason(r) PROVE ConnInv'
  <2>1. interruptReasons' \subseteq Reasons /\ interruptReasons' # {}
    BY <1>2, <1>3 DEF InterruptForReason, ConnTypeOK
  <2>2. CASE realtime # "none"
    <3>1. retry = "none"
      BY <1>2, <2>2 DEF NeverStranded, ConnTypeOK, Authorizable
    <3>2. QED
      BY <1>2, <1>3, <2>1, <2>2, <3>1, DisconnectSafe DEF InterruptForReason, ConnTypeOK
  <2>3. CASE realtime = "none"
    <3>1. auths = <<>> /\ restores = 0
      BY <1>2, <2>3 DEF NeverStranded, RestoresOnce, Authorizable
    <3>2. ConnTypeOK'
      BY <1>2, <1>3, <2>1, <2>3 DEF InterruptForReason, ConnTypeOK, States
    <3>3. NeverStranded'
      BY <1>2, <1>3, <2>1, <2>3, <3>1 DEF InterruptForReason, NeverStranded, Authorizable
    <3>4. RestoresOnce'
      BY <1>3, <2>3, <3>1 DEF InterruptForReason, RestoresOnce
    <3>5. QED  BY <3>2, <3>3, <3>4 DEF ConnInv
  <2>4. QED  BY <2>2, <2>3
<1>4. ASSUME NEW r \in Reasons, ResumeForReason(r) PROVE ConnInv'
  <2>1. ConnTypeOK'
    BY <1>2, <1>4 DEF ResumeForReason, TryScheduleReconnect, ConnTypeOK
  <2>2. NeverStranded'
    BY <1>2, <1>4 DEF ResumeForReason, TryScheduleReconnect, NeverStranded, Authorizable
  <2>3. RestoresOnce'
    BY <1>2, <1>4 DEF ResumeForReason, RestoresOnce
  <2>4. QED  BY <2>1, <2>2, <2>3 DEF ConnInv
<1>5. CASE Reachable
  <2>1. ConnTypeOK'
    BY <1>2, <1>5 DEF Reachable, TryScheduleReconnect, ConnTypeOK
  <2>2. NeverStranded'
    BY <1>2, <1>5 DEF Reachable, TryScheduleReconnect, NeverStranded, Authorizable
  <2>3. RestoresOnce'
    BY <1>2, <1>5 DEF Reachable, RestoresOnce
  <2>4. QED  BY <2>1, <2>2, <2>3 DEF ConnInv
<1>6. CASE RetryFires
  <2>1. ConnTypeOK'
    BY <1>2, <1>6 DEF RetryFires, ConnTypeOK, States
  <2>2. NeverStranded'
    BY <1>2, <1>6 DEF RetryFires, NeverStranded, Authorizable, ConnTypeOK
  <2>3. RestoresOnce'
    BY <1>2, <1>6 DEF RetryFires, RestoresOnce, NeverStranded, ConnTypeOK
  <2>4. QED  BY <2>1, <2>2, <2>3 DEF ConnInv
<1>7. CASE TokenArrives
  <2>1. PICK a \in fetches, failed \in BOOLEAN, token \in BOOLEAN : TokenAnswer(a, failed, token)
    BY <1>7 DEF TokenArrives
  <2>2. ConnTypeOK'
    BY <1>2, <2>1
    DEF TokenAnswer, TokenFails, TokenComes, TryScheduleReconnect, ConnTypeOK, States
  <2>3. attempt \in fetches /\ a = attempt => realtime = "none" /\ auths = <<>> /\ restores = 0
    BY <1>2 DEF NeverStranded, ConnTypeOK, RestoresOnce, Authorizable
  <2>4. NeverStranded'
    BY <1>2, <2>1, <2>3
    DEF TokenAnswer, TokenFails, TokenComes, TryScheduleReconnect, NeverStranded, Authorizable,
        ConnTypeOK, States
  <2>5. RestoresOnce'
    BY <1>2, <2>1, <2>3 DEF TokenAnswer, TokenFails, TokenComes, RestoresOnce
  <2>6. QED  BY <2>2, <2>4, <2>5 DEF ConnInv
<1>8. CASE Hello
  <2>1. auths = <<>> /\ connectionState = "Connecting" /\ restores = 0 /\ interruptReasons = {}
        /\ retry = "none" /\ attempt \notin fetches
    BY <1>2, <1>8 DEF Hello, NeverStranded, RestoresOnce, ConnTypeOK
  <2>2. CASE authToken
    <3>1. auths' = <<"restore">> /\ connectionState' = "Authenticating" /\ restores' = 0
      BY <1>8, <2>1, <2>2 DEF Hello
    <3>2. /\ auths' \in Seq(Auths) /\ auths' # <<>> /\ Len(auths') = 1
          /\ Head(auths') = "restore"
      BY <3>1 DEF Auths
    <3>3. ConnTypeOK'
      BY <1>2, <1>8, <2>1, <3>1, <3>2 DEF Hello, ConnTypeOK, States
    <3>4. NeverStranded'
      BY <1>2, <1>8, <2>1, <3>1, <3>2 DEF Hello, NeverStranded, Authorizable
    <3>5. RestoresOnce'
      BY <3>1, <3>2 DEF RestoresOnce
    <3>6. QED  BY <3>3, <3>4, <3>5 DEF ConnInv
  <2>3. CASE ~authToken
    <3>1. ConnTypeOK'
      BY <1>2, <1>8, <2>1, <2>3 DEF Hello, ConnTypeOK, States
    <3>2. NeverStranded'
      BY <1>2, <1>8, <2>1, <2>3 DEF Hello, NeverStranded, Authorizable
    <3>3. RestoresOnce'
      BY <1>2, <1>8, <2>1, <2>3, NoAuths DEF Hello, RestoresOnce
    <3>4. QED  BY <3>1, <3>2, <3>3 DEF ConnInv
  <2>4. QED  BY <2>2, <2>3
<1>9. CASE Lost
  BY <1>2, <1>9, DisconnectSafe DEF Lost, NeverStranded, ConnTypeOK
<1>10. CASE AuthAccepted
  <2>1. auths \in Seq(Auths) /\ auths # <<>> /\ realtime = "connected" /\ interruptReasons = {}
        /\ connectionState \in {"Authenticating", "Connected"}
    BY <1>2, <1>10 DEF AuthAccepted, ConnTypeOK, NeverStranded, Authorizable
  <2>2. /\ Tail(auths) \in Seq(Auths)
        /\ \A i \in 1 .. Len(Tail(auths)) : Tail(auths)[i] = auths[i + 1] /\ i + 1 \in 1 .. Len(auths)
    BY <2>1, HeadTailProperties
  <2>3. \A i \in 1 .. Len(auths') : auths'[i] # "restore"
    BY <1>2, <1>10, <2>2 DEF AuthAccepted, RestoresOnce
  <2>4. restores' = 1
    <3>1. CASE connectionState = "Authenticating"
      BY <1>2, <1>10, <3>1 DEF AuthAccepted, NeverStranded, RestoresOnce
    <3>2. CASE connectionState = "Connected"
      <4>1. auths[1] # "restore"
        BY <1>2, <2>1, <3>2 DEF RestoresOnce
      <4>2. Head(auths) # "restore"
        BY <2>1, <4>1
      <4>3. QED  BY <1>2, <1>10, <3>2, <4>2 DEF AuthAccepted, RestoresOnce
    <3>3. QED  BY <2>1, <3>1, <3>2
  <2>5. ConnTypeOK'
    BY <1>2, <1>10, <2>2, <2>4 DEF AuthAccepted, ConnTypeOK, States
  <2>6. NeverStranded'
    BY <1>2, <1>10, <2>1 DEF AuthAccepted, NeverStranded, Authorizable
  <2>7. RestoresOnce'
    BY <1>10, <2>3, <2>4 DEF AuthAccepted, RestoresOnce
  <2>8. QED  BY <2>5, <2>6, <2>7 DEF ConnInv
<1>11. CASE Refuse /\ realtime # "none"
  BY <1>2, <1>11, DisconnectSafe DEF Refuse, NeverStranded, ConnTypeOK
<1>12. CASE AuthRefused \/ AuthRevoked
  BY <1>2, <1>11, <1>12 DEF AuthRefused, AuthRevoked, NeverStranded
<1>13. ASSUME NEW token \in BOOLEAN, RefreshAuthToken(token) PROVE ConnInv'
  <2>1. CASE Authorizable /\ token
    <3>1. auths' = Append(auths, "refresh") /\ auths \in Seq(Auths)
      BY <1>2, <1>13, <2>1 DEF RefreshAuthToken, ConnTypeOK
    <3>2. /\ auths' \in Seq(Auths) /\ auths' # <<>>
          /\ Len(auths') = Len(auths) + 1 /\ Len(auths) \in Nat
          /\ \A i \in 1 .. Len(auths) : auths'[i] = auths[i]
          /\ auths'[Len(auths) + 1] = "refresh"
      BY <3>1, AppendProperties DEF Auths
    <3>3. ConnTypeOK'
      BY <1>2, <1>13, <3>2 DEF RefreshAuthToken, ConnTypeOK
    <3>4. connectionState = "Authenticating" => Head(auths') = Head(auths)
      BY <1>2, <3>1, <3>2 DEF NeverStranded
    <3>5. NeverStranded'
      BY <1>2, <1>13, <2>1, <3>2, <3>4 DEF RefreshAuthToken, NeverStranded, Authorizable
    <3>6. RestoresOnce'
      BY <1>2, <1>13, <3>2 DEF RefreshAuthToken, RestoresOnce
    <3>7. QED  BY <3>3, <3>5, <3>6 DEF ConnInv
  <2>2. CASE ~(Authorizable /\ token)
    <3>1. ConnTypeOK' /\ NeverStranded' /\ RestoresOnce'
      BY <1>2, <1>13, <2>2
      DEF RefreshAuthToken, ConnTypeOK, NeverStranded, RestoresOnce, Authorizable
    <3>2. QED  BY <3>1 DEF ConnInv
  <2>3. QED  BY <2>1, <2>2
<1>14. CASE UNCHANGED connVars
  BY <1>2, <1>14 DEF connVars, ConnInv, ConnTypeOK, NeverStranded, RestoresOnce, Authorizable
<1>15. QED
  BY <1>1, <1>3, <1>4, <1>5, <1>6, <1>7, <1>8, <1>9, <1>10, <1>12, <1>13, <1>14
  DEF ConnNext, Open, GoOffline, GoOnline, ServerKill, Reasons

\* The inductive invariant: types, what is under way in each state, and the one
\* call of restoreState.
THEOREM ConnInvariant == ConnSpec => []ConnInv
BY ConnInitSafe, ConnStepSafe, PTL DEF ConnSpec

\* Whatever order interruptions, late tokens, lost sockets and answers come in, the
\* event that leads on is under way (FPersistentConnection.m:382-441).
THEOREM ConnectionNeverStranded == ConnSpec => []NeverStranded
<1>1. ConnInv => NeverStranded
  BY DEF ConnInv
<1>2. QED  BY <1>1, ConnInvariant, PTL

-----------------------------------------------------------------------------
LEMMA LinkSteps == ConnInv /\ ConnInv' /\ [ConnNext]_connVars => [Link!LinkNext]_(Link!linkVars)
<1>1. SUFFICES ASSUME ConnInv, ConnInv', [ConnNext]_connVars
               PROVE  [Link!LinkNext]_(Link!linkVars)
  OBVIOUS
<1>2. /\ restores = IF LinkState = "up" THEN 1 ELSE 0
      /\ restores' = IF LinkState' = "up" THEN 1 ELSE 0
      /\ LinkState \in {"down", "authorizing", "up"}
      /\ LinkState' \in {"down", "authorizing", "up"}
  BY <1>1 DEF ConnInv, RestoresOnce, ConnTypeOK, States, LinkState
<1>3. CASE LinkState' = LinkState
  BY <1>2, <1>3 DEF Link!linkVars
<1>4. CASE LinkState' = "up" /\ LinkState # "up"
  BY <1>2, <1>4 DEF Link!LinkNext, Link!ComeUp
<1>5. CASE LinkState' = "down" /\ LinkState # "down"
  BY <1>2, <1>5 DEF Link!LinkNext, Link!GoDown
<1>6. CASE LinkState' = "authorizing" /\ LinkState = "down"
  BY <1>2, <1>6 DEF Link!LinkNext, Link!Authorize
<1>7. LinkState = "up" => LinkState' # "authorizing"
  <2>1. connectionState' = "Authenticating" => connectionState # "Connected"
    <3>1. CASE Hello
      BY <1>1, <3>1 DEF Hello, ConnInv, NeverStranded
    <3>2. CASE AuthAccepted
      BY <3>2 DEF AuthAccepted
    <3>3. CASE TokenArrives
      BY <3>3 DEF TokenArrives, TokenAnswer, TokenFails, TokenComes
    <3>4. CASE Open \/ GoOffline \/ GoOnline \/ ServerKill \/ Reachable \/ Lost
      BY <3>4 DEF Open, GoOffline, GoOnline, ServerKill, Reachable, Lost, InterruptForReason,
                  ResumeForReason, OnDisconnect
    <3>5. CASE RetryFires \/ AuthRefused \/ AuthRevoked \/ UNCHANGED connVars
      BY <3>5 DEF RetryFires, AuthRefused, AuthRevoked, Refuse, OnDisconnect, connVars
    <3>6. CASE \E token \in BOOLEAN : RefreshAuthToken(token)
      BY <3>6 DEF RefreshAuthToken
    <3>7. QED  BY <1>1, <3>1, <3>2, <3>3, <3>4, <3>5, <3>6 DEF ConnNext
  <2>2. QED  BY <1>1, <2>1 DEF LinkState, ConnInv, ConnTypeOK, States
<1>8. QED  BY <1>2, <1>3, <1>4, <1>5, <1>6, <1>7

\* Each connection restores the state exactly once, with the step that makes it
\* ready for writes: FRepo may take FPersistentConnection for a ServerLink.
THEOREM ConnectionKeepsLink == ConnSpec => KeepsLink
<1>1. ConnInit => Link!LinkInit
  BY DEF ConnInit, Link!LinkInit, LinkState
<1>2. QED
  BY <1>1, LinkSteps, ConnInvariant, PTL DEF ConnSpec, KeepsLink, Link!LinkSpec

-----------------------------------------------------------------------------
(* The writes: what is true of them between two callbacks.                   *)

\* What a callback gets, and what is on the wire.
Statuses == {"ok", "denied", "datastale", "disconnect", "canceled"}
Ends == Statuses \cup {"none", "error", "twice"}
Answer == [put : Nat, txs : SUBSET Txs, status : Statuses]
Request == [put : Nat, txs : SUBSET Txs]

TxType ==
    [status : {"none", "Run", "Sent", "SentNeedsAbort", "NeedsAbort", "Completed"},
     order : Nat, retries : Nat, abort : Statuses \cup {"none", "set"}]

WriteFields == {"puts", "count", "wire", "held", "writes", "queue", "tx", "told", "raised"}

Shape(v) ==
    /\ v = [f \in WriteFields |-> v[f]]
    /\ v.count \in Nat
    /\ v.puts = [i \in DOMAIN v.puts |-> v.puts[i]] /\ DOMAIN v.puts \subseteq 1 .. v.count
    /\ \A i \in DOMAIN v.puts : v.puts[i] \in [txs : SUBSET Txs, sent : BOOLEAN]
    /\ v.wire \in Seq(Request) /\ v.held \in Seq(Answer)
    /\ v.writes \subseteq Txs \cup 1 .. v.count /\ v.queue \subseteq Txs
    /\ v.tx \in [Txs -> TxType]
    /\ v.told \in [Txs \cup 1 .. MaxWork -> Ends]

\* What a state of the writes is seen with: the answers whose callbacks are to come,
\* whether writes are sent, whether a purge is under way, and the server.
Contexts ==
    [hand : SUBSET Answer, up : BOOLEAN, purging : BOOLEAN, last : Nat, applied : [Txs -> Nat]]

Carried(v, c, x) ==
    (\E i \in DOMAIN v.puts : x \in v.puts[i].txs) \/ (\E a \in c.hand : x \in a.txs)

\* A put is outstanding or has its answer, and a transaction is in one put.
Apart(v, c) ==
    /\ \A i, j \in DOMAIN v.puts : i # j => v.puts[i].txs \cap v.puts[j].txs = {}
    /\ \A a, b \in c.hand : a # b => a.put # b.put /\ a.txs \cap b.txs = {}
    /\ \A a \in c.hand : a.put \in 1 .. v.count /\ a.put \notin DOMAIN v.puts
    /\ \A a \in c.hand, i \in DOMAIN v.puts : a.txs \cap v.puts[i].txs = {}

\* A set is in FWriteTree until its block is called, but for a purge.
SetsSound(v, c) ==
    /\ \A i \in DOMAIN v.puts : v.puts[i].txs = {} =>
           i \in 1 .. MaxWork /\ v.told[i] = "none" /\ (i \in v.writes \/ c.purging)
    /\ \A a \in c.hand : a.txs = {} =>
           a.put \in 1 .. MaxWork /\ v.told[a.put] = "none" /\ (a.put \in v.writes \/ c.purging)
    /\ \A i \in v.writes \cap Nat :
           \/ i \in DOMAIN v.puts /\ v.puts[i].txs = {}
           \/ \E a \in c.hand : a.put = i /\ a.txs = {}
    /\ \A i \in 1 .. MaxWork : v.told[i] # "twice" /\ (v.told[i] # "none" => i <= v.count)
    /\ \A a \in c.hand : a.status = "canceled" => c.purging
    /\ c.purging => v.writes = {}

\* What the status of a transaction says of the queue, the puts and FWriteTree.
TxSound(v, c) ==
    \A x \in Txs :
        LET t == v.tx[x]
        IN  /\ Carried(v, c, x) <=> t.status \in {"Sent", "SentNeedsAbort"}
            /\ t.status \in {"Run", "Sent"} => x \in v.queue /\ x \in v.writes
            /\ t.status = "SentNeedsAbort" => c.purging \/ (x \in v.writes /\ t.abort # "canceled")
            /\ t.status = "NeedsAbort" /\ x \in v.queue =>
                   c.purging \/ (x \in v.writes /\ t.abort # "canceled")
            /\ t.status \in {"none", "Completed"} => x \notin v.writes
            /\ t.status = "none" => x \notin v.queue
            /\ v.told[x] # "none" <=> t.status = "Completed"
            /\ v.told[x] # "twice"

\* Who starts later stands further back.
OrdersSound(v) == \A x \in Txs : v.tx[x].order <= Cardinality(Started(v))

\* What is sent is in one put, in front of the queue.
SentTogether(v, c) ==
    /\ \A i \in DOMAIN v.puts : \A x \in v.puts[i].txs : \A y \in Txs :
           v.tx[x].status = "Sent" /\ v.tx[y].status = "Sent" => y \in v.puts[i].txs
    /\ \A a \in c.hand : \A x \in a.txs : \A y \in Txs :
           v.tx[x].status = "Sent" /\ v.tx[y].status = "Sent" => y \in a.txs

SentInFront(v) ==
    \A x, y \in v.queue :
        v.tx[x].status = "Sent" /\ v.tx[y].order <= v.tx[x].order => v.tx[y].status = "Sent"

\* The server has not seen x, and will not see it in what was sent.
Unseen(v, c, x) == c.applied[x] = 0 /\ \A k \in DOMAIN v.wire : x \notin v.wire[k].txs

\* Nothing older than put i can reach the server.
Final(v, c, i) ==
    /\ i <= c.last /\ i <= v.count
    /\ \A k \in DOMAIN v.wire : i < v.wire[k].put
    /\ \A j \in DOMAIN v.puts : i < j

WireSound(v, c) ==
    /\ ~c.up => v.wire = <<>>
    /\ \A k \in DOMAIN v.wire : v.wire[k].put \in 1 .. v.count
    /\ \A j, k \in DOMAIN v.wire : j < k => v.wire[j].put < v.wire[k].put
    /\ \A j, k \in DOMAIN v.wire : j # k => v.wire[j].txs \cap v.wire[k].txs = {}
    /\ \A k \in DOMAIN v.wire : v.wire[k].put \in DOMAIN v.puts =>
           v.wire[k].txs = v.puts[v.wire[k].put].txs
    /\ c.up => \A i \in DOMAIN v.puts : v.puts[i].sent /\ \E k \in DOMAIN v.wire : v.wire[k].put = i

\* What the server was given, took, and said.
Delivered(v, c) ==
    /\ \A x \in Txs :
           /\ c.applied[x] \in {0, 1}
           /\ c.applied[x] = 1 => \A k \in DOMAIN v.wire : x \notin v.wire[k].txs
           /\ v.tx[x].status \in {"none", "Run"} => Unseen(v, c, x)
           /\ v.told[x] = "ok" => c.applied[x] = 1
    /\ \A i \in DOMAIN v.puts : \A x \in v.puts[i].txs :
           IF v.puts[i].sent THEN c.up ELSE Unseen(v, c, x)
    /\ \A a \in c.hand : \A x \in a.txs :
           /\ a.status = "ok" => c.applied[x] = 1
           /\ a.status = "datastale" => Unseen(v, c, x)
    /\ \A i \in 1 .. MaxWork : v.told[i] = "ok" => Final(v, c, i)
    /\ \A a \in c.hand : a.status = "ok" => Final(v, c, a.put)

Sound(v, c) ==
    /\ Shape(v) /\ c \in Contexts
    /\ Apart(v, c) /\ SetsSound(v, c) /\ TxSound(v, c) /\ SentTogether(v, c) /\ SentInFront(v)
    /\ OrdersSound(v) /\ WireSound(v, c) /\ Delivered(v, c)

\* Between steps nothing in the queue is to be aborted or done.
Clean(v) == \A x \in v.queue : v.tx[x].status \in {"Run", "Sent", "SentNeedsAbort"}

Held(v) == {v.held[k] : k \in DOMAIN v.held}

-----------------------------------------------------------------------------
(* What the operators on the writes do to each field.                        *)

Acked(v, r, ids) ==
    /\ Shape(r)
    /\ r.puts = v.puts /\ r.count = v.count /\ r.wire = v.wire /\ r.held = v.held
    /\ r.queue = v.queue /\ r.tx = v.tx /\ r.told = v.told
    /\ r.writes = v.writes \ ids
    /\ r.raised = IF ids \subseteq v.writes THEN v.raised ELSE "ack"

ToldOf(v, r, xs, status) ==
    \A x \in Txs \cup 1 .. MaxWork :
        r.told[x] = IF x \notin xs THEN v.told[x]
                    ELSE IF v.told[x] = "none" THEN status ELSE "twice"

Called(v, r, xs, status) ==
    /\ Shape(r)
    /\ r.puts = v.puts /\ r.count = v.count /\ r.wire = v.wire /\ r.held = v.held
    /\ r.queue = v.queue /\ r.tx = v.tx /\ r.writes = v.writes /\ r.raised = v.raised
    /\ ToldOf(v, r, xs, status)

TxDone(v, r, xs, status) ==
    /\ Shape(r)
    /\ r.puts = v.puts /\ r.count = v.count /\ r.wire = v.wire /\ r.held = v.held
    /\ r.queue = v.queue /\ r.writes = v.writes /\ r.raised = v.raised
    /\ \A x \in Txs : r.tx[x] = IF x \in xs THEN [v.tx[x] EXCEPT !.status = "Completed"]
                                ELSE v.tx[x]
    /\ ToldOf(v, r, xs, status)

Removed(v, r, ids) ==
    /\ Shape(r)
    /\ r.count = v.count /\ r.wire = v.wire /\ r.held = v.held
    /\ r.queue = v.queue /\ r.tx = v.tx /\ r.told = v.told
    /\ r.writes = v.writes /\ r.raised = v.raised
    /\ DOMAIN r.puts = DOMAIN v.puts \ ids
    /\ \A i \in DOMAIN r.puts : r.puts[i] = v.puts[i]

Added(v, r, txs, up) ==
    LET i == v.count + 1
    IN  /\ Shape(r)
        /\ r.count = i /\ r.held = v.held
        /\ r.queue = v.queue /\ r.tx = v.tx /\ r.told = v.told
        /\ r.writes = v.writes /\ r.raised = v.raised
        /\ DOMAIN r.puts = DOMAIN v.puts \cup {i} /\ i \notin DOMAIN v.puts
        /\ r.puts[i] = [txs |-> txs, sent |-> up]
        /\ \A j \in DOMAIN v.puts : r.puts[j] = v.puts[j]
        /\ r.wire = IF up THEN Append(v.wire, [put |-> i, txs |-> txs]) ELSE v.wire

\* What an ack changes.
LEMMA AckIs ==
    ASSUME NEW v, Shape(v), NEW ids
    PROVE  Acked(v, Ack(v, ids), ids)
<1> DEFINE r == Ack(v, ids)
<1>1. v = [f \in WriteFields |-> v[f]]
  BY DEF Shape
<1>2. /\ r = [f \in WriteFields |-> r[f]]
      /\ r.puts = v.puts /\ r.count = v.count /\ r.wire = v.wire /\ r.held = v.held
      /\ r.queue = v.queue /\ r.tx = v.tx /\ r.told = v.told
      /\ r.writes = v.writes \ ids
      /\ r.raised = IF ids \subseteq v.writes THEN v.raised ELSE "ack"
  BY <1>1 DEF Ack, WriteFields
<1> HIDE DEF r
<1>3. Shape(r)
  BY <1>2 DEF Shape
<1> QED
  BY <1>2, <1>3 DEF r, Acked

\* What calling completion blocks changes.
LEMMA CallIs ==
    ASSUME NEW v, Shape(v), NEW xs, NEW status \in Ends
    PROVE  Called(v, CallOnComplete(v, xs, status), xs, status)
<1> DEFINE r == CallOnComplete(v, xs, status)
           told == [x \in DOMAIN v.told |->
                           IF x \notin xs THEN v.told[x]
                           ELSE IF v.told[x] = "none" THEN status ELSE "twice"]
<1>1. v = [f \in WriteFields |-> v[f]] /\ v.told \in [Txs \cup 1 .. MaxWork -> Ends]
  BY DEF Shape
<1>2. /\ r = [f \in WriteFields |-> r[f]]
      /\ r.puts = v.puts /\ r.count = v.count /\ r.wire = v.wire /\ r.held = v.held
      /\ r.queue = v.queue /\ r.tx = v.tx /\ r.writes = v.writes /\ r.raised = v.raised
      /\ r.told = told
  BY <1>1 DEF CallOnComplete, WriteFields
<1>3. told \in [Txs \cup 1 .. MaxWork -> Ends]
  BY <1>1 DEF Ends
<1>4. \A x \in Txs \cup 1 .. MaxWork :
          told[x] = IF x \notin xs THEN v.told[x]
                    ELSE IF v.told[x] = "none" THEN status ELSE "twice"
  BY <1>1
<1> HIDE DEF r, told
<1>5. Shape(r)
  BY <1>2, <1>3 DEF Shape
<1> QED
  BY <1>2, <1>4, <1>5 DEF r, Called, ToldOf

\* What the end of transactions changes.
LEMMA EndIs ==
    ASSUME NEW v, Shape(v), NEW xs, NEW status \in Ends
    PROVE  TxDone(v, End(v, xs, status), xs, status)
<1> DEFINE tx == [x \in Txs |-> IF x \in xs THEN [v.tx[x] EXCEPT !.status = "Completed"]
                                ELSE v.tx[x]]
           u == [v EXCEPT !.tx = tx]
<1>1. v = [f \in WriteFields |-> v[f]] /\ v.tx \in [Txs -> TxType]
  BY DEF Shape
<1>2. /\ u = [f \in WriteFields |-> u[f]]
      /\ u.puts = v.puts /\ u.count = v.count /\ u.wire = v.wire /\ u.held = v.held
      /\ u.queue = v.queue /\ u.told = v.told /\ u.writes = v.writes /\ u.raised = v.raised
      /\ u.tx = tx
  BY <1>1 DEF WriteFields
<1>3. tx \in [Txs -> TxType]
  BY <1>1 DEF TxType
<1>4. \A x \in Txs : tx[x] = IF x \in xs THEN [v.tx[x] EXCEPT !.status = "Completed"]
                             ELSE v.tx[x]
  OBVIOUS
<1>5. End(v, xs, status) = CallOnComplete(u, xs, status)
  BY DEF End
<1> HIDE DEF u, tx
<1>6. Shape(u)
  BY <1>2, <1>3 DEF Shape
<1>7. Called(u, CallOnComplete(u, xs, status), xs, status)
  BY <1>6, CallIs
<1> DEFINE r == CallOnComplete(u, xs, status)
<1> HIDE DEF r
<1>8. ToldOf(v, r, xs, status)
  BY <1>2, <1>7 DEF Called, ToldOf, r
<1> QED
  BY <1>2, <1>4, <1>5, <1>7, <1>8 DEF Called, TxDone, r

\* What forgetting puts changes.
LEMMA RemoveIs ==
    ASSUME NEW v, Shape(v), NEW ids
    PROVE  Removed(v, RemovePuts(v, ids), ids)
<1> DEFINE r == RemovePuts(v, ids)
           puts == [i \in DOMAIN v.puts \ ids |-> v.puts[i]]
<1>1. v = [f \in WriteFields |-> v[f]]
  BY DEF Shape
<1>2. /\ r = [f \in WriteFields |-> r[f]]
      /\ r.count = v.count /\ r.wire = v.wire /\ r.held = v.held
      /\ r.queue = v.queue /\ r.tx = v.tx /\ r.told = v.told
      /\ r.writes = v.writes /\ r.raised = v.raised
      /\ r.puts = puts
  BY <1>1 DEF RemovePuts, WriteFields
<1>3. /\ DOMAIN puts = DOMAIN v.puts \ ids /\ \A i \in DOMAIN puts : puts[i] = v.puts[i]
      /\ puts = [i \in DOMAIN puts |-> puts[i]]
  OBVIOUS
<1> HIDE DEF r, puts
<1>4. Shape(r)
  BY <1>2, <1>3 DEF Shape
<1> QED
  BY <1>2, <1>3, <1>4 DEF r, Removed

\* What putInternal changes.
LEMMA PutIs ==
    ASSUME NEW v, Shape(v), NEW txs \in SUBSET Txs, NEW up \in BOOLEAN
    PROVE  Added(v, PutInternal(v, txs, up), txs, up)
<1> DEFINE r == PutInternal(v, txs, up)
           i == v.count + 1
           puts == [j \in DOMAIN v.puts \cup {i} |->
                       IF j = i THEN [txs |-> txs, sent |-> up] ELSE v.puts[j]]
           wire == IF up THEN Append(v.wire, [put |-> i, txs |-> txs]) ELSE v.wire
<1>1. /\ v = [f \in WriteFields |-> v[f]]
      /\ v.count \in Nat /\ DOMAIN v.puts \subseteq 1 .. v.count
      /\ v.writes \subseteq Txs \cup 1 .. v.count
      /\ v.wire \in Seq(Request)
  BY DEF Shape
<1>2. /\ r = [f \in WriteFields |-> r[f]]
      /\ r.count = i /\ r.held = v.held
      /\ r.queue = v.queue /\ r.tx = v.tx /\ r.told = v.told
      /\ r.writes = v.writes /\ r.raised = v.raised
      /\ r.puts = puts /\ r.wire = wire
  BY <1>1 DEF PutInternal, WriteFields
<1>3. /\ i \in Nat /\ i \notin DOMAIN v.puts
      /\ v.writes \subseteq Txs \cup 1 .. i
  <2>1. i \in Nat /\ i \notin 1 .. v.count /\ 1 .. v.count \subseteq 1 .. i
    BY <1>1
  <2> QED
    BY <2>1, <1>1
<1>4. /\ DOMAIN puts = DOMAIN v.puts \cup {i} /\ puts[i] = [txs |-> txs, sent |-> up]
      /\ \A j \in DOMAIN v.puts : puts[j] = v.puts[j]
      /\ puts = [j \in DOMAIN puts |-> puts[j]]
  BY <1>3
<1>6. [put |-> i, txs |-> txs] \in Request
  BY <1>3 DEF Request
<1>7. wire \in Seq(Request)
  BY <1>1, <1>6
<1> HIDE DEF r, puts, wire
<1>5. DOMAIN puts \subseteq 1 .. i
  <2>1. 1 .. v.count \subseteq 1 .. i /\ i \in 1 .. i
    BY <1>1
  <2> QED
    BY <2>1, <1>1, <1>4
<1>8. \A j \in DOMAIN puts : puts[j] \in [txs : SUBSET Txs, sent : BOOLEAN]
  <2>1. [txs |-> txs, sent |-> up] \in [txs : SUBSET Txs, sent : BOOLEAN]
    OBVIOUS
  <2> QED
    BY <1>4, <2>1 DEF Shape
<1> HIDE DEF i
<1>9. Shape(r)
  BY <1>2, <1>3, <1>4, <1>5, <1>7, <1>8 DEF Shape
<1> QED
  BY <1>2, <1>3, <1>4, <1>9 DEF r, i, wire, Added

Kept(v) == {x \in v.queue : v.tx[x].status # "Completed"}
Ready(v) == Kept(v) # {} /\ \A x \in Kept(v) : v.tx[x].status = "Run"

Sending(v, r, up) ==
    LET i == v.count + 1
    IN  /\ r.count = i
        /\ DOMAIN r.puts = DOMAIN v.puts \cup {i} /\ i \notin DOMAIN v.puts
        /\ r.puts[i] = [txs |-> Kept(v), sent |-> up]
        /\ \A j \in DOMAIN v.puts : r.puts[j] = v.puts[j]
        /\ r.wire = IF up THEN Append(v.wire, [put |-> i, txs |-> Kept(v)]) ELSE v.wire
        /\ \A x \in Txs : IF x \in Kept(v)
                            THEN /\ r.tx[x].status = "Sent"
                                 /\ r.tx[x].order = v.tx[x].order /\ r.tx[x].abort = v.tx[x].abort
                            ELSE r.tx[x] = v.tx[x]

Swept(v, r, up) ==
    /\ Shape(r)
    /\ r.held = v.held /\ r.told = v.told /\ r.writes = v.writes /\ r.raised = v.raised
    /\ r.queue = Kept(v)
    /\ IF Ready(v) THEN Sending(v, r, up)
       ELSE r.puts = v.puts /\ r.count = v.count /\ r.wire = v.wire /\ r.tx = v.tx

\* What sendAllReadyTransactions changes.
LEMMA SweepIs ==
    ASSUME NEW v, Shape(v), NEW up \in BOOLEAN
    PROVE  Swept(v, SendAllReady(v, up), up)
<1> DEFINE queue == Kept(v)
           tx == [x \in Txs |-> IF x \in queue
                                  THEN [v.tx[x] EXCEPT !.status = "Sent", !.retries = @ + 1]
                                  ELSE v.tx[x]]
           pruned == [v EXCEPT !.queue = queue]
           sent == [pruned EXCEPT !.tx = tx]
<1>1. v = [f \in WriteFields |-> v[f]] /\ v.tx \in [Txs -> TxType] /\ v.queue \subseteq Txs
  BY DEF Shape
<1>2. queue \subseteq Txs
  BY <1>1 DEF Kept
<1>3. SendAllReady(v, up) = IF Ready(v) THEN PutInternal(sent, queue, up) ELSE pruned
  BY DEF SendAllReady, Kept, Ready
<1>4. /\ tx \in [Txs -> TxType]
      /\ \A x \in Txs : IF x \in queue
                          THEN /\ tx[x].status = "Sent"
                               /\ tx[x].order = v.tx[x].order /\ tx[x].abort = v.tx[x].abort
                          ELSE tx[x] = v.tx[x]
  <2>1. \A x \in Txs : v.tx[x] \in TxType
    BY <1>1
  <2> HIDE DEF queue
  <2>2. \A x \in Txs : tx[x] \in TxType
    <3>1. ASSUME NEW x \in Txs
          PROVE  [v.tx[x] EXCEPT !.status = "Sent", !.retries = @ + 1] \in TxType
      <4>1. v.tx[x].retries + 1 \in Nat
        BY <2>1 DEF TxType
      <4> QED
        BY <2>1, <4>1 DEF TxType
    <3> QED
      BY <2>1, <3>1
  <2>3. \A x \in Txs : IF x \in queue
                          THEN /\ tx[x].status = "Sent"
                               /\ tx[x].order = v.tx[x].order /\ tx[x].abort = v.tx[x].abort
                          ELSE tx[x] = v.tx[x]
    BY <2>1 DEF TxType
  <2> QED
    BY <2>2, <2>3
<1> HIDE DEF tx, queue
<1>5. /\ pruned = [f \in WriteFields |-> pruned[f]]
      /\ pruned.puts = v.puts /\ pruned.count = v.count /\ pruned.wire = v.wire
      /\ pruned.held = v.held /\ pruned.told = v.told /\ pruned.writes = v.writes
      /\ pruned.raised = v.raised /\ pruned.tx = v.tx /\ pruned.queue = queue
  BY <1>1 DEF WriteFields
<1>6. /\ sent = [f \in WriteFields |-> sent[f]]
      /\ sent.puts = v.puts /\ sent.count = v.count /\ sent.wire = v.wire
      /\ sent.held = v.held /\ sent.told = v.told /\ sent.writes = v.writes
      /\ sent.raised = v.raised /\ sent.tx = tx /\ sent.queue = queue
  BY <1>1 DEF WriteFields
<1> HIDE DEF pruned, sent
<1>7. Shape(pruned)
  BY <1>2, <1>5 DEF Shape
<1>8. Shape(sent)
  BY <1>2, <1>4, <1>6 DEF Shape
<1>9. CASE Ready(v)
  <2> DEFINE r == PutInternal(sent, queue, up)
  <2>1. Added(sent, r, queue, up)
    BY <1>2, <1>8, PutIs
  <2> HIDE DEF r
  <2>2. Sending(v, r, up)
    BY <1>4, <1>6, <2>1 DEF Sending, Added, queue
  <2>3. Swept(v, r, up)
    BY <1>6, <1>9, <2>1, <2>2 DEF Swept, Added, queue
  <2> QED
    BY <1>3, <1>9, <2>3 DEF r
<1>10. CASE ~Ready(v)
  BY <1>3, <1>5, <1>7, <1>10 DEF Swept, queue
<1> QED
  BY <1>9, <1>10

\* The reruns before anything is sent.
OldWrites(v) == {x \in ToAbort(v) : v.tx[x].abort # "canceled"} \cup ToRun(v)
Finished(v, goOn) == ToAbort(v) \cup GiveUp(v, goOn)

RerunEnds(v, goOn) ==
    End([Ack(v, OldWrites(v)) EXCEPT !.writes = @ \cup (ToRun(v) \ Finished(v, goOn))],
        Finished(v, goOn), "error")

Reran(v, r, goOn) ==
    /\ Shape(r)
    /\ r.puts = v.puts /\ r.count = v.count /\ r.wire = v.wire /\ r.held = v.held
    /\ r.queue = v.queue
    /\ r.writes = (v.writes \ OldWrites(v)) \cup (ToRun(v) \ Finished(v, goOn))
    /\ r.raised = IF OldWrites(v) \subseteq v.writes THEN v.raised ELSE "ack"
    /\ \A x \in Txs : r.tx[x] = IF x \in Finished(v, goOn)
                                  THEN [v.tx[x] EXCEPT !.status = "Completed"]
                                ELSE v.tx[x]
    /\ ToldOf(v, r, Finished(v, goOn), "error")

\* What rerunTransactionQueue changes.
LEMMA RerunIs ==
    ASSUME NEW v, Shape(v), NEW goOn, NEW up
    PROVE  /\ Reran(v, RerunEnds(v, goOn), goOn)
           /\ RerunTransactions(v, goOn, up) = SendAllReady(RerunEnds(v, goOn), up)
<1> DEFINE old == OldWrites(v)
           again == ToRun(v) \ Finished(v, goOn)
           acked == Ack(v, old)
           u == [acked EXCEPT !.writes = @ \cup again]
           r == End(u, Finished(v, goOn), "error")
<1>1. RerunTransactions(v, goOn, up) = SendAllReady(RerunEnds(v, goOn), up)
  BY DEF RerunTransactions, RerunEnds, OldWrites, Finished
<1>2. Acked(v, acked, old)
  BY AckIs
<1>3. again \subseteq Txs
  BY DEF Shape, ToRun
<1>4. RerunEnds(v, goOn) = r
  BY DEF RerunEnds
<1> HIDE DEF acked, old, again
<1>5. acked = [f \in WriteFields |-> acked[f]]
  BY <1>2 DEF Acked, Shape
<1>6. /\ u = [f \in WriteFields |-> u[f]]
      /\ u.puts = acked.puts /\ u.count = acked.count /\ u.wire = acked.wire
      /\ u.held = acked.held /\ u.told = acked.told /\ u.tx = acked.tx
      /\ u.raised = acked.raised /\ u.queue = acked.queue
      /\ u.writes = acked.writes \cup again
  BY <1>5 DEF WriteFields
<1> HIDE DEF u
<1>7. Shape(u)
  BY <1>2, <1>3, <1>6 DEF Acked, Shape
<1>8. TxDone(u, r, Finished(v, goOn), "error")
  BY <1>7, EndIs DEF Ends
<1> HIDE DEF r
<1>9. ToldOf(v, r, Finished(v, goOn), "error")
  <2>1. u.told = v.told
    BY <1>2, <1>6 DEF Acked
  <2> QED
    BY <2>1, <1>8 DEF TxDone, ToldOf
<1>10. /\ r.puts = v.puts /\ r.count = v.count /\ r.wire = v.wire /\ r.held = v.held
       /\ r.queue = v.queue /\ u.tx = v.tx
       /\ r.writes = (v.writes \ old) \cup again
       /\ r.raised = IF old \subseteq v.writes THEN v.raised ELSE "ack"
  BY <1>2, <1>6, <1>8 DEF TxDone, Acked
<1>11. \A x \in Txs : r.tx[x] = IF x \in Finished(v, goOn)
                                  THEN [v.tx[x] EXCEPT !.status = "Completed"]
                                ELSE v.tx[x]
  BY <1>8, <1>10 DEF TxDone
<1>12. Shape(r)
  BY <1>8 DEF TxDone
<1>13. Reran(v, r, goOn)
  BY <1>9, <1>10, <1>11, <1>12 DEF Reran, old, again
<1> QED
  BY <1>1, <1>4, <1>13

-----------------------------------------------------------------------------
(* What the steps of the operators keep. *)

\* The same context with these answers to come.
Hands(c, d, H) ==
    /\ d \in Contexts
    /\ d.hand = H /\ d.up = c.up /\ d.purging = c.purging
    /\ d.last = c.last /\ d.applied = c.applied

\* A context with other answers to come.
LEMMA HandsIs ==
    ASSUME NEW c \in Contexts, NEW H \in SUBSET Answer
    PROVE  Hands(c, [c EXCEPT !.hand = H], H)
BY DEF Hands, Contexts

\* The number of started transactions, by which they are ordered, only grows.
LEMMA MoreStarted ==
    ASSUME NEW v, NEW r, \A x \in Txs : v.tx[x].status # "none" => r.tx[x].status # "none"
    PROVE  /\ Cardinality(Started(v)) \in Nat /\ Cardinality(Started(r)) \in Nat
           /\ Cardinality(Started(v)) <= Cardinality(Started(r))
<1>1. Started(v) \subseteq Started(r) /\ Started(r) \subseteq Txs
  BY DEF Started
<1>2. IsFiniteSet(Started(r))
  BY <1>1, RepoAssumption, FS_Subset
<1> QED
  BY <1>1, <1>2, FS_Subset, FS_CardinalityType

\* Transactions end, and some that are left in the queue leave it.
TxEnds(v, r, xs, status) ==
    /\ r.puts = v.puts /\ r.count = v.count /\ r.wire = v.wire
    /\ r.writes = v.writes \ xs
    /\ \A x \in Txs : r.tx[x] = IF x \in xs THEN [v.tx[x] EXCEPT !.status = "Completed"]
                                ELSE v.tx[x]
    /\ ToldOf(v, r, xs, status)
    /\ r.queue \subseteq v.queue
    /\ \A x \in v.queue \ r.queue : r.tx[x].status \notin {"Run", "Sent"}

\* Transactions that no put carries may end.
LEMMA EndSound ==
    ASSUME NEW v, NEW c, Sound(v, c), NEW r, Shape(r), NEW d,
           NEW A \in SUBSET c.hand, Hands(c, d, c.hand \ A),
           NEW xs \in SUBSET Txs, NEW status \in Ends \ {"none", "twice"}, TxEnds(v, r, xs, status),
           \A a \in A : a.txs # {} /\ a.txs \subseteq xs,
           \A x \in xs : v.tx[x].status # "Completed" /\ ~Carried(v, d, x),
           status = "ok" => \A x \in xs : c.applied[x] = 1
    PROVE  Sound(r, d)
<1>0. /\ Shape(v) /\ c \in Contexts
      /\ d \in Contexts /\ d.hand = c.hand \ A /\ d.up = c.up /\ d.purging = c.purging
      /\ d.last = c.last /\ d.applied = c.applied
  BY DEF Sound, Hands
<1>1. /\ r.puts = v.puts /\ r.count = v.count /\ r.wire = v.wire
      /\ r.writes = v.writes \ xs /\ r.queue \subseteq v.queue
  BY DEF TxEnds
<1>2. \A x \in Txs : /\ r.tx[x].status = IF x \in xs THEN "Completed" ELSE v.tx[x].status
                     /\ r.tx[x].order = v.tx[x].order /\ r.tx[x].abort = v.tx[x].abort
  <2>1. v.tx \in [Txs -> TxType]
    BY <1>0 DEF Shape
  <2> QED
    BY <2>1, ZenonT(40) DEF TxEnds, TxType
<1>3. \A i \in xs : i \notin Nat
  <2>1. Txs \cap Nat = {}
    BY RepoAssumption
  <2> QED
    BY <2>1
<1>15. \A i \in 1 .. MaxWork : i \in Nat /\ i \notin xs
  BY <1>3, RepoAssumption
<1>16. \A a \in d.hand : a \in c.hand
  BY <1>0
<1>4. \A i \in 1 .. MaxWork : r.told[i] = v.told[i]
  BY <1>15 DEF TxEnds, ToldOf
<1>5. \A x \in Txs : /\ x \in xs => (v.told[x] = "none" => r.told[x] = status)
                     /\ x \notin xs => r.told[x] = v.told[x]
  BY DEF TxEnds, ToldOf
<1>6. Apart(r, d)
  BY <1>0, <1>1 DEF Sound, Apart
<1>7. SetsSound(r, d)
  <2>0. SetsSound(v, c)
    BY DEF Sound
  <2>2. \A i \in DOMAIN r.puts : r.puts[i].txs = {} =>
            i \in 1 .. MaxWork /\ r.told[i] = "none" /\ (i \in r.writes \/ d.purging)
    BY <1>0, <1>1, <1>15, <1>4, <2>0 DEF SetsSound
  <2>3. \A a \in d.hand : a.txs = {} =>
           a.put \in 1 .. MaxWork /\ r.told[a.put] = "none" /\ (a.put \in r.writes \/ d.purging)
    BY <1>0, <1>1, <1>15, <1>16, <1>4, <2>0 DEF SetsSound
  <2>4. \A i \in r.writes \cap Nat :
           \/ i \in DOMAIN r.puts /\ r.puts[i].txs = {}
           \/ \E a \in d.hand : a.put = i /\ a.txs = {}
    BY <1>0, <1>1, <2>0, ZenonT(40) DEF SetsSound
  <2>5. /\ \A i \in 1 .. MaxWork : r.told[i] # "twice" /\ (r.told[i] # "none" => i <= r.count)
        /\ \A a \in d.hand : a.status = "canceled" => d.purging
        /\ d.purging => r.writes = {}
    BY <1>0, <1>1, <1>4, <1>16, <2>0 DEF SetsSound
  <2> QED
    BY <2>2, <2>3, <2>4, <2>5 DEF SetsSound
<1>8. \A x \in Txs : Carried(r, d, x) <=> Carried(v, c, x) /\ x \notin xs
  BY <1>0, <1>1 DEF Carried
<1>9. TxSound(r, d)
  <2>0. TxSound(v, c)
    BY DEF Sound
  <2> SUFFICES ASSUME NEW x \in Txs
               PROVE  LET t == r.tx[x]
                      IN  /\ Carried(r, d, x) <=> t.status \in {"Sent", "SentNeedsAbort"}
                          /\ t.status \in {"Run", "Sent"} => x \in r.queue /\ x \in r.writes
                          /\ t.status = "SentNeedsAbort" =>
                                 d.purging \/ (x \in r.writes /\ t.abort # "canceled")
                          /\ t.status = "NeedsAbort" /\ x \in r.queue =>
                                 d.purging \/ (x \in r.writes /\ t.abort # "canceled")
                          /\ t.status \in {"none", "Completed"} => x \notin r.writes
                          /\ t.status = "none" => x \notin r.queue
                          /\ r.told[x] # "none" <=> t.status = "Completed"
                          /\ r.told[x] # "twice"
    BY DEF TxSound
  <2>1. CASE x \in xs
    <3>1. v.tx[x].status # "Completed" /\ v.told[x] = "none" /\ r.told[x] = status
      BY <2>0, <2>1, <1>5 DEF TxSound
    <3>2. r.tx[x].status = "Completed" /\ x \notin r.writes /\ ~Carried(r, d, x)
      BY <1>1, <1>2, <1>8, <2>1
    <3> QED
      BY <3>1, <3>2
  <2>2. CASE x \notin xs
    <3>1. /\ r.tx[x].status = v.tx[x].status /\ r.tx[x].abort = v.tx[x].abort
          /\ r.told[x] = v.told[x] /\ (x \in r.writes <=> x \in v.writes)
          /\ Carried(r, d, x) <=> Carried(v, c, x)
          /\ x \in v.queue /\ v.tx[x].status \in {"Run", "Sent"} => x \in r.queue
      BY <1>1, <1>2, <1>5, <1>8, <2>2 DEF TxEnds
    <3> QED
      BY <1>0, <1>1, <2>0, <3>1 DEF TxSound
  <2> QED
    BY <2>1, <2>2
<1>10. SentTogether(r, d)
  <2>1. SentTogether(v, c)
    BY DEF Sound
  <2>2. \A y \in Txs : r.tx[y].status = "Sent" => v.tx[y].status = "Sent"
    BY <1>2
  <2>3. /\ \A i \in DOMAIN v.puts : v.puts[i].txs \subseteq Txs
        /\ \A a \in c.hand : a.txs \subseteq Txs
    BY <1>0 DEF Shape, Contexts, Answer
  <2> QED
    BY <1>0, <1>1, <1>16, <2>1, <2>2, <2>3 DEF SentTogether
<1>11. SentInFront(r)
  <2> SUFFICES ASSUME NEW x \in r.queue, NEW y \in r.queue, r.tx[x].status = "Sent",
                      r.tx[y].order <= r.tx[x].order
               PROVE  r.tx[y].status = "Sent"
    BY DEF SentInFront
  <2>1. x \in Txs /\ y \in Txs /\ x \in v.queue /\ y \in v.queue
    BY <1>0, <1>1 DEF Shape
  <2>2. x \notin xs /\ v.tx[x].status = "Sent" /\ v.tx[y].status = "Sent"
    <3>1. SentInFront(v)
      BY DEF Sound
    <3>2. v.tx[x].status = "Sent" /\ x \notin xs /\ v.tx[y].order <= v.tx[x].order
      BY <1>2, <2>1
    <3> QED
      BY <2>1, <3>1, <3>2 DEF SentInFront
  <2>3. CASE y \in xs
    <3>1. Carried(v, c, y) /\ ~Carried(v, d, y)
      BY <2>1, <2>2, <2>3 DEF Sound, TxSound
    <3>2. PICK a \in A : y \in a.txs
      BY <1>0, <3>1 DEF Carried
    <3>3. x \in a.txs
      BY <2>1, <2>2, <3>2 DEF Sound, SentTogether
    <3> QED
      BY <2>2, <3>3
  <2> QED
    BY <1>2, <2>1, <2>2, <2>3
<1>12. OrdersSound(r)
  <2>1. /\ Cardinality(Started(v)) <= Cardinality(Started(r))
        /\ Cardinality(Started(v)) \in Nat /\ Cardinality(Started(r)) \in Nat
    <3>1. \A x \in Txs : v.tx[x].status # "none" => r.tx[x].status # "none"
      BY <1>2
    <3> QED
      BY <3>1, MoreStarted
  <2>2. \A x \in Txs : v.tx[x].order \in Nat /\ v.tx[x].order <= Cardinality(Started(v))
    BY <1>0 DEF Sound, OrdersSound, Shape, TxType
  <2> QED
    <3> SUFFICES ASSUME NEW x \in Txs PROVE r.tx[x].order <= Cardinality(Started(r))
      BY DEF OrdersSound
    <3>1. r.tx[x].order = v.tx[x].order
      BY <1>2
    <3> QED
      BY <2>1, <2>2, <3>1
<1>13. WireSound(r, d)
  <2>1. WireSound(v, c)
    BY DEF Sound
  <2>2. d.up = c.up /\ r.wire = v.wire /\ r.puts = v.puts /\ r.count = v.count
    BY <1>0, <1>1
  <2> QED
    BY ONLY <2>1, <2>2 DEF WireSound
<1>14. Delivered(r, d)
  <2>0. Delivered(v, c)
    BY DEF Sound
  <2>1. \A x \in Txs :
           /\ d.applied[x] \in {0, 1}
           /\ d.applied[x] = 1 => \A k \in DOMAIN r.wire : x \notin r.wire[k].txs
           /\ r.tx[x].status \in {"none", "Run"} => Unseen(r, d, x)
           /\ r.told[x] = "ok" => d.applied[x] = 1
    <3> SUFFICES ASSUME NEW x \in Txs
                 PROVE  /\ d.applied[x] \in {0, 1}
                        /\ d.applied[x] = 1 => \A k \in DOMAIN r.wire : x \notin r.wire[k].txs
                        /\ r.tx[x].status \in {"none", "Run"} => Unseen(r, d, x)
                        /\ r.told[x] = "ok" => d.applied[x] = 1
      OBVIOUS
    <3>1. r.tx[x].status \in {"none", "Run"} => v.tx[x].status \in {"none", "Run"}
      BY <1>2
    <3>2. r.told[x] = "ok" => d.applied[x] = 1
      <4>1. x \in xs => v.told[x] = "none"
        BY DEF Sound, TxSound
      <4> QED
        BY <1>0, <1>5, <2>0, <4>1 DEF Delivered
    <3> QED
      BY <1>0, <1>1, <2>0, <3>1, <3>2 DEF Delivered, Unseen
  <2>4. \A x : Unseen(r, d, x) <=> Unseen(v, c, x)
    BY <1>0, <1>1 DEF Unseen
  <2>5. \A i : Final(r, d, i) <=> Final(v, c, i)
    BY <1>0, <1>1 DEF Final
  <2>2. /\ \A i \in DOMAIN r.puts : \A x \in r.puts[i].txs :
              IF r.puts[i].sent THEN d.up ELSE Unseen(r, d, x)
        /\ \A a \in d.hand : \A x \in a.txs :
              /\ a.status = "ok" => d.applied[x] = 1
              /\ a.status = "datastale" => Unseen(r, d, x)
    BY <1>0, <1>1, <1>16, <2>0, <2>4 DEF Delivered
  <2>3. /\ \A i \in 1 .. MaxWork : r.told[i] = "ok" => Final(r, d, i)
        /\ \A a \in d.hand : a.status = "ok" => Final(r, d, a.put)
    BY <1>4, <1>16, <2>0, <2>5 DEF Delivered
  <2> QED
    BY <2>1, <2>2, <2>3 DEF Delivered
<1> QED
  BY <1>0, <1>6, <1>7, <1>9, <1>10, <1>11, <1>12, <1>13, <1>14 DEF Sound

\* What is known of the parts of a sound state.
LEMMA SoundParts ==
    ASSUME NEW v, NEW c, Sound(v, c)
    PROVE  /\ v.count \in Nat /\ DOMAIN v.puts \subseteq 1 .. v.count
           /\ \A i \in DOMAIN v.puts : /\ i \in Nat /\ v.puts[i].txs \subseteq Txs
                                       /\ v.puts[i].sent \in BOOLEAN
           /\ \A a \in c.hand : /\ a \in Answer /\ a.put \in Nat /\ a.txs \subseteq Txs
                                /\ a.status \in Statuses
           /\ \A k \in DOMAIN v.wire : v.wire[k].put \in Nat /\ v.wire[k].txs \subseteq Txs
           /\ \A x \in Txs : x \notin Nat /\ v.tx[x] \in TxType
           /\ v.queue \subseteq Txs
           /\ c.hand \subseteq Answer /\ c.up \in BOOLEAN /\ c.purging \in BOOLEAN
           /\ c.last \in Nat
<1>1. Shape(v) /\ c \in Contexts
  BY DEF Sound
<1>2. /\ v.count \in Nat /\ DOMAIN v.puts \subseteq 1 .. v.count
      /\ v.queue \subseteq Txs /\ v.tx \in [Txs -> TxType] /\ v.wire \in Seq(Request)
      /\ \A i \in DOMAIN v.puts : v.puts[i] \in [txs : SUBSET Txs, sent : BOOLEAN]
  BY <1>1 DEF Shape
<1>3. /\ c.hand \subseteq Answer /\ c.up \in BOOLEAN /\ c.purging \in BOOLEAN
      /\ c.last \in Nat
  BY <1>1 DEF Contexts
<1>4. \A a \in Answer : a.put \in Nat /\ a.txs \subseteq Txs /\ a.status \in Statuses
  BY DEF Answer
<1>5. \A k \in DOMAIN v.wire : v.wire[k].put \in Nat /\ v.wire[k].txs \subseteq Txs
  <2>1. \A k \in DOMAIN v.wire : v.wire[k] \in Request
    BY <1>2
  <2> QED
    BY <2>1 DEF Request
<1>6. \A x \in Txs : x \notin Nat /\ v.tx[x] \in TxType
  <2>1. Txs \cap Nat = {}
    BY RepoAssumption
  <2> QED
    BY <1>2, <2>1
<1>7. \A i \in DOMAIN v.puts : /\ i \in Nat /\ v.puts[i].txs \subseteq Txs
                               /\ v.puts[i].sent \in BOOLEAN
  BY <1>2
<1> QED
  BY <1>2, <1>3, <1>4, <1>5, <1>6, <1>7

\* A set has its answer.
LEMMA SetSound ==
    ASSUME NEW v, NEW c, Sound(v, c), NEW r, Shape(r), NEW d,
           NEW a \in c.hand, a.txs = {}, Hands(c, d, c.hand \ {a}),
           r.puts = v.puts, r.count = v.count, r.wire = v.wire, r.queue = v.queue, r.tx = v.tx,
           r.writes = v.writes \ {a.put}, ToldOf(v, r, {a.put}, a.status)
    PROVE  Sound(r, d)
<1>0. /\ Shape(v) /\ c \in Contexts
      /\ d \in Contexts /\ d.hand = c.hand \ {a} /\ d.up = c.up /\ d.purging = c.purging
      /\ d.last = c.last /\ d.applied = c.applied
  BY DEF Sound, Hands
<1>1. /\ \A b \in d.hand : b \in c.hand /\ b # a /\ b.put # a.put
      /\ \A i \in DOMAIN v.puts : i # a.put
      /\ a.put \in 1 .. v.count
  BY <1>0 DEF Sound, Apart
<1>2. a.put \in 1 .. MaxWork /\ v.told[a.put] = "none"
  BY DEF Sound, SetsSound
<1>3. /\ r.told[a.put] = a.status /\ a.status \in Statuses
      /\ \A i \in 1 .. MaxWork : i # a.put => r.told[i] = v.told[i]
  <2>1. a.status \in Statuses
    BY SoundParts
  <2> QED
    BY <1>2, <2>1 DEF ToldOf
<1>4. \A x \in Txs : r.told[x] = v.told[x] /\ (x \in r.writes <=> x \in v.writes)
  BY <1>2, RepoAssumption, SoundParts DEF ToldOf
<1>5. Apart(r, d)
  BY <1>0 DEF Sound, Apart
<1>6. SetsSound(r, d)
  <2>0. SetsSound(v, c)
    BY DEF Sound
  <2>2. \A i \in DOMAIN r.puts : r.puts[i].txs = {} =>
            i \in 1 .. MaxWork /\ r.told[i] = "none" /\ (i \in r.writes \/ d.purging)
    BY <1>0, <1>1, <1>3, <2>0 DEF SetsSound
  <2>3. \A b \in d.hand : b.txs = {} =>
           b.put \in 1 .. MaxWork /\ r.told[b.put] = "none" /\ (b.put \in r.writes \/ d.purging)
    BY <1>0, <1>1, <1>3, <2>0 DEF SetsSound
  <2>4. \A i \in r.writes \cap Nat :
           \/ i \in DOMAIN r.puts /\ r.puts[i].txs = {}
           \/ \E b \in d.hand : b.put = i /\ b.txs = {}
    BY <1>0, <2>0 DEF SetsSound
  <2>5. \A i \in 1 .. MaxWork : r.told[i] # "twice" /\ (r.told[i] # "none" => i <= r.count)
    BY <1>1, <1>3, <2>0 DEF SetsSound, Statuses
  <2>6. /\ \A b \in d.hand : b.status = "canceled" => d.purging
        /\ d.purging => r.writes = {}
    BY <1>0, <1>1, <2>0 DEF SetsSound
  <2> QED
    BY <2>2, <2>3, <2>4, <2>5, <2>6 DEF SetsSound
<1>7. \A x \in Txs : Carried(r, d, x) <=> Carried(v, c, x)
  BY <1>0 DEF Carried
<1>8. TxSound(r, d)
  BY <1>0, <1>4, <1>7 DEF Sound, TxSound
<1>9. SentTogether(r, d)
  BY <1>0, <1>1 DEF Sound, SentTogether
<1>10. SentInFront(r)
  BY DEF Sound, SentInFront
<1>11. OrdersSound(r)
  BY DEF Sound, OrdersSound, Started
<1>12. WireSound(r, d)
  BY <1>0 DEF Sound, WireSound
<1>13. Delivered(r, d)
  <2>0. Delivered(v, c)
    BY DEF Sound
  <2>1. \A x : Unseen(r, d, x) <=> Unseen(v, c, x)
    BY <1>0 DEF Unseen
  <2>2. \A i : Final(r, d, i) <=> Final(v, c, i)
    BY <1>0 DEF Final
  <2>3. \A i \in 1 .. MaxWork : r.told[i] = "ok" => Final(r, d, i)
    BY <1>3, <2>0, <2>2 DEF Delivered
  <2> QED
    BY <1>0, <1>1, <1>4, <2>0, <2>1, <2>2, <2>3 DEF Delivered
<1> QED
  BY <1>0, <1>5, <1>6, <1>8, <1>9, <1>10, <1>11, <1>12, <1>13 DEF Sound

\* What becomes of the transactions whose put was not taken.
AfterAnswer(t, status) ==
    IF status # "datastale" THEN [t EXCEPT !.status = "NeedsAbort", !.abort = status]
    ELSE IF t.status = "SentNeedsAbort" THEN [t EXCEPT !.status = "NeedsAbort"]
    ELSE [t EXCEPT !.status = "Run"]

\* An answer that is no success may be passed on to its transactions.
LEMMA MarkSound ==
    ASSUME NEW v, NEW c, Sound(v, c), NEW r, Shape(r), NEW d,
           NEW a \in c.hand, a.status # "ok", a.txs # {}, Hands(c, d, c.hand \ {a}),
           r.puts = v.puts, r.count = v.count, r.wire = v.wire, r.queue = v.queue,
           r.told = v.told, r.writes = v.writes,
           \A x \in Txs : r.tx[x] = IF x \in a.txs THEN AfterAnswer(v.tx[x], a.status) ELSE v.tx[x]
    PROVE  Sound(r, d)
<1>0. /\ Shape(v) /\ c \in Contexts
      /\ d \in Contexts /\ d.hand = c.hand \ {a} /\ d.up = c.up /\ d.purging = c.purging
      /\ d.last = c.last /\ d.applied = c.applied
  BY DEF Sound, Hands
<1>1. /\ \A b \in d.hand : b \in c.hand /\ b.txs \cap a.txs = {}
      /\ \A i \in DOMAIN v.puts : a.txs \cap v.puts[i].txs = {}
  BY <1>0 DEF Sound, Apart
<1>2. a.status \in Statuses /\ \A x \in Txs : v.tx[x] \in TxType
  BY SoundParts
<1>3. \A x \in Txs :
         /\ r.tx[x].order = v.tx[x].order
         /\ x \notin a.txs => r.tx[x].status = v.tx[x].status /\ r.tx[x].abort = v.tx[x].abort
         /\ x \in a.txs =>
              IF a.status # "datastale"
                THEN r.tx[x].status = "NeedsAbort" /\ r.tx[x].abort = a.status
              ELSE /\ r.tx[x].abort = v.tx[x].abort
                   /\ r.tx[x].status = IF v.tx[x].status = "SentNeedsAbort" THEN "NeedsAbort"
                                       ELSE "Run"
  BY <1>2, ZenonT(40) DEF AfterAnswer, TxType
<1>4. Apart(r, d)
  BY <1>0 DEF Sound, Apart
<1>5. SetsSound(r, d)
  <2>0. SetsSound(v, c)
    BY DEF Sound
  <2>1. \A b \in c.hand : b.txs = {} => b \in d.hand
    BY <1>0
  <2>2. \A i \in r.writes \cap Nat :
           \/ i \in DOMAIN r.puts /\ r.puts[i].txs = {}
           \/ \E b \in d.hand : b.put = i /\ b.txs = {}
    BY <2>0, <2>1 DEF SetsSound
  <2>3. \A b \in d.hand : b.txs = {} =>
           b.put \in 1 .. MaxWork /\ r.told[b.put] = "none" /\ (b.put \in r.writes \/ d.purging)
    BY <1>0, <1>1, <2>0 DEF SetsSound
  <2>4. \A i \in DOMAIN r.puts : r.puts[i].txs = {} =>
           i \in 1 .. MaxWork /\ r.told[i] = "none" /\ (i \in r.writes \/ d.purging)
    BY <1>0, <2>0 DEF SetsSound
  <2>5. /\ \A i \in 1 .. MaxWork : r.told[i] # "twice" /\ (r.told[i] # "none" => i <= r.count)
        /\ \A b \in d.hand : b.status = "canceled" => d.purging
        /\ d.purging => r.writes = {}
    BY <1>0, <1>1, <2>0 DEF SetsSound
  <2> QED
    BY <2>2, <2>3, <2>4, <2>5 DEF SetsSound
<1>6. \A x \in Txs : Carried(r, d, x) <=> Carried(v, c, x) /\ x \notin a.txs
  BY <1>0, <1>1 DEF Carried
<1>7. \A x \in a.txs : Carried(v, c, x)
  BY DEF Carried
<1>8. TxSound(r, d)
  <2>0. TxSound(v, c) /\ SetsSound(v, c)
    BY DEF Sound
  <2> SUFFICES ASSUME NEW x \in Txs
               PROVE  LET t == r.tx[x]
                      IN  /\ Carried(r, d, x) <=> t.status \in {"Sent", "SentNeedsAbort"}
                          /\ t.status \in {"Run", "Sent"} => x \in r.queue /\ x \in r.writes
                          /\ t.status = "SentNeedsAbort" =>
                                 d.purging \/ (x \in r.writes /\ t.abort # "canceled")
                          /\ t.status = "NeedsAbort" /\ x \in r.queue =>
                                 d.purging \/ (x \in r.writes /\ t.abort # "canceled")
                          /\ t.status \in {"none", "Completed"} => x \notin r.writes
                          /\ t.status = "none" => x \notin r.queue
                          /\ r.told[x] # "none" <=> t.status = "Completed"
                          /\ r.told[x] # "twice"
    BY DEF TxSound
  <2>1. CASE x \in a.txs
    <3>1. /\ v.tx[x].status \in {"Sent", "SentNeedsAbort"} /\ ~Carried(r, d, x)
          /\ v.tx[x].status = "Sent" => x \in v.queue /\ x \in v.writes
          /\ c.purging \/ x \in v.writes
          /\ v.tx[x].status = "SentNeedsAbort" => c.purging \/ v.tx[x].abort # "canceled"
          /\ v.told[x] = "none"
      BY <1>6, <1>7, <2>0, <2>1 DEF TxSound
    <3>2. a.status = "canceled" => d.purging
      BY <1>0, <2>0 DEF SetsSound
    <3> QED
      BY <1>0, <1>3, <2>1, <3>1, <3>2
  <2>2. CASE x \notin a.txs
    BY <1>0, <1>3, <1>6, <2>0, <2>2 DEF TxSound
  <2> QED
    BY <2>1, <2>2
<1>9. \A x \in Txs : r.tx[x].status = "Sent" => v.tx[x].status = "Sent" /\ x \notin a.txs
  BY <1>3
<1>10. SentTogether(r, d)
  <2>1. SentTogether(v, c)
    BY DEF Sound
  <2>2. /\ \A i \in DOMAIN v.puts : v.puts[i].txs \subseteq Txs
        /\ \A b \in c.hand : b.txs \subseteq Txs
    BY SoundParts
  <2> QED
    BY <1>1, <1>9, <2>1, <2>2 DEF SentTogether
<1>11. SentInFront(r)
  <2> SUFFICES ASSUME NEW x \in r.queue, NEW y \in r.queue, r.tx[x].status = "Sent",
                      r.tx[y].order <= r.tx[x].order
               PROVE  r.tx[y].status = "Sent"
    BY DEF SentInFront
  <2>1. x \in Txs /\ y \in Txs
    BY <1>0 DEF Shape
  <2>2. v.tx[x].status = "Sent" /\ x \notin a.txs /\ v.tx[y].order <= v.tx[x].order
    BY <1>3, <1>9, <2>1
  <2>3. v.tx[y].status = "Sent"
    BY <2>2 DEF Sound, SentInFront
  <2>4. y \notin a.txs
    BY <2>1, <2>2, <2>3 DEF Sound, SentTogether
  <2> QED
    BY <1>3, <2>1, <2>3, <2>4
<1>12. OrdersSound(r)
  <2>1. \A x \in Txs : v.tx[x].status # "none" => r.tx[x].status # "none"
    BY <1>3
  <2>2. /\ Cardinality(Started(v)) <= Cardinality(Started(r))
        /\ Cardinality(Started(v)) \in Nat /\ Cardinality(Started(r)) \in Nat
    BY <2>1, MoreStarted
  <2>3. \A x \in Txs : v.tx[x].order \in Nat /\ v.tx[x].order <= Cardinality(Started(v))
    BY <1>2 DEF Sound, OrdersSound, TxType
  <2> SUFFICES ASSUME NEW x \in Txs PROVE r.tx[x].order <= Cardinality(Started(r))
    BY DEF OrdersSound
  <2>4. r.tx[x].order = v.tx[x].order
    BY <1>3
  <2> QED
    BY <2>2, <2>3, <2>4
<1>13. WireSound(r, d)
  BY <1>0 DEF Sound, WireSound
<1>14. Delivered(r, d)
  <2>0. Delivered(v, c)
    BY DEF Sound
  <2>1. \A x : Unseen(r, d, x) <=> Unseen(v, c, x)
    BY <1>0 DEF Unseen
  <2>2. \A i : Final(r, d, i) <=> Final(v, c, i)
    BY <1>0 DEF Final
  <2>3. \A x \in Txs : r.tx[x].status \in {"none", "Run"} => Unseen(v, c, x)
    BY <1>3, <2>0 DEF Delivered
  <2> QED
    BY <1>0, <1>1, <2>0, <2>1, <2>2, <2>3 DEF Delivered
<1> QED
  BY <1>0, <1>4, <1>5, <1>8, <1>10, <1>11, <1>12, <1>13, <1>14 DEF Sound

\* A put is added.
Adding(v, r, c, T) ==
    LET i == v.count + 1
    IN  /\ r.count = i
        /\ DOMAIN r.puts = DOMAIN v.puts \cup {i}
        /\ r.puts[i].txs = T /\ r.puts[i].sent = c.up
        /\ \A j \in DOMAIN v.puts : r.puts[j] = v.puts[j]
        /\ r.wire = IF c.up THEN Append(v.wire, [put |-> i, txs |-> T]) ELSE v.wire

\* A put that is new, with transactions that no other carries.
LEMMA AddSound ==
    ASSUME NEW v, NEW c, Sound(v, c), NEW r, NEW T \in SUBSET Txs, Adding(v, r, c, T),
           \A x \in T : Unseen(v, c, x) /\ ~Carried(v, c, x)
    PROVE  /\ Apart(r, c) /\ WireSound(r, c)
           /\ \A x : x \notin T => (Unseen(r, c, x) <=> Unseen(v, c, x))
           /\ \A j \in Nat : Final(v, c, j) => Final(r, c, j)
           /\ \A x \in Txs : c.applied[x] = 1 => \A k \in DOMAIN r.wire : x \notin r.wire[k].txs
           /\ \A j \in DOMAIN r.puts : \A x \in r.puts[j].txs :
                 IF r.puts[j].sent THEN c.up ELSE Unseen(r, c, x)
           /\ \A a \in c.hand : \A x \in a.txs : a.status = "datastale" => Unseen(r, c, x)
<1> DEFINE i == v.count + 1
           n == Len(v.wire)
<1>0. /\ v.count \in Nat /\ DOMAIN v.puts \subseteq 1 .. v.count /\ c.up \in BOOLEAN
      /\ v.wire \in Seq(Request) /\ \A j \in DOMAIN v.puts : j \in Nat
  BY SoundParts DEF Sound, Shape
<1>1. /\ i \in Nat /\ v.count < i /\ i \notin DOMAIN v.puts /\ i \in 1 .. i
      /\ 1 .. v.count \subseteq 1 .. i
  BY <1>0
<1>2. /\ r.count = i
      /\ DOMAIN r.puts = DOMAIN v.puts \cup {i}
      /\ r.puts[i].txs = T /\ r.puts[i].sent = c.up
      /\ \A j \in DOMAIN v.puts : r.puts[j] = v.puts[j]
      /\ ~c.up => r.wire = v.wire
  BY DEF Adding
<1>3. n \in Nat /\ DOMAIN v.wire = 1 .. n
  BY <1>0
<1>4. c.up => /\ DOMAIN r.wire = 1 .. n + 1
              /\ \A k \in 1 .. n : r.wire[k] = v.wire[k]
              /\ r.wire[n + 1].put = i /\ r.wire[n + 1].txs = T
  <2>1. [put |-> i, txs |-> T] \in Request
    BY <1>1 DEF Request
  <2> QED
    BY <1>0, <2>1 DEF Adding
<1> HIDE DEF i, n
<1>5. \A k \in DOMAIN r.wire : \/ k \in DOMAIN v.wire /\ r.wire[k] = v.wire[k]
                               \/ c.up /\ k = n + 1 /\ r.wire[k].put = i /\ r.wire[k].txs = T
  BY <1>2, <1>3, <1>4
<1>6. \A k \in DOMAIN v.wire : k \in DOMAIN r.wire /\ r.wire[k] = v.wire[k]
  BY <1>2, <1>3, <1>4
<1>7. \A j \in DOMAIN r.puts : \/ j \in DOMAIN v.puts /\ r.puts[j] = v.puts[j]
                               \/ j = i /\ r.puts[j].txs = T /\ r.puts[j].sent = c.up
  BY <1>2
<1>8. Apart(r, c)
  <2>0. Apart(v, c)
    BY DEF Sound
  <2>1. /\ \A j \in DOMAIN v.puts : v.puts[j].txs \cap T = {}
        /\ \A a \in c.hand : a.txs \cap T = {}
    BY DEF Carried
  <2>2. \A j, k \in DOMAIN r.puts : j # k => r.puts[j].txs \cap r.puts[k].txs = {}
    BY <1>7, <2>0, <2>1 DEF Apart
  <2>3. \A a \in c.hand : a.put \in 1 .. r.count /\ a.put \notin DOMAIN r.puts
    <3> SUFFICES ASSUME NEW a \in c.hand PROVE a.put \in 1 .. r.count /\ a.put \notin DOMAIN r.puts
      OBVIOUS
    <3>1. a.put \in 1 .. v.count /\ a.put \notin DOMAIN v.puts
      BY <2>0 DEF Apart
    <3>2. a.put \in 1 .. i /\ a.put # i
      BY <1>0, <1>1, <3>1
    <3> QED
      BY <1>2, <3>1, <3>2
  <2>4. \A a \in c.hand, j \in DOMAIN r.puts : a.txs \cap r.puts[j].txs = {}
    BY <1>7, <2>0, <2>1 DEF Apart
  <2> QED
    BY <2>0, <2>2, <2>3, <2>4 DEF Apart
<1>9. WireSound(r, c)
  <2>0. WireSound(v, c)
    BY DEF Sound
  <2>1. ~c.up => r.wire = <<>>
    BY <1>2, <2>0 DEF WireSound
  <2>2. \A k \in DOMAIN v.wire : v.wire[k].put \in 1 .. v.count
    BY <2>0 DEF WireSound
  <2>3. \A k \in DOMAIN r.wire : r.wire[k].put \in 1 .. r.count
    BY <1>1, <1>2, <1>5, <2>2
  <2>4. \A j, k \in DOMAIN r.wire : j < k => r.wire[j].put < r.wire[k].put
    <3> SUFFICES ASSUME NEW j \in DOMAIN r.wire, NEW k \in DOMAIN r.wire, j < k
                 PROVE  r.wire[j].put < r.wire[k].put
      OBVIOUS
    <3>1. j \in DOMAIN v.wire /\ r.wire[j] = v.wire[j]
      BY <1>2, <1>3, <1>4, <1>5
    <3>2. CASE k \in DOMAIN v.wire
      BY <1>6, <2>0, <3>1, <3>2 DEF WireSound
    <3>3. CASE k \notin DOMAIN v.wire
      <4>1. r.wire[k].put = i /\ v.wire[j].put \in 1 .. v.count
        BY <1>5, <2>2, <3>1, <3>3
      <4> QED
        BY <1>0, <1>1, <3>1, <4>1
    <3> QED
      BY <3>2, <3>3
  <2>5. \A j, k \in DOMAIN r.wire : j # k => r.wire[j].txs \cap r.wire[k].txs = {}
    <3>1. \A k \in DOMAIN v.wire : v.wire[k].txs \cap T = {}
      BY DEF Unseen
    <3> QED
      BY <1>5, <2>0, <3>1 DEF WireSound
  <2>6. \A k \in DOMAIN r.wire : r.wire[k].put \in DOMAIN r.puts =>
            r.wire[k].txs = r.puts[r.wire[k].put].txs
    <3> SUFFICES ASSUME NEW k \in DOMAIN r.wire, r.wire[k].put \in DOMAIN r.puts
                 PROVE  r.wire[k].txs = r.puts[r.wire[k].put].txs
      OBVIOUS
    <3>1. CASE k \in DOMAIN v.wire /\ r.wire[k] = v.wire[k]
      <4>1. v.wire[k].put \in 1 .. v.count
        BY <2>2, <3>1
      <4>2. v.wire[k].put # i
        BY <1>0, <1>1, <4>1
      <4> QED
        BY <1>2, <2>0, <3>1, <4>2 DEF WireSound
    <3>2. CASE r.wire[k].put = i /\ r.wire[k].txs = T
      BY <1>2, <3>2
    <3> QED
      BY <1>5, <3>1, <3>2
  <2>7. c.up => \A j \in DOMAIN r.puts : r.puts[j].sent /\ \E k \in DOMAIN r.wire : r.wire[k].put = j
    <3> SUFFICES ASSUME c.up, NEW j \in DOMAIN r.puts
                 PROVE  r.puts[j].sent /\ \E k \in DOMAIN r.wire : r.wire[k].put = j
      OBVIOUS
    <3>1. CASE j \in DOMAIN v.puts /\ r.puts[j] = v.puts[j]
      BY <1>6, <2>0, <3>1 DEF WireSound
    <3>2. CASE j = i /\ r.puts[j].sent = c.up
      <4>1. n + 1 \in DOMAIN r.wire /\ r.wire[n + 1].put = i
        BY <1>3, <1>4
      <4> QED
        BY <3>2, <4>1
    <3> QED
      BY <1>7, <3>1, <3>2
  <2> QED
    BY <2>1, <2>3, <2>4, <2>5, <2>6, <2>7 DEF WireSound
<1>10. \A x : x \notin T => (Unseen(r, c, x) <=> Unseen(v, c, x))
  BY <1>5, <1>6 DEF Unseen
<1>11. \A j \in Nat : Final(v, c, j) => Final(r, c, j)
  <2> SUFFICES ASSUME NEW j \in Nat, Final(v, c, j) PROVE Final(r, c, j)
    OBVIOUS
  <2>1. j <= c.last /\ j <= v.count
    BY DEF Final
  <2>2. j < i /\ j <= r.count
    BY <1>0, <1>1, <1>2, <2>1
  <2>3. \A k \in DOMAIN r.wire : j < r.wire[k].put
    BY <1>5, <2>2 DEF Final
  <2>4. \A k \in DOMAIN r.puts : j < k
    BY <1>2, <2>2 DEF Final
  <2> QED
    BY <2>1, <2>2, <2>3, <2>4 DEF Final
<1>12. \A x \in Txs : c.applied[x] = 1 => \A k \in DOMAIN r.wire : x \notin r.wire[k].txs
  BY <1>5 DEF Sound, Delivered, Unseen
<1>13. \A j \in DOMAIN r.puts : \A x \in r.puts[j].txs :
           IF r.puts[j].sent THEN c.up ELSE Unseen(r, c, x)
  <2>0. Delivered(v, c)
    BY DEF Sound
  <2> SUFFICES ASSUME NEW j \in DOMAIN r.puts, NEW x \in r.puts[j].txs
               PROVE  IF r.puts[j].sent THEN c.up ELSE Unseen(r, c, x)
    OBVIOUS
  <2>1. CASE j \in DOMAIN v.puts /\ r.puts[j] = v.puts[j]
    <3>1. x \notin T
      BY <2>1 DEF Carried
    <3> QED
      BY <1>10, <2>0, <2>1, <3>1 DEF Delivered
  <2>2. CASE r.puts[j].txs = T /\ r.puts[j].sent = c.up
    BY <1>2, <2>2 DEF Unseen
  <2> QED
    BY <1>7, <2>1, <2>2
<1>14. \A a \in c.hand : \A x \in a.txs : a.status = "datastale" => Unseen(r, c, x)
  <2>1. \A a \in c.hand : \A x \in a.txs : x \notin T
    BY DEF Carried
  <2> QED
    BY <1>10, <2>1 DEF Sound, Delivered
<1> QED
  BY <1>8, <1>9, <1>10, <1>11, <1>12, <1>13, <1>14

Clean3 == {"Run", "Sent", "SentNeedsAbort"}

\* sendAllReadyTransactions does not touch what is canceled.
LEMMA SendSound ==
    ASSUME NEW v, NEW c, Sound(v, c), NEW r, Swept(v, r, c.up),
           \A x \in v.queue : v.tx[x].status # "NeedsAbort"
    PROVE  Sound(r, c) /\ Clean(r) /\ (c.purging => r.puts = v.puts)
<1> DEFINE i == v.count + 1
           queue == Kept(v)
<1>0. /\ Shape(v) /\ Shape(r) /\ c \in Contexts
      /\ r.told = v.told /\ r.writes = v.writes /\ r.queue = queue
  BY DEF Sound, Swept
<1>1. \A x \in Txs : v.tx[x] \in TxType
  BY SoundParts
<1>2. queue \subseteq v.queue /\ queue \subseteq Txs
  BY SoundParts DEF Kept
<1>3. \A x \in queue : v.tx[x].status \in Clean3
  BY <1>1, <1>2 DEF Sound, TxSound, TxType, Clean3, Kept
<1>4. CASE ~Ready(v)
  <2>1. r.puts = v.puts /\ r.count = v.count /\ r.wire = v.wire /\ r.tx = v.tx
    BY <1>4 DEF Swept
  <2>2. TxEnds(v, r, {}, "error")
    BY <1>0, <2>1 DEF TxEnds, ToldOf, Kept
  <2>3. Hands(c, c, c.hand \ {})
    BY <1>0 DEF Hands
  <2>4. Sound(r, c)
    <3>1. "error" \in Ends \ {"none", "twice"} /\ "error" # "ok"
      BY DEF Ends
    <3>2. {} \in SUBSET c.hand /\ {} \in SUBSET Txs
      OBVIOUS
    <3> DEFINE none == {}
    <3>3. /\ \A a \in none : a.txs # {} /\ a.txs \subseteq none
          /\ \A x \in none : v.tx[x].status # "Completed" /\ ~Carried(v, c, x)
          /\ \A x \in none : c.applied[x] = 1
      OBVIOUS
    <3>4. /\ none \in SUBSET c.hand /\ none \in SUBSET Txs /\ TxEnds(v, r, none, "error")
          /\ Hands(c, c, c.hand \ none)
      BY <2>2, <2>3
    <3> HIDE DEF none
    <3> QED
      BY <1>0, <3>1, <3>3, <3>4, EndSound
  <2>5. Clean(r)
    BY <1>0, <1>3, <2>1 DEF Clean, Clean3
  <2> QED
    BY <2>1, <2>4, <2>5
<1>5. CASE Ready(v)
  <2>1. /\ r.count = i
        /\ DOMAIN r.puts = DOMAIN v.puts \cup {i} /\ i \notin DOMAIN v.puts
        /\ r.puts[i].txs = queue /\ r.puts[i].sent = c.up
        /\ \A j \in DOMAIN v.puts : r.puts[j] = v.puts[j]
        /\ r.wire = IF c.up THEN Append(v.wire, [put |-> i, txs |-> queue]) ELSE v.wire
    BY <1>5 DEF Swept, Sending
  <2>2. /\ \A x \in queue : r.tx[x].status = "Sent"
        /\ \A x \in Txs \ queue : r.tx[x].status = v.tx[x].status
        /\ \A x \in Txs : r.tx[x].order = v.tx[x].order /\ r.tx[x].abort = v.tx[x].abort
    BY <1>2, <1>5 DEF Swept, Sending
  <2>3. /\ queue # {} /\ \A x \in queue : v.tx[x].status = "Run" /\ x \in v.writes
        /\ ~c.purging
    <3>1. queue # {} /\ \A x \in queue : v.tx[x].status = "Run"
      BY <1>5 DEF Ready
    <3>2. \A x \in queue : x \in v.writes
      BY <1>2, <3>1 DEF Sound, TxSound
    <3> QED
      BY <3>1, <3>2 DEF Sound, SetsSound
  <2>4. \A x \in Txs : r.tx[x].status = "Sent" <=> x \in queue
    <3>1. \A x \in Txs : v.tx[x].status = "Sent" => x \in queue
      BY DEF Sound, TxSound, Kept
    <3> QED
      BY <2>2, <3>1
  <2>5. \A x \in queue : ~Carried(v, c, x)
    BY <1>2, <2>3 DEF Sound, TxSound
  <2>6. v.count \in Nat /\ i \in Nat /\ i # 0 /\ DOMAIN v.puts \subseteq 1 .. v.count /\ v.count < i
    BY SoundParts
  <2> HIDE DEF i, queue
  <2>7. /\ Apart(r, c) /\ WireSound(r, c)
        /\ \A x : x \notin queue => (Unseen(r, c, x) <=> Unseen(v, c, x))
        /\ \A j \in Nat : Final(v, c, j) => Final(r, c, j)
        /\ \A x \in Txs : c.applied[x] = 1 => \A k \in DOMAIN r.wire : x \notin r.wire[k].txs
        /\ \A j \in DOMAIN r.puts : \A x \in r.puts[j].txs :
              IF r.puts[j].sent THEN c.up ELSE Unseen(r, c, x)
        /\ \A a \in c.hand : \A x \in a.txs : a.status = "datastale" => Unseen(r, c, x)
    <3>1. \A x \in queue : Unseen(v, c, x)
      BY <1>2, <2>3 DEF Sound, Delivered
    <3>2. Adding(v, r, c, queue)
      BY <2>1 DEF Adding, i
    <3> QED
      BY <1>2, <2>5, <3>1, <3>2, AddSound
  <2>8. SetsSound(r, c)
    <3>0. SetsSound(v, c)
      BY DEF Sound
    <3>1. \A j \in DOMAIN r.puts : r.puts[j].txs = {} => j \in DOMAIN v.puts /\ r.puts[j] = v.puts[j]
      BY <2>1, <2>3
    <3>2. \A j \in DOMAIN v.puts : j \in DOMAIN r.puts /\ r.puts[j] = v.puts[j]
      BY <2>1
    <3>3. \A j \in 1 .. MaxWork : r.told[j] # "none" => j <= r.count
      <4>1. \A j \in 1 .. MaxWork : j \in Nat
        BY RepoAssumption
      <4> QED
        BY <1>0, <2>1, <2>6, <3>0, <4>1 DEF SetsSound
    <3> QED
      BY <1>0, <3>0, <3>1, <3>2, <3>3 DEF SetsSound
  <2>9. \A x \in Txs : Carried(r, c, x) <=> Carried(v, c, x) \/ x \in queue
    BY <2>1 DEF Carried
  <2>10. TxSound(r, c)
    <3>0. TxSound(v, c)
      BY DEF Sound
    <3> SUFFICES ASSUME NEW x \in Txs
                 PROVE  LET t == r.tx[x]
                        IN  /\ Carried(r, c, x) <=> t.status \in {"Sent", "SentNeedsAbort"}
                            /\ t.status \in {"Run", "Sent"} => x \in r.queue /\ x \in r.writes
                            /\ t.status = "SentNeedsAbort" =>
                                   c.purging \/ (x \in r.writes /\ t.abort # "canceled")
                            /\ t.status = "NeedsAbort" /\ x \in r.queue =>
                                   c.purging \/ (x \in r.writes /\ t.abort # "canceled")
                            /\ t.status \in {"none", "Completed"} => x \notin r.writes
                            /\ t.status = "none" => x \notin r.queue
                            /\ r.told[x] # "none" <=> t.status = "Completed"
                            /\ r.told[x] # "twice"
      BY DEF TxSound
    <3>1. CASE x \in queue
      <4>1. v.told[x] = "none"
        BY <2>3, <3>0, <3>1 DEF TxSound
      <4> QED
        BY <1>0, <2>2, <2>3, <2>9, <3>1, <4>1
    <3>2. CASE x \notin queue
      <4>1. x \in v.queue /\ v.tx[x].status # "Completed" => x \in queue
        BY DEF queue, Kept
      <4> QED
        BY <1>0, <1>2, <2>2, <2>9, <3>0, <3>2, <4>1 DEF TxSound
    <3> QED
      BY <3>1, <3>2
  <2>11. SentTogether(r, c)
    <3>1. \A j \in DOMAIN r.puts : \A x \in r.puts[j].txs : x \in queue => r.puts[j].txs = queue
      BY <2>1, <2>5 DEF Carried
    <3>2. \A a \in c.hand : \A x \in a.txs : x \notin queue
      BY <2>5 DEF Carried
    <3>3. \A a \in c.hand : a.txs \subseteq Txs
      BY SoundParts
    <3>4. \A j \in DOMAIN r.puts : r.puts[j].txs \subseteq Txs
      BY <1>2, <2>1, SoundParts
    <3> QED
      BY <2>4, <3>1, <3>2, <3>3, <3>4 DEF SentTogether
  <2>12. SentInFront(r)
    BY <1>0, <1>2, <2>4 DEF SentInFront
  <2>13. OrdersSound(r)
    <3>1. \A x \in Txs : v.tx[x].status # "none" => r.tx[x].status # "none"
      BY <2>2
    <3>2. /\ Cardinality(Started(v)) <= Cardinality(Started(r))
          /\ Cardinality(Started(v)) \in Nat /\ Cardinality(Started(r)) \in Nat
      BY <3>1, MoreStarted
    <3>3. \A x \in Txs : v.tx[x].order \in Nat /\ v.tx[x].order <= Cardinality(Started(v))
      BY <1>1 DEF Sound, OrdersSound, TxType
    <3> SUFFICES ASSUME NEW x \in Txs PROVE r.tx[x].order <= Cardinality(Started(r))
      BY DEF OrdersSound
    <3>4. r.tx[x].order = v.tx[x].order
      BY <2>2
    <3> QED
      BY <3>2, <3>3, <3>4
  <2>15. Delivered(r, c)
    <3>0. Delivered(v, c)
      BY DEF Sound
    <3>1. \A x \in Txs : r.tx[x].status \in {"none", "Run"} => Unseen(r, c, x)
      <4>1. \A x \in Txs : r.tx[x].status \in {"none", "Run"} =>
                x \notin queue /\ v.tx[x].status \in {"none", "Run"}
        BY <2>2
      <4> QED
        BY <2>7, <3>0, <4>1 DEF Delivered
    <3>2. /\ \A j \in 1 .. MaxWork : r.told[j] = "ok" => Final(r, c, j)
          /\ \A a \in c.hand : a.status = "ok" => Final(r, c, a.put)
      <4>1. /\ \A j \in 1 .. MaxWork : j \in Nat
            /\ \A a \in c.hand : a.put \in Nat
        BY RepoAssumption, SoundParts
      <4> QED
        BY <1>0, <2>7, <3>0, <4>1 DEF Delivered
    <3>3. \A x \in Txs : c.applied[x] \in {0, 1} /\ (r.told[x] = "ok" => c.applied[x] = 1)
      BY <1>0, <3>0 DEF Delivered
    <3>4. \A a \in c.hand : \A x \in a.txs : a.status = "ok" => c.applied[x] = 1
      BY <3>0 DEF Delivered
    <3> QED
      BY <2>7, <3>1, <3>2, <3>3, <3>4 DEF Delivered
  <2>16. Clean(r)
    BY <1>0, <2>2 DEF Clean
  <2> QED
    BY <1>0, <2>3, <2>7, <2>8, <2>10, <2>11, <2>12, <2>13, <2>15, <2>16 DEF Sound
<1> QED
  BY <1>4, <1>5

\* Sending what is ready leaves the held answers and raises nothing.
LEMMA SweepShape ==
    ASSUME NEW v, Shape(v), NEW r, NEW up, Swept(v, r, up)
    PROVE  Shape(r) /\ r.held = v.held /\ r.count >= v.count /\ r.raised = v.raised
<1>1. v.count \in Nat
  BY DEF Shape
<1>2. r.count \in {v.count, v.count + 1}
  BY DEF Swept, Sending
<1> QED
  BY <1>1, <1>2 DEF Swept

\* A rerun leaves the held answers.
LEMMA RerunShape ==
    ASSUME NEW v, Shape(v), NEW goOn, NEW up \in BOOLEAN
    PROVE  LET r == RerunTransactions(v, goOn, up)
           IN  /\ Shape(r) /\ r.held = v.held /\ r.count >= v.count
               /\ r.raised = IF OldWrites(v) \subseteq v.writes THEN v.raised ELSE "ack"
<1> DEFINE e == RerunEnds(v, goOn)
           r == SendAllReady(e, up)
<1>1. Reran(v, e, goOn) /\ RerunTransactions(v, goOn, up) = r
  BY RerunIs
<1> HIDE DEF e
<1>2. Shape(e) /\ e.held = v.held /\ e.count = v.count
      /\ e.raised = IF OldWrites(v) \subseteq v.writes THEN v.raised ELSE "ack"
  BY <1>1 DEF Reran
<1>3. Swept(e, r, up)
  BY <1>2, SweepIs
<1> HIDE DEF r
<1>4. Shape(r) /\ r.held = e.held /\ r.count >= e.count /\ r.raised = e.raised
  BY <1>2, <1>3, SweepShape
<1> QED
  BY <1>1, <1>2, <1>4

\* Rerunning keeps the writes sound, and raises only when a purge has dropped one
\* that it acks.
LEMMA RerunSound ==
    ASSUME NEW v, NEW c, Sound(v, c), NEW goOn, OldWrites(v) \subseteq v.writes
    PROVE  LET r == RerunTransactions(v, goOn, c.up)
           IN  Sound(r, c) /\ Clean(r) /\ (c.purging => r.puts = v.puts)
<1> DEFINE e == RerunEnds(v, goOn)
           r == SendAllReady(e, c.up)
           xs == Finished(v, goOn)
<1>0. Shape(v) /\ c \in Contexts /\ c.up \in BOOLEAN
  BY SoundParts DEF Sound
<1>1. Reran(v, e, goOn) /\ RerunTransactions(v, goOn, c.up) = r
  BY <1>0, RerunIs
<1> HIDE DEF e
<1>2. Shape(e)
  BY <1>1 DEF Reran
<1>3. \A x \in xs : x \in v.queue /\ x \in Txs /\ v.tx[x].status \in {"NeedsAbort", "Run"}
  BY SoundParts DEF Finished, ToAbort, GiveUp, ToRun
<1>4. e.writes = v.writes \ xs
  <2>1. e.writes = (v.writes \ OldWrites(v)) \cup (ToRun(v) \ xs)
    BY <1>1 DEF Reran
  <2>2. ToRun(v) \subseteq OldWrites(v)
    BY DEF OldWrites
  <2>3. \A x \in OldWrites(v) : x \in xs \/ x \in ToRun(v)
    BY DEF OldWrites, Finished
  <2>4. \A x \in v.writes : x \in xs => x \in OldWrites(v)
    <3> SUFFICES ASSUME NEW x \in v.writes, x \in xs PROVE x \in OldWrites(v)
      OBVIOUS
    <3>1. CASE x \in ToAbort(v)
      <4>1. x \in Txs /\ x \in v.queue /\ v.tx[x].status = "NeedsAbort"
        BY <1>3, <3>1 DEF ToAbort
      <4>2. v.tx[x].abort # "canceled"
        BY <4>1 DEF Sound, TxSound, SetsSound
      <4> QED
        BY <3>1, <4>2 DEF OldWrites
    <3>2. CASE x \in GiveUp(v, goOn)
      BY <3>2 DEF GiveUp, OldWrites
    <3> QED
      BY <3>1, <3>2 DEF Finished
  <2> HIDE DEF xs
  <2> QED
    BY <2>1, <2>2, <2>3, <2>4
<1>5. Sound(e, c)
  <2> DEFINE none == {}
  <2>1. TxEnds(v, e, xs, "error")
    BY <1>1, <1>4 DEF Reran, TxEnds
  <2>2. Hands(c, c, c.hand \ none) /\ none \in SUBSET c.hand
    BY <1>0 DEF Hands
  <2>3. "error" \in Ends \ {"none", "twice"} /\ "error" # "ok"
    BY DEF Ends
  <2>4. \A x \in xs : v.tx[x].status # "Completed" /\ ~Carried(v, c, x)
    BY <1>3 DEF Sound, TxSound
  <2>5. xs \in SUBSET Txs
    BY <1>3
  <2>6. \A a \in none : a.txs # {} /\ a.txs \subseteq xs
    OBVIOUS
  <2> HIDE DEF none, xs
  <2> QED
    BY <1>2, <2>1, <2>2, <2>3, <2>4, <2>5, <2>6, EndSound
<1>6. \A x \in e.queue : e.tx[x].status # "NeedsAbort"
  <2>1. e.queue = v.queue /\ v.queue \subseteq Txs /\ \A x \in Txs : v.tx[x] \in TxType
    BY <1>1, SoundParts DEF Reran
  <2>2. \A x \in v.queue : v.tx[x].status = "NeedsAbort" => x \in xs
    BY DEF Finished, ToAbort
  <2>3. \A x \in Txs : e.tx[x] = IF x \in xs THEN [v.tx[x] EXCEPT !.status = "Completed"]
                                 ELSE v.tx[x]
    BY <1>1 DEF Reran
  <2>4. \A x \in Txs : x \in xs => e.tx[x].status = "Completed"
    BY <2>1, <2>3 DEF TxType
  <2> QED
    BY <2>1, <2>2, <2>3, <2>4
<1>7. Swept(e, r, c.up)
  BY <1>0, <1>2, SweepIs
<1> HIDE DEF r
<1>8. Sound(r, c) /\ Clean(r) /\ (c.purging => r.puts = e.puts)
  BY <1>5, <1>6, <1>7, SendSound
<1> QED
  BY <1>1, <1>8 DEF Reran

\* A rerun acks only writes that FWriteTree has.
LEMMA NoneLost ==
    ASSUME NEW v, NEW c, Sound(v, c),
           c.purging => \A x \in v.queue : v.tx[x].status = "NeedsAbort" => v.tx[x].abort = "canceled"
    PROVE  OldWrites(v) \subseteq v.writes
<1>1. v.queue \subseteq Txs
  BY SoundParts
<1>2. \A x \in ToRun(v) : x \in v.writes
  BY <1>1 DEF Sound, TxSound, ToRun
<1>3. \A x \in ToAbort(v) : v.tx[x].abort # "canceled" => x \in v.writes
  BY <1>1 DEF Sound, TxSound, ToAbort
<1> QED
  BY <1>2, <1>3 DEF OldWrites

-----------------------------------------------------------------------------
(* The callback of a put. *)

Marked(v, txs, status) ==
    [v EXCEPT !.tx = [x \in Txs |-> IF x \in txs THEN AfterAnswer(v.tx[x], status) ELSE v.tx[x]]]

\* What an answer that is no success changes.
LEMMA MarkIs ==
    ASSUME NEW v, Shape(v), NEW txs, NEW status \in Statuses \ {"ok"}
    PROVE  LET r == Marked(v, txs, status)
           IN  /\ Shape(r)
               /\ r.puts = v.puts /\ r.count = v.count /\ r.wire = v.wire /\ r.held = v.held
               /\ r.queue = v.queue /\ r.told = v.told /\ r.writes = v.writes
               /\ r.raised = v.raised
               /\ \A x \in Txs : r.tx[x] = IF x \in txs THEN AfterAnswer(v.tx[x], status)
                                           ELSE v.tx[x]
<1> DEFINE tx == [x \in Txs |-> IF x \in txs THEN AfterAnswer(v.tx[x], status) ELSE v.tx[x]]
           r == Marked(v, txs, status)
<1>1. v = [f \in WriteFields |-> v[f]] /\ v.tx \in [Txs -> TxType]
  BY DEF Shape
<1>2. \A x \in Txs : AfterAnswer(v.tx[x], status) \in TxType
  BY <1>1, ZenonT(40) DEF AfterAnswer, TxType
<1>3. /\ tx \in [Txs -> TxType]
      /\ \A x \in Txs : tx[x] = IF x \in txs THEN AfterAnswer(v.tx[x], status) ELSE v.tx[x]
  BY <1>1, <1>2
<1>4. r = [v EXCEPT !.tx = tx]
  BY DEF Marked
<1> HIDE DEF tx, r
<1>5. /\ r = [f \in WriteFields |-> r[f]]
      /\ r.puts = v.puts /\ r.count = v.count /\ r.wire = v.wire /\ r.held = v.held
      /\ r.queue = v.queue /\ r.told = v.told /\ r.writes = v.writes
      /\ r.raised = v.raised /\ r.tx = tx
  BY <1>1, <1>4 DEF WriteFields
<1>6. Shape(r)
  BY <1>3, <1>5 DEF Shape
<1> QED
  BY <1>3, <1>5, <1>6 DEF r

\* The stages of a callback.
Committed(v, txs) == End(Ack(v, txs), txs, "ok")
SetAcked(v, i, status) == CallOnComplete(Ack(v, {i}), {i}, status)

\* A callback, as the stages its proof goes through.
LEMMA CallbackStages ==
    ASSUME NEW v, NEW a, NEW goOn, NEW events, NEW up
    PROVE  Callback(v, a, goOn, events, up) =
               IF a.txs = {}
                 THEN IF a.status = "canceled" THEN CallOnComplete(v, {a.put}, a.status)
                      ELSE IF events
                        THEN RerunTransactions(SetAcked(v, a.put, a.status), goOn, up)
                      ELSE SetAcked(v, a.put, a.status)
               ELSE IF a.status = "ok"
                      THEN RerunTransactions(SendAllReady(Committed(v, a.txs), up), goOn, up)
                    ELSE RerunTransactions(Marked(v, a.txs, a.status), goOn, up)
BY DEF Callback, SetCallback, TxCallback, SetAcked, Committed, Marked, AfterAnswer

\* What the answer to a set changes.
LEMMA SetAckedIs ==
    ASSUME NEW v, Shape(v), NEW i, NEW status \in Ends
    PROVE  LET r == SetAcked(v, i, status)
           IN  /\ Shape(r)
               /\ r.puts = v.puts /\ r.count = v.count /\ r.wire = v.wire /\ r.held = v.held
               /\ r.queue = v.queue /\ r.tx = v.tx /\ r.writes = v.writes \ {i}
               /\ r.raised = IF i \in v.writes THEN v.raised ELSE "ack"
               /\ ToldOf(v, r, {i}, status)
<1> DEFINE u == Ack(v, {i})
           r == CallOnComplete(u, {i}, status)
<1>1. Acked(v, u, {i})
  BY AckIs
<1> HIDE DEF u
<1>2. Called(u, r, {i}, status)
  BY <1>1, CallIs DEF Acked
<1> HIDE DEF r
<1>3. ToldOf(v, r, {i}, status)
  BY <1>1, <1>2 DEF Called, Acked, ToldOf
<1>4. SetAcked(v, i, status) = r
  BY DEF SetAcked, r, u
<1> QED
  BY <1>1, <1>2, <1>3, <1>4 DEF Called, Acked

\* What the success of transactions changes.
LEMMA CommittedIs ==
    ASSUME NEW v, Shape(v), NEW txs
    PROVE  LET r == Committed(v, txs)
           IN  /\ Shape(r)
               /\ r.puts = v.puts /\ r.count = v.count /\ r.wire = v.wire /\ r.held = v.held
               /\ r.queue = v.queue /\ r.writes = v.writes \ txs
               /\ r.raised = IF txs \subseteq v.writes THEN v.raised ELSE "ack"
               /\ \A x \in Txs : r.tx[x] = IF x \in txs THEN [v.tx[x] EXCEPT !.status = "Completed"]
                                           ELSE v.tx[x]
               /\ ToldOf(v, r, txs, "ok")
<1> DEFINE u == Ack(v, txs)
           r == End(u, txs, "ok")
<1>1. Acked(v, u, txs)
  BY AckIs
<1> HIDE DEF u
<1>2. TxDone(u, r, txs, "ok")
  BY <1>1, EndIs DEF Acked, Ends, Statuses
<1> HIDE DEF r
<1>3. ToldOf(v, r, txs, "ok")
  BY <1>1, <1>2 DEF TxDone, Acked, ToldOf
<1>4. Committed(v, txs) = r
  BY DEF Committed, r, u
<1>5. \A x \in Txs : r.tx[x] = IF x \in txs THEN [v.tx[x] EXCEPT !.status = "Completed"]
                               ELSE v.tx[x]
  BY <1>1, <1>2 DEF TxDone, Acked
<1> QED
  BY <1>1, <1>2, <1>3, <1>4, <1>5 DEF TxDone, Acked

\* A callback leaves the held answers, whatever it finds.
LEMMA CallbackShape ==
    ASSUME NEW v, Shape(v), NEW a \in Answer, NEW goOn, NEW events, NEW up \in BOOLEAN
    PROVE  LET r == Callback(v, a, goOn, events, up)
           IN  /\ Shape(r) /\ r.held = v.held /\ r.count >= v.count
               /\ r.raised \in {v.raised, "ack"}
<1> DEFINE Fine(r) == /\ Shape(r) /\ r.held = v.held /\ r.count >= v.count
                      /\ r.raised \in {v.raised, "ack"}
           r == Callback(v, a, goOn, events, up)
<1>0. a.status \in Statuses /\ a.status \in Ends /\ v.count \in Nat
  BY DEF Answer, Ends, Shape
<1>1. ASSUME NEW u, Fine(u) PROVE Fine(RerunTransactions(u, goOn, up))
  <2> DEFINE q == RerunTransactions(u, goOn, up)
  <2>1. Shape(u) /\ u.held = v.held /\ u.count >= v.count /\ u.raised \in {v.raised, "ack"}
    BY <1>1
  <2>2. /\ Shape(q) /\ q.held = u.held /\ q.count >= u.count
        /\ q.raised = IF OldWrites(u) \subseteq u.writes THEN u.raised ELSE "ack"
    BY <2>1, RerunShape
  <2> HIDE DEF q
  <2>3. u.count \in Nat /\ q.count \in Nat
    BY <2>1, <2>2 DEF Shape
  <2>4. q.count >= v.count
    BY <1>0, <2>1, <2>2, <2>3
  <2> QED
    BY <2>1, <2>2, <2>4 DEF q
<1>2. CASE a.txs = {} /\ a.status = "canceled"
  <2>1. Called(v, CallOnComplete(v, {a.put}, a.status), {a.put}, a.status)
    BY <1>0, CallIs
  <2>2. r = CallOnComplete(v, {a.put}, a.status)
    BY <1>2, CallbackStages
  <2> HIDE DEF r
  <2>3. Fine(r)
    BY <1>0, <2>1, <2>2 DEF Called
  <2> QED
    BY <2>3 DEF r
<1>3. CASE a.txs = {} /\ a.status # "canceled"
  <2> DEFINE u == SetAcked(v, a.put, a.status)
  <2>4. /\ Shape(u)
        /\ u.puts = v.puts /\ u.count = v.count /\ u.wire = v.wire /\ u.held = v.held
        /\ u.queue = v.queue /\ u.tx = v.tx /\ u.writes = v.writes \ {a.put}
        /\ u.raised = IF a.put \in v.writes THEN v.raised ELSE "ack"
        /\ ToldOf(v, u, {a.put}, a.status)
    BY <1>0, SetAckedIs
  <2>0. Shape(u) /\ u.held = v.held /\ u.count = v.count /\ u.raised \in {v.raised, "ack"}
    <3> HIDE DEF u
    <3> QED
      BY <2>4
  <2>1. Fine(u)
    <3> HIDE DEF u
    <3> QED
      BY <1>0, <2>0
  <2>2. r \in {SetAcked(v, a.put, a.status), RerunTransactions(SetAcked(v, a.put, a.status), goOn, up)}
    BY <1>3, CallbackStages
  <2> HIDE DEF Fine, r
  <2>3. Fine(r)
    BY <1>1, <2>1, <2>2
  <2> QED
    BY <2>3 DEF Fine, r
<1>4. CASE a.txs # {} /\ a.status = "ok"
  <2> DEFINE u == Committed(v, a.txs)
             s == SendAllReady(u, up)
  <2>1. /\ Shape(u) /\ u.count = v.count /\ u.held = v.held
        /\ u.raised = IF a.txs \subseteq v.writes THEN v.raised ELSE "ack"
    BY CommittedIs
  <2> HIDE DEF u
  <2>2. Swept(u, s, up)
    BY <2>1, SweepIs
  <2> HIDE DEF s
  <2>3. Fine(s)
    BY <2>1, <2>2, SweepShape
  <2>4. r = RerunTransactions(s, goOn, up)
    BY <1>4, CallbackStages DEF u, s
  <2> HIDE DEF Fine, r
  <2>5. Fine(r)
    BY <1>1, <2>3, <2>4
  <2> QED
    BY <2>5 DEF Fine, r
<1>5. CASE a.txs # {} /\ a.status # "ok"
  <2>1. Fine(Marked(v, a.txs, a.status))
    BY <1>0, <1>5, MarkIs
  <2>2. r = RerunTransactions(Marked(v, a.txs, a.status), goOn, up)
    BY <1>5, CallbackStages
  <2> HIDE DEF Fine, r
  <2>3. Fine(r)
    BY <1>1, <2>1, <2>2
  <2> QED
    BY <2>3 DEF Fine, r
<1> QED
  BY <1>2, <1>3, <1>4, <1>5

\* A callback may raise in a purge, but not for a put that the purge cancels.
Answered(v, c, a, d, r) ==
    /\ r.raised = "no" => Sound(r, d) /\ Clean(r) /\ (c.purging => r.puts = v.puts)
    /\ ~c.purging \/ a.status = "canceled" => r.raised = "no"

\* The callback of an answer that was to come keeps the writes sound.
LEMMA CallbackSound ==
    ASSUME NEW v, NEW c, Sound(v, c), Clean(v), v.raised = "no",
           NEW a \in c.hand, NEW d, Hands(c, d, c.hand \ {a}), NEW goOn, NEW events
    PROVE  Answered(v, c, a, d, Callback(v, a, goOn, events, c.up))
<1> DEFINE r == Callback(v, a, goOn, events, c.up)
<1>0. /\ Shape(v) /\ c \in Contexts /\ c.up \in BOOLEAN /\ c.purging \in BOOLEAN
      /\ a \in Answer /\ a.status \in Statuses /\ a.status \in Ends /\ a.txs \subseteq Txs
      /\ d.up = c.up /\ d.purging = c.purging /\ v.queue \subseteq Txs
  BY SoundParts DEF Sound, Hands, Ends
<1>1. \A x \in v.queue : v.tx[x].status # "NeedsAbort"
  BY DEF Clean
<1>2. CASE a.txs = {} /\ a.status = "canceled"
  <2>1. Called(v, CallOnComplete(v, {a.put}, a.status), {a.put}, a.status)
    BY <1>0, CallIs
  <2>2. r = CallOnComplete(v, {a.put}, a.status)
    BY <1>2, CallbackStages
  <2> HIDE DEF r, Answered
  <2>3. Called(v, r, {a.put}, a.status)
    BY <2>1, <2>2
  <2>4. v.writes = {}
    BY <1>2 DEF Sound, SetsSound
  <2>5. r.writes = v.writes \ {a.put}
    BY <2>3, <2>4 DEF Called
  <2>6. Sound(r, d)
    BY <1>2, <2>3, <2>5, SetSound DEF Called
  <2>7. Clean(r) /\ r.puts = v.puts /\ r.raised = "no"
    BY <2>3 DEF Called, Clean
  <2> QED
    BY <2>6, <2>7 DEF r, Answered
<1>3. CASE a.txs = {} /\ a.status # "canceled"
  <2> DEFINE u == SetAcked(v, a.put, a.status)
             q == RerunTransactions(u, goOn, c.up)
  <2>1. /\ Shape(u)
        /\ u.puts = v.puts /\ u.count = v.count /\ u.wire = v.wire /\ u.held = v.held
        /\ u.queue = v.queue /\ u.tx = v.tx /\ u.writes = v.writes \ {a.put}
        /\ u.raised = IF a.put \in v.writes THEN v.raised ELSE "ack"
        /\ ToldOf(v, u, {a.put}, a.status)
    BY <1>0, SetAckedIs
  <2>2. r = IF events THEN q ELSE u
    BY <1>3, CallbackStages
  <2> HIDE DEF u
  <2>3. Sound(u, d)
    BY <1>3, <2>1, SetSound
  <2>4. Clean(u)
    BY <2>1 DEF Clean
  <2>5. ~c.purging => u.raised = "no"
    BY <1>3, <2>1 DEF Sound, SetsSound
  <2>6. OldWrites(u) \subseteq u.writes
    BY <2>3, <2>4, NoneLost DEF Clean
  <2>7. Sound(q, d) /\ Clean(q) /\ (d.purging => q.puts = u.puts)
    BY <1>0, <2>3, <2>6, RerunSound
  <2>8. q.raised = u.raised
    BY <1>0, <2>1, <2>6, RerunShape
  <2> HIDE DEF q, r
  <2>9. Sound(r, d) /\ Clean(r) /\ (c.purging => r.puts = v.puts) /\ r.raised = u.raised
    BY <1>0, <2>1, <2>2, <2>3, <2>4, <2>7, <2>8
  <2> QED
    BY <1>3, <2>5, <2>9 DEF r, Answered
<1>4. CASE a.txs # {} /\ a.status = "ok"
  <2> DEFINE u == Committed(v, a.txs)
             s == SendAllReady(u, c.up)
             q == RerunTransactions(s, goOn, c.up)
  <2>1. /\ Shape(u)
        /\ u.puts = v.puts /\ u.count = v.count /\ u.wire = v.wire /\ u.held = v.held
        /\ u.queue = v.queue /\ u.writes = v.writes \ a.txs
        /\ u.raised = IF a.txs \subseteq v.writes THEN v.raised ELSE "ack"
        /\ \A x \in Txs : u.tx[x] = IF x \in a.txs THEN [v.tx[x] EXCEPT !.status = "Completed"]
                                    ELSE v.tx[x]
        /\ ToldOf(v, u, a.txs, "ok")
    BY <1>0, CommittedIs
  <2>2. r = q
    BY <1>4, CallbackStages
  <2> HIDE DEF u
  <2>3. Sound(u, d)
    <3> DEFINE A == {a}
    <3>1. A \in SUBSET c.hand /\ Hands(c, d, c.hand \ A) /\ \A b \in A : b.txs # {} /\ b.txs \subseteq a.txs
      BY <1>4
    <3>2. TxEnds(v, u, a.txs, "ok")
      BY <2>1 DEF TxEnds
    <3>3. "ok" \in Ends \ {"none", "twice"}
      BY DEF Ends, Statuses
    <3>4. \A x \in a.txs : v.tx[x].status # "Completed" /\ ~Carried(v, d, x)
      <4> SUFFICES ASSUME NEW x \in a.txs
                   PROVE  v.tx[x].status # "Completed" /\ ~Carried(v, d, x)
        OBVIOUS
      <4>1. Carried(v, c, x) /\ x \in Txs
        BY <1>0 DEF Carried
      <4>2. v.tx[x].status \in {"Sent", "SentNeedsAbort"}
        BY <4>1 DEF Sound, TxSound
      <4>3. d.hand = c.hand \ {a}
        BY DEF Hands
      <4>4. ~Carried(v, d, x)
        BY <4>3 DEF Sound, Apart, Carried
      <4> QED
        BY <4>2, <4>4
    <3>5. \A x \in a.txs : c.applied[x] = 1
      BY <1>4 DEF Sound, Delivered
    <3>6. Shape(u) /\ a.txs \in SUBSET Txs
      BY <1>0, <2>1
    <3> HIDE DEF A
    <3> QED
      BY <3>1, <3>2, <3>3, <3>4, <3>5, <3>6, EndSound
  <2>4. \A x \in u.queue : u.tx[x].status # "NeedsAbort"
    <3>1. \A x \in Txs : v.tx[x] \in TxType
      BY SoundParts
    <3>2. \A x \in a.txs : u.tx[x].status = "Completed"
      BY <1>0, <2>1, <3>1 DEF TxType
    <3> QED
      BY <1>0, <1>1, <2>1, <3>2
  <2>5. Swept(u, s, c.up)
    BY <1>0, <2>1, SweepIs
  <2> HIDE DEF s
  <2>6. Sound(s, d) /\ Clean(s) /\ (c.purging => s.puts = v.puts) /\ s.raised = u.raised
    <3>1. Swept(u, s, d.up)
      BY <1>0, <2>5
    <3>2. Sound(s, d) /\ Clean(s) /\ (d.purging => s.puts = u.puts)
      BY <2>3, <2>4, <3>1, SendSound
    <3> QED
      BY <1>0, <2>1, <2>5, <3>2 DEF Swept
  <2>7. OldWrites(s) \subseteq s.writes
    BY <2>6, NoneLost DEF Clean
  <2>8. Sound(q, d) /\ Clean(q) /\ (d.purging => q.puts = s.puts)
    BY <1>0, <2>6, <2>7, RerunSound
  <2>9. q.raised = s.raised
    <3>1. Shape(s)
      BY <2>6 DEF Sound
    <3> QED
      BY <1>0, <2>7, <3>1, RerunShape
  <2>10. ~c.purging => u.raised = "no"
    <3>1. ~c.purging => \A x \in a.txs : x \in v.writes
      <4>1. \A x \in a.txs : Carried(v, c, x) /\ x \in Txs
        BY <1>0 DEF Carried
      <4> QED
        BY <4>1 DEF Sound, TxSound
    <3> QED
      BY <2>1, <3>1
  <2> HIDE DEF q, r
  <2> QED
    BY <1>0, <1>4, <2>2, <2>6, <2>8, <2>9, <2>10 DEF r, Answered
<1>5. CASE a.txs # {} /\ a.status # "ok"
  <2> DEFINE u == Marked(v, a.txs, a.status)
             q == RerunTransactions(u, goOn, c.up)
  <2>1. /\ Shape(u)
        /\ u.puts = v.puts /\ u.count = v.count /\ u.wire = v.wire /\ u.held = v.held
        /\ u.queue = v.queue /\ u.told = v.told /\ u.writes = v.writes
        /\ u.raised = v.raised
        /\ \A x \in Txs : u.tx[x] = IF x \in a.txs THEN AfterAnswer(v.tx[x], a.status)
                                    ELSE v.tx[x]
    BY <1>0, <1>5, MarkIs
  <2>2. r = q
    BY <1>5, CallbackStages
  <2> HIDE DEF u
  <2>3. Sound(u, d)
    BY <1>5, <2>1, MarkSound
  <2>4. a.status = "canceled" =>
            \A x \in u.queue : u.tx[x].status = "NeedsAbort" => u.tx[x].abort = "canceled"
    <3>1. \A x \in Txs : v.tx[x] \in TxType
      BY SoundParts
    <3> SUFFICES ASSUME a.status = "canceled", NEW x \in u.queue, u.tx[x].status = "NeedsAbort"
                 PROVE  u.tx[x].abort = "canceled"
      OBVIOUS
    <3>2. x \in Txs /\ x \in a.txs
      BY <1>0, <1>1, <2>1
    <3> QED
      BY <2>1, <3>1, <3>2 DEF AfterAnswer, TxType
  <2>5. ~c.purging \/ a.status = "canceled" => OldWrites(u) \subseteq u.writes
    BY <1>0, <2>3, <2>4, NoneLost
  <2>6. OldWrites(u) \subseteq u.writes => Sound(q, d) /\ Clean(q) /\ (d.purging => q.puts = u.puts)
    BY <1>0, <2>3, RerunSound
  <2>7. q.raised = IF OldWrites(u) \subseteq u.writes THEN "no" ELSE "ack"
    BY <1>0, <2>1, RerunShape
  <2> HIDE DEF q, r
  <2> QED
    BY <1>0, <2>1, <2>2, <2>5, <2>6, <2>7 DEF r, Answered
<1> QED
  BY <1>2, <1>3, <1>4, <1>5

-----------------------------------------------------------------------------
(* One callback after the other. *)

\* A nonempty set of numbers has a least one.
LEMMA LeastNumber ==
    ASSUME NEW S, S \subseteq Nat, S # {}
    PROVE  \E x \in S : \A y \in S : x <= y
<1>1. \E x \in S : \A y \in S : ~(<<y, x>> \in OpToRel(<, Nat))
  <2> DEFINE R == OpToRel(<, Nat)
  <2>1. IsWellFoundedOn(R, Nat) BY NatLessThanWellFounded
  <2> HIDE DEF R
  <2>2. \E x \in S : \A y \in S : ~(<<y, x>> \in R) BY <2>1, WFMin
  <2> QED BY <2>2 DEF R
<1>2. PICK x \in S : \A y \in S : ~(<<y, x>> \in OpToRel(<, Nat)) BY <1>1
<1>3. ASSUME NEW y \in S PROVE x <= y
  <2>1. x \in Nat /\ y \in Nat OBVIOUS
  <2>2. ~(y < x)
    <3>1. y < x => <<y, x>> \in OpToRel(<, Nat) BY <2>1 DEF OpToRel
    <3> QED BY <1>2, <3>1
  <2> QED BY <2>1, <2>2
<1> QED BY <1>3

\* A set of numbers that has 0, and the successor of each of its members, has all.
LEMMA Induction ==
    ASSUME NEW S, 0 \in S, \A n \in Nat : n \in S => n + 1 \in S
    PROVE  Nat \subseteq S
<1> SUFFICES ASSUME Nat \ S # {} PROVE FALSE OBVIOUS
<1>1. PICK x \in Nat \ S : \A y \in Nat \ S : x <= y
  <2> DEFINE T == Nat \ S
  <2>1. T \subseteq Nat /\ T # {} OBVIOUS
  <2> HIDE DEF T
  <2>2. \E x \in T : \A y \in T : x <= y BY <2>1, LeastNumber
  <2> QED BY <2>2 DEF T
<1>2. x \in Nat /\ x \notin S /\ x # 0 OBVIOUS
<1>3. x - 1 \in Nat /\ (x - 1) + 1 = x /\ ~(x <= x - 1) BY <1>2
<1>4. x - 1 \in S BY <1>1, <1>3
<1> QED BY <1>2, <1>3, <1>4

Calls(f, v, answers, goOn, events, up, m) ==
    f = [n \in 0 .. m |-> IF n = 0 THEN v ELSE Callback(f[n - 1], answers[n], goOn, events, up)]

\* The states between any number of callbacks: the definition by recursion is one.
LEMMA CallsExist ==
    ASSUME NEW v, NEW answers, NEW goOn, NEW events, NEW up, NEW m \in Nat
    PROVE  \E f : Calls(f, v, answers, goOn, events, up, m)
<1> DEFINE S == {n \in Nat : \E f : Calls(f, v, answers, goOn, events, up, n)}
           Next1(u, n) == Callback(u, answers[n], goOn, events, up)
<1>0. ASSUME NEW f, NEW n
      PROVE  Calls(f, v, answers, goOn, events, up, n)
                 <=> f = [k \in 0 .. n |-> IF k = 0 THEN v ELSE Next1(f[k - 1], k)]
  BY DEF Calls
<1> HIDE DEF Next1
<1>1. 0 \in S
  <2> DEFINE g == [e \in 0 .. 0 |-> v]
             h == [k \in 0 .. 0 |-> IF k = 0 THEN v ELSE Next1(g[k - 1], k)]
  <2>1. g = h
    <3>1. \A e \in 0 .. 0 : e = 0
      OBVIOUS
    <3> QED
      BY <3>1
  <2> HIDE DEF g
  <2>2. Calls(g, v, answers, goOn, events, up, 0)
    BY <1>0, <2>1
  <2> QED
    BY <2>2
<1>2. ASSUME NEW n \in Nat, n \in S PROVE n + 1 \in S
  <2>1. PICK f : Calls(f, v, answers, goOn, events, up, n)
    BY <1>2
  <2> DEFINE g == [e \in 0 .. n + 1 |-> IF e = n + 1 THEN Next1(f[n], n + 1) ELSE f[e]]
             h == [e \in 0 .. n + 1 |-> IF e = 0 THEN v ELSE Next1(g[e - 1], e)]
  <2>2. ASSUME NEW e \in 0 .. n + 1 PROVE g[e] = h[e]
    <3>1. CASE e = n + 1
      <4>1. n \in 0 .. n + 1 /\ n # n + 1 /\ (n + 1) - 1 = n /\ n + 1 # 0
        OBVIOUS
      <4> QED
        BY <3>1, <4>1
    <3>2. CASE e # n + 1
      <4>1. e \in 0 .. n
        BY <3>2
      <4>2. f[e] = IF e = 0 THEN v ELSE Next1(f[e - 1], e)
        <5> DEFINE body(i) == IF i = 0 THEN v ELSE Next1(f[i - 1], i)
        <5>1. f = [i \in 0 .. n |-> body(i)]
          BY <1>0, <2>1
        <5> HIDE DEF body
        <5>2. f[e] = body(e)
          BY <4>1, <5>1
        <5> QED
          BY <5>2 DEF body
      <4>3. e # 0 => e - 1 \in 0 .. n + 1 /\ e - 1 # n + 1
        BY <4>1
      <4> QED
        BY <3>2, <4>2, <4>3
    <3> QED
      BY <3>1, <3>2
  <2>3. g = h
    <3>1. DOMAIN g = DOMAIN h
      OBVIOUS
    <3> HIDE DEF h
    <3>2. h = [e \in 0 .. n + 1 |-> h[e]]
      BY DEF h
    <3>3. g = [e \in 0 .. n + 1 |-> g[e]]
      OBVIOUS
    <3> HIDE DEF g
    <3> QED
      BY <2>2, <3>2, <3>3
  <2>4. Calls(g, v, answers, goOn, events, up, n + 1)
    <3> HIDE DEF g
    <3> QED
      BY <1>0, <2>3
  <2> HIDE DEF g
  <2> QED
    BY <2>4
<1> HIDE DEF S
<1>3. m \in S
  BY <1>1, <1>2, Induction
<1> QED
  BY <1>3 DEF S

\* The writes after each of the answers.
Chain(f, v, answers, goOn, events, up) ==
    /\ f[0] = v /\ f[Len(answers)] = Callbacks(v, answers, goOn, events, up)
    /\ \A n \in 1 .. Len(answers) :
           f[n] = Callback(f[n - 1], answers[n], goOn, events, up)

\* The states between the callbacks of a sequence of answers.
LEMMA CallbacksAre ==
    ASSUME NEW v, NEW answers, NEW goOn, NEW events, NEW up, Len(answers) \in Nat
    PROVE  \E f : Chain(f, v, answers, goOn, events, up)
<1> DEFINE m == Len(answers)
           f == CHOOSE g : Calls(g, v, answers, goOn, events, up, m)
<1>1. Calls(f, v, answers, goOn, events, up, m)
  BY CallsExist
<1>2. Callbacks(v, answers, goOn, events, up) = f[m]
  BY DEF Callbacks, Calls
<1> HIDE DEF f
<1> DEFINE body(n) == IF n = 0 THEN v ELSE Callback(f[n - 1], answers[n], goOn, events, up)
<1>3. f = [n \in 0 .. m |-> body(n)]
  BY <1>1 DEF Calls
<1>4. \A n \in 0 .. m : f[n] = body(n)
  <2> HIDE DEF body
  <2> QED
    BY <1>3
<1>5. f[0] = v
  BY <1>4
<1>6. \A n \in 1 .. m : f[n] = Callback(f[n - 1], answers[n], goOn, events, up)
  <2> SUFFICES ASSUME NEW n \in 1 .. m
               PROVE  f[n] = Callback(f[n - 1], answers[n], goOn, events, up)
    OBVIOUS
  <2>1. n \in 0 .. m /\ n # 0
    OBVIOUS
  <2>2. f[n] = body(n)
    BY <1>4, <2>1
  <2> QED
    BY <2>1, <2>2
<1> QED
  BY <1>2, <1>5, <1>6 DEF Chain

\* What callbacks never touch.
Follows(v, r) ==
    Shape(r) /\ r.held = v.held /\ r.count >= v.count /\ r.raised \in {v.raised, "ack"}

\* What follows what follows.
LEMMA FollowsTwice ==
    ASSUME NEW v, Shape(v), NEW u, Follows(v, u), NEW r, Follows(u, r)
    PROVE  Follows(v, r)
<1>1. v.count \in Nat /\ u.count \in Nat /\ r.count \in Nat
  BY DEF Follows, Shape
<1> QED
  BY <1>1 DEF Follows

\* What no callback has touched.
LEMMA FollowsSelf == ASSUME NEW v, Shape(v) PROVE Follows(v, v)
<1>1. v.count \in Nat
  BY DEF Shape
<1> QED
  BY <1>1 DEF Follows

\* A sequence of callbacks leaves the held answers, whatever they find.
LEMMA CallbacksShape ==
    ASSUME NEW v, Shape(v), NEW answers \in Seq(Answer), NEW goOn, NEW events,
           NEW up \in BOOLEAN
    PROVE  Follows(v, Callbacks(v, answers, goOn, events, up))
<1> DEFINE m == Len(answers)
<1>1. m \in Nat /\ \A n \in 1 .. m : answers[n] \in Answer
  OBVIOUS
<1>0. PICK f : Chain(f, v, answers, goOn, events, up)
  BY <1>1, CallbacksAre
<1>2. /\ f[0] = v /\ f[m] = Callbacks(v, answers, goOn, events, up)
      /\ \A n \in 1 .. m : f[n] = Callback(f[n - 1], answers[n], goOn, events, up)
  BY <1>0 DEF Chain
<1> HIDE DEF m
<1> DEFINE S == {n \in Nat : n <= m => Follows(v, f[n])}
<1>3. 0 \in S
  BY <1>2, FollowsSelf
<1>4. ASSUME NEW n \in Nat, n \in S PROVE n + 1 \in S
  <2> SUFFICES ASSUME n + 1 <= m PROVE Follows(v, f[n + 1])
    OBVIOUS
  <2>1. n + 1 \in 1 .. m /\ (n + 1) - 1 = n /\ n <= m
    BY <1>1
  <2>2. Follows(v, f[n]) /\ answers[n + 1] \in Answer
    BY <1>1, <1>4, <2>1
  <2>3. f[n + 1] = Callback(f[n], answers[n + 1], goOn, events, up)
    BY <1>2, <2>1
  <2>4. Follows(f[n], f[n + 1])
    <3>1. Shape(f[n])
      BY <2>2 DEF Follows
    <3> DEFINE r == Callback(f[n], answers[n + 1], goOn, events, up)
    <3>2. /\ Shape(r) /\ r.held = f[n].held /\ r.count >= f[n].count
          /\ r.raised \in {f[n].raised, "ack"}
      BY <2>2, <3>1, CallbackShape
    <3> HIDE DEF r
    <3>3. f[n + 1] = r
      BY <2>3 DEF r
    <3> QED
      BY <3>2, <3>3 DEF Follows
  <2> QED
    BY <2>2, <2>4, FollowsTwice
<1> HIDE DEF S
<1>5. m \in S
  BY <1>1, <1>3, <1>4, Induction
<1> QED
  BY <1>1, <1>2, <1>5 DEF S

AllAnswered(v, c, answers, d, r) ==
    /\ Follows(v, r)
    /\ r.raised = "no" => Sound(r, d) /\ Clean(r) /\ (c.purging => r.puts = v.puts)
    /\ (\A k \in DOMAIN answers : ~c.purging \/ answers[k].status = "canceled") => r.raised = "no"

\* The callbacks of answers that were to come keep the writes sound.
LEMMA CallbacksSound ==
    ASSUME NEW v, NEW c, Sound(v, c), Clean(v), v.raised = "no",
           NEW answers \in Seq(Answer), \A k \in DOMAIN answers : answers[k] \in c.hand,
           \A j, k \in DOMAIN answers : j # k => answers[j] # answers[k],
           NEW d, Hands(c, d, c.hand \ {answers[k] : k \in DOMAIN answers}),
           NEW goOn, NEW events
    PROVE  AllAnswered(v, c, answers, d, Callbacks(v, answers, goOn, events, c.up))
<1> DEFINE m == Len(answers)
<1>1. /\ m \in Nat /\ DOMAIN answers = 1 .. m /\ \A n \in 1 .. m : answers[n] \in Answer
      /\ c.up \in BOOLEAN /\ c \in Contexts /\ c.hand \subseteq Answer /\ Shape(v)
  BY SoundParts DEF Sound
<1>0. PICK f : Chain(f, v, answers, goOn, events, c.up)
  BY <1>1, CallbacksAre
<1>2. /\ f[0] = v /\ f[m] = Callbacks(v, answers, goOn, events, c.up)
      /\ \A n \in 1 .. m : f[n] = Callback(f[n - 1], answers[n], goOn, events, c.up)
  BY <1>0 DEF Chain
<1> HIDE DEF m
<1> DEFINE Easy == \A k \in DOMAIN answers : ~c.purging \/ answers[k].status = "canceled"
           H(n) == c.hand \ {answers[k] : k \in 1 .. n}
           D(n) == [c EXCEPT !.hand = H(n)]
           Good(n) == /\ Follows(v, f[n])
                      /\ f[n].raised = "no" =>
                             Sound(f[n], D(n)) /\ Clean(f[n]) /\ (c.purging => f[n].puts = v.puts)
                      /\ Easy => f[n].raised = "no"
           S == {n \in Nat : n <= m => Good(n)}
<1>3. \A n : Hands(c, D(n), H(n))
  <2> TAKE n
  <2>1. H(n) \in SUBSET Answer
    BY <1>1
  <2> HIDE DEF H
  <2> QED
    BY <1>1, <2>1, HandsIs
<1>4. 0 \in S
  <2>1. H(0) = c.hand
    OBVIOUS
  <2>2. D(0) = c
    <3>1. c = [hand |-> c.hand, up |-> c.up, purging |-> c.purging, last |-> c.last,
               applied |-> c.applied]
      BY <1>1 DEF Contexts
    <3> HIDE DEF H
    <3> QED
      BY <2>1, <3>1
  <2>3. Follows(v, v)
    BY <1>1, FollowsSelf
  <2> HIDE DEF D
  <2> QED
    BY <1>2, <2>2, <2>3
<1>5. ASSUME NEW n \in Nat, n \in S PROVE n + 1 \in S
  <2> DEFINE a == answers[n + 1]
             u == f[n]
             r == Callback(u, a, goOn, events, c.up)
  <2> SUFFICES ASSUME n + 1 <= m PROVE Good(n + 1)
    OBVIOUS
  <2>1. n + 1 \in 1 .. m /\ (n + 1) - 1 = n /\ n <= m
    BY <1>1
  <2>2. Good(n) /\ a \in Answer /\ f[n + 1] = r
    BY <1>1, <1>2, <1>5, <2>1
  <2>3. Follows(v, u)
    BY <2>2
  <2>4. Follows(u, r)
    <3>1. Shape(u)
      BY <2>3 DEF Follows
    <3> HIDE DEF u, a
    <3>2. /\ Shape(r) /\ r.held = u.held /\ r.count >= u.count
          /\ r.raised \in {u.raised, "ack"}
      BY <1>1, <2>2, <3>1, CallbackShape
    <3> HIDE DEF r
    <3> QED
      BY <3>2 DEF Follows
  <2>5. Follows(v, r)
    BY <1>1, <2>3, <2>4, FollowsTwice
  <2>6. CASE u.raised = "no"
    <3>1. Sound(u, D(n)) /\ Clean(u) /\ (c.purging => u.puts = v.puts)
      BY <2>2, <2>6
    <3>2. /\ D(n).hand = H(n) /\ D(n).up = c.up /\ D(n).purging = c.purging
      <4> HIDE DEF D, H
      <4> QED
        BY <1>3 DEF Hands
    <3>3. a \in H(n)
      <4>1. \A k \in 1 .. n : k \in 1 .. m /\ k # n + 1
        BY <1>1, <2>1
      <4>2. a \in c.hand /\ \A k \in 1 .. n : answers[k] # a
        BY <1>1, <2>1, <4>1
      <4> QED
        BY <4>2
    <3>4. H(n + 1) = H(n) \ {a}
      <4>1. \A k : k \in 1 .. n + 1 <=> k \in 1 .. n \/ k = n + 1
        OBVIOUS
      <4> QED
        BY <4>1
    <3>5. Hands(D(n), D(n + 1), D(n).hand \ {a})
      <4> HIDE DEF D, H, a
      <4> QED
        BY <1>3, <3>2, <3>4 DEF Hands
    <3> HIDE DEF D, H, u, a
    <3>8. Answered(u, D(n), a, D(n + 1), Callback(u, a, goOn, events, D(n).up))
      <4>1. a \in D(n).hand /\ Sound(u, D(n)) /\ Clean(u) /\ u.raised = "no"
        BY <2>6, <3>1, <3>2, <3>3
      <4> QED
        BY <3>5, <4>1, CallbackSound
    <3>6. /\ r.raised = "no" =>
                 Sound(r, D(n + 1)) /\ Clean(r) /\ (D(n).purging => r.puts = u.puts)
          /\ ~D(n).purging \/ a.status = "canceled" => r.raised = "no"
      BY <3>2, <3>8 DEF Answered
    <3> HIDE DEF r
    <3>7. Easy => ~c.purging \/ a.status = "canceled"
      BY <1>1, <2>1 DEF a
    <3> HIDE DEF Easy
    <3> QED
      BY <2>2, <2>5, <3>1, <3>2, <3>6, <3>7
  <2>7. CASE u.raised # "no"
    <3>1. ~Easy
      BY <2>2, <2>7
    <3>2. r.raised # "no"
      <4> HIDE DEF r, u
      <4> QED
        BY <2>4, <2>7 DEF Follows
    <3> HIDE DEF r, Easy, D
    <3> QED
      BY <2>2, <2>5, <3>1, <3>2
  <2> QED
    BY <2>6, <2>7
<1> HIDE DEF S
<1>6. m \in S
  BY <1>1, <1>4, <1>5, Induction
<1>7. Good(m)
  BY <1>1, <1>6 DEF S
<1>8. D(m) = d
  <2>1. H(m) = c.hand \ {answers[k] : k \in DOMAIN answers}
    BY <1>1
  <2>2. Hands(c, D(m), d.hand) /\ d.hand = H(m)
    <3> HIDE DEF D, H
    <3> QED
      BY <1>3, <2>1 DEF Hands
  <2> HIDE DEF D, H
  <2>3. D(m) \in Contexts /\ d \in Contexts
    BY <2>2 DEF Hands
  <2>4. /\ D(m).hand = d.hand /\ D(m).up = d.up /\ D(m).purging = d.purging
        /\ D(m).last = d.last /\ D(m).applied = d.applied
    BY <2>2 DEF Hands
  <2>5. \A e \in Contexts : e = [hand |-> e.hand, up |-> e.up, purging |-> e.purging,
                                 last |-> e.last, applied |-> e.applied]
    BY DEF Contexts
  <2> QED
    BY <2>3, <2>4, <2>5
<1> HIDE DEF D, Easy
<1> QED
  BY <1>2, <1>7, <1>8 DEF Easy, AllAnswered

-----------------------------------------------------------------------------
(* abortTransactionsAtNode:, of a set and of a purge. *)

SentNow(v) == {x \in v.queue : v.tx[x].status = "Sent"}
EndedNow(v) == {x \in v.queue : v.tx[x].status \notin {"Sent", "SentNeedsAbort"}}

Aborting(v, r, error) ==
    /\ r.puts = v.puts /\ r.count = v.count /\ r.wire = v.wire
    /\ r.queue = {x \in v.queue : Cardinality(UpTo(v, x)) <= Cardinality(SentNow(v))}
    /\ \A x \in Txs : /\ r.tx[x].order = v.tx[x].order
                      /\ r.tx[x].status = IF x \in EndedNow(v) THEN "Completed"
                                          ELSE IF x \in SentNow(v) THEN "SentNeedsAbort"
                                          ELSE v.tx[x].status
                      /\ r.tx[x].abort = IF x \in SentNow(v) THEN error ELSE v.tx[x].abort
    /\ ToldOf(v, r, EndedNow(v), "error")

Aborts(v, r, error) ==
    /\ Shape(r) /\ r.held = v.held /\ Aborting(v, r, error)
    /\ r.writes = IF error = "canceled" THEN v.writes ELSE v.writes \ EndedNow(v)
    /\ r.raised = IF error = "canceled" \/ EndedNow(v) \subseteq v.writes THEN v.raised ELSE "ack"

\* What abortTransactionsAtNode changes.
LEMMA AbortIs ==
    ASSUME NEW v, Shape(v), NEW error \in {"set", "canceled"}
    PROVE  Aborts(v, AbortTransactions(v, error), error)
<1> DEFINE sent == SentNow(v)
           ended == EndedNow(v)
           tx == [x \in Txs |->
                     IF x \in sent THEN [v.tx[x] EXCEPT !.status = "SentNeedsAbort", !.abort = error]
                     ELSE v.tx[x]]
           queue == {x \in v.queue : Cardinality(UpTo(v, x)) <= Cardinality(sent)}
           marked == [v EXCEPT !.tx = tx, !.queue = {x \in @ : Cardinality(UpTo(v, x)) <= Cardinality(sent)}]
           acked == IF error = "canceled" THEN marked ELSE Ack(marked, ended)
           r == End(acked, ended, "error")
<1>0. AbortTransactions(v, error) = r
  BY DEF AbortTransactions, SentNow, EndedNow
<1>1. v = [f \in WriteFields |-> v[f]] /\ v.tx \in [Txs -> TxType] /\ v.queue \subseteq Txs
  BY DEF Shape
<1>2. queue \subseteq Txs
  BY <1>1
<1>3. \A x \in Txs : v.tx[x] \in TxType
  BY <1>1
<1>4. sent \cap ended = {}
  BY DEF SentNow, EndedNow
<1> HIDE DEF sent, ended
<1>5. \A x \in Txs : [v.tx[x] EXCEPT !.status = "SentNeedsAbort", !.abort = error] \in TxType
  BY <1>3 DEF TxType, Statuses
<1>6. /\ tx \in [Txs -> TxType]
      /\ \A x \in Txs : /\ tx[x].order = v.tx[x].order
                        /\ tx[x].status = IF x \in sent THEN "SentNeedsAbort" ELSE v.tx[x].status
                        /\ tx[x].abort = IF x \in sent THEN error ELSE v.tx[x].abort
  <2>1. tx \in [Txs -> TxType]
    BY <1>3, <1>5
  <2>2. \A x \in Txs : tx[x] = IF x \in sent
                                 THEN [v.tx[x] EXCEPT !.status = "SentNeedsAbort", !.abort = error]
                               ELSE v.tx[x]
    OBVIOUS
  <2> HIDE DEF tx
  <2> QED
    BY <1>3, <2>1, <2>2 DEF TxType
<1>7. marked = [v EXCEPT !.tx = tx, !.queue = queue]
  BY <1>1 DEF WriteFields
<1> HIDE DEF tx, queue, marked
<1>8. /\ marked = [f \in WriteFields |-> marked[f]]
      /\ marked.puts = v.puts /\ marked.count = v.count /\ marked.wire = v.wire
      /\ marked.held = v.held /\ marked.told = v.told /\ marked.writes = v.writes
      /\ marked.raised = v.raised /\ marked.tx = tx /\ marked.queue = queue
  BY <1>1, <1>7 DEF WriteFields
<1>9. Shape(marked)
  BY <1>2, <1>6, <1>8 DEF Shape
<1>10. /\ Shape(acked)
       /\ acked.puts = v.puts /\ acked.count = v.count /\ acked.wire = v.wire
       /\ acked.held = v.held /\ acked.told = v.told /\ acked.tx = tx /\ acked.queue = queue
       /\ acked.writes = IF error = "canceled" THEN v.writes ELSE v.writes \ ended
       /\ acked.raised = IF error = "canceled" \/ ended \subseteq v.writes THEN v.raised ELSE "ack"
  <2>1. Acked(marked, Ack(marked, ended), ended)
    BY <1>9, AckIs
  <2> QED
    BY <1>8, <1>9, <2>1 DEF Acked
<1> HIDE DEF acked
<1>11. TxDone(acked, r, ended, "error")
  BY <1>10, EndIs DEF Ends
<1> HIDE DEF r
<1>12. ToldOf(v, r, ended, "error")
  BY <1>10, <1>11 DEF TxDone, ToldOf
<1>13. \A x \in Txs : /\ r.tx[x].order = v.tx[x].order
                      /\ r.tx[x].status = IF x \in ended THEN "Completed"
                                          ELSE IF x \in sent THEN "SentNeedsAbort"
                                          ELSE v.tx[x].status
                      /\ r.tx[x].abort = IF x \in sent THEN error ELSE v.tx[x].abort
  <2>1. \A x \in Txs : r.tx[x] = IF x \in ended THEN [tx[x] EXCEPT !.status = "Completed"]
                                 ELSE tx[x]
    BY <1>10, <1>11 DEF TxDone
  <2>2. \A x \in Txs : tx[x] \in TxType
    BY <1>6
  <2> QED
    BY <1>6, <2>1, <2>2, ZenonT(40) DEF TxType
<1>14. Aborting(v, r, error)
  BY <1>10, <1>11, <1>12, <1>13 DEF TxDone, Aborting, sent, ended, queue
<1>15. Aborts(v, r, error)
  BY <1>10, <1>11, <1>14 DEF TxDone, Aborts, ended
<1> QED
  BY <1>0, <1>15

\* It keeps the writes sound, those that a purge has emptied too.
LEMMA AbortSound ==
    ASSUME NEW v, NEW c, Sound(v, c), Clean(v), ~c.purging, NEW error \in {"set", "canceled"},
           NEW r, Shape(r), Aborting(v, r, error),
           r.writes = IF error = "canceled" THEN {} ELSE v.writes \ EndedNow(v),
           NEW d \in Contexts, d.hand = c.hand, d.up = c.up, d.purging = (error = "canceled"),
           d.last = c.last, d.applied = c.applied
    PROVE  Sound(r, d)
<1> DEFINE sent == SentNow(v)
           ended == EndedNow(v)
<1>0. /\ r.puts = v.puts /\ r.count = v.count /\ r.wire = v.wire
      /\ \A x \in r.queue : x \in v.queue
  BY DEF Aborting
<1>1. \A x \in Txs : x \in ended <=> v.tx[x].status = "Run"
  <2>1. \A x \in ended : v.tx[x].status = "Run"
    BY DEF Clean, EndedNow
  <2>2. \A x \in Txs : v.tx[x].status = "Run" => x \in v.queue
    BY DEF Sound, TxSound
  <2> QED
    BY <2>1, <2>2 DEF EndedNow
<1>2. \A x \in Txs : x \in sent <=> v.tx[x].status = "Sent"
  BY DEF Sound, TxSound, SentNow
<1>3. /\ ended \subseteq Txs /\ \A x \in ended : x \notin Nat
      /\ \A i \in 1 .. MaxWork : i \in Nat
  BY SoundParts, RepoAssumption DEF EndedNow
<1> HIDE DEF sent, ended
<1>4. \A x \in Txs : /\ r.tx[x].order = v.tx[x].order
                     /\ r.tx[x].status = IF v.tx[x].status = "Run" THEN "Completed"
                                         ELSE IF v.tx[x].status = "Sent" THEN "SentNeedsAbort"
                                         ELSE v.tx[x].status
                     /\ r.tx[x].abort = IF v.tx[x].status = "Sent" THEN error ELSE v.tx[x].abort
  BY <1>1, <1>2 DEF Aborting, sent, ended
<1>5. /\ \A i \in 1 .. MaxWork : r.told[i] = v.told[i]
      /\ \A x \in Txs : IF v.tx[x].status = "Run"
                          THEN v.told[x] = "none" => r.told[x] = "error"
                        ELSE r.told[x] = v.told[x]
  <2>1. ToldOf(v, r, ended, "error")
    BY DEF Aborting, ended
  <2> QED
    BY <1>1, <1>3, <2>1 DEF ToldOf
<1>6. /\ \A i \in Nat : i \in r.writes <=> i \in v.writes /\ ~d.purging
      /\ \A x \in Txs : x \in r.writes <=> x \in v.writes /\ ~d.purging /\ v.tx[x].status # "Run"
      /\ d.purging => r.writes = {}
  BY <1>1, <1>3 DEF ended
<1>7. Apart(r, d)
  BY <1>0 DEF Sound, Apart
<1>8. SetsSound(r, d)
  <2>0. SetsSound(v, c)
    BY DEF Sound
  <2>1. \A i \in DOMAIN r.puts : r.puts[i].txs = {} =>
            i \in 1 .. MaxWork /\ r.told[i] = "none" /\ (i \in r.writes \/ d.purging)
    BY <1>0, <1>3, <1>5, <1>6, <2>0 DEF SetsSound
  <2>2. \A a \in d.hand : a.txs = {} =>
           a.put \in 1 .. MaxWork /\ r.told[a.put] = "none" /\ (a.put \in r.writes \/ d.purging)
    BY <1>3, <1>5, <1>6, <2>0 DEF SetsSound
  <2>3. \A i \in r.writes \cap Nat :
           \/ i \in DOMAIN r.puts /\ r.puts[i].txs = {}
           \/ \E a \in d.hand : a.put = i /\ a.txs = {}
    BY <1>0, <1>6, <2>0 DEF SetsSound
  <2>4. \A i \in 1 .. MaxWork : r.told[i] # "twice" /\ (r.told[i] # "none" => i <= r.count)
    BY <1>0, <1>5, <2>0 DEF SetsSound
  <2>5. \A a \in d.hand : a.status = "canceled" => d.purging
    BY <2>0 DEF SetsSound
  <2> QED
    BY <1>6, <2>1, <2>2, <2>3, <2>4, <2>5 DEF SetsSound
<1>9. \A x \in Txs : Carried(r, d, x) <=> Carried(v, c, x)
  BY <1>0 DEF Carried
<1>10. TxSound(r, d)
  <2>0. TxSound(v, c)
    BY DEF Sound
  <2> SUFFICES ASSUME NEW x \in Txs
               PROVE  LET t == r.tx[x]
                      IN  /\ Carried(r, d, x) <=> t.status \in {"Sent", "SentNeedsAbort"}
                          /\ t.status \in {"Run", "Sent"} => x \in r.queue /\ x \in r.writes
                          /\ t.status = "SentNeedsAbort" =>
                                 d.purging \/ (x \in r.writes /\ t.abort # "canceled")
                          /\ t.status = "NeedsAbort" /\ x \in r.queue =>
                                 d.purging \/ (x \in r.writes /\ t.abort # "canceled")
                          /\ t.status \in {"none", "Completed"} => x \notin r.writes
                          /\ t.status = "none" => x \notin r.queue
                          /\ r.told[x] # "none" <=> t.status = "Completed"
                          /\ r.told[x] # "twice"
    BY DEF TxSound
  <2>1. CASE v.tx[x].status = "Run"
    <3>1. v.told[x] = "none" /\ ~Carried(v, c, x)
      BY <2>0, <2>1 DEF TxSound
    <3> QED
      BY <1>4, <1>5, <1>6, <1>9, <2>1, <3>1
  <2>2. CASE v.tx[x].status = "Sent"
    <3>1. v.told[x] = "none" /\ Carried(v, c, x) /\ x \in v.writes
      BY <2>0, <2>2 DEF TxSound
    <3>2. ~d.purging => error # "canceled"
      OBVIOUS
    <3> QED
      BY <1>4, <1>5, <1>6, <1>9, <2>2, <3>1, <3>2
  <2>3. CASE v.tx[x].status \notin {"Run", "Sent"}
    <3>1. /\ r.tx[x].status = v.tx[x].status /\ r.tx[x].abort = v.tx[x].abort
          /\ r.told[x] = v.told[x] /\ (x \in r.writes <=> x \in v.writes /\ ~d.purging)
      BY <1>4, <1>5, <1>6, <2>3
    <3> QED
      BY <1>0, <1>9, <2>0, <2>3, <3>1 DEF TxSound
  <2> QED
    BY <2>1, <2>2, <2>3
<1>11. \A x \in Txs : r.tx[x].status # "Sent" /\ r.tx[x].status # "Run"
  BY <1>4
<1>12. SentTogether(r, d)
  BY <1>11 DEF SentTogether
<1>13. SentInFront(r)
  <2>1. r.queue \subseteq Txs
    BY <1>0, SoundParts
  <2> QED
    BY <1>11, <2>1 DEF SentInFront
<1>14. OrdersSound(r)
  <2>1. Started(r) = Started(v)
    BY <1>4 DEF Started
  <2> QED
    BY <1>4, <2>1 DEF Sound, OrdersSound
<1>15. WireSound(r, d)
  BY <1>0 DEF Sound, WireSound
<1>16. Delivered(r, d)
  <2>0. Delivered(v, c)
    BY DEF Sound
  <2>1. \A x : Unseen(r, d, x) <=> Unseen(v, c, x)
    BY <1>0 DEF Unseen
  <2>2. \A i : Final(r, d, i) <=> Final(v, c, i)
    BY <1>0 DEF Final
  <2>3. \A x \in Txs : /\ r.tx[x].status \in {"none", "Run"} => v.tx[x].status = "none"
                       /\ r.told[x] = "ok" => v.told[x] = "ok"
    <3>1. \A x \in Txs : v.tx[x].status = "Run" => v.told[x] = "none"
      BY DEF Sound, TxSound
    <3> QED
      BY <1>4, <1>5, <3>1
  <2>4. \A x \in Txs :
           /\ d.applied[x] \in {0, 1}
           /\ d.applied[x] = 1 => \A k \in DOMAIN r.wire : x \notin r.wire[k].txs
           /\ r.tx[x].status \in {"none", "Run"} => Unseen(r, d, x)
           /\ r.told[x] = "ok" => d.applied[x] = 1
    BY <1>0, <2>0, <2>1, <2>3 DEF Delivered
  <2>5. \A i \in 1 .. MaxWork : r.told[i] = "ok" => Final(r, d, i)
    BY <1>5, <2>0, <2>2 DEF Delivered
  <2> QED
    BY <1>0, <2>0, <2>1, <2>2, <2>4, <2>5 DEF Delivered
<1> QED
  BY <1>7, <1>8, <1>10, <1>12, <1>13, <1>14, <1>15, <1>16 DEF Sound

\* A purge leaves none in the queue that ended: as many stay as are sent, and
\* those are in front.
LEMMA AbortClean ==
    ASSUME NEW v, NEW c, Sound(v, c), Clean(v), NEW r, Shape(r), Aborting(v, r, "canceled")
    PROVE  Clean(r)
<1> SUFFICES ASSUME NEW x \in r.queue PROVE r.tx[x].status \in {"Run", "Sent", "SentNeedsAbort"}
  BY DEF Clean
<1> DEFINE sent == SentNow(v)
<1>1. /\ x \in v.queue /\ x \in Txs /\ v.queue \subseteq Txs
      /\ Cardinality(UpTo(v, x)) <= Cardinality(sent)
  BY SoundParts DEF Aborting
<1>2. CASE v.tx[x].status = "Run"
  <2>1. \A y \in sent : y \in UpTo(v, x)
    <3> SUFFICES ASSUME NEW y \in sent PROVE y \in UpTo(v, x)
      OBVIOUS
    <3>1. y \in v.queue /\ v.tx[y].status = "Sent" /\ y \in Txs
      BY <1>1 DEF SentNow
    <3>2. ~(v.tx[x].order <= v.tx[y].order)
      BY <1>1, <1>2, <3>1 DEF Sound, SentInFront
    <3>3. v.tx[x].order \in Nat /\ v.tx[y].order \in Nat
      BY <1>1, <3>1, SoundParts DEF TxType
    <3> QED
      BY <3>1, <3>2, <3>3 DEF UpTo
  <2>2. x \in UpTo(v, x) /\ x \notin sent
    <3>1. v.tx[x].order \in Nat
      BY <1>1, SoundParts DEF TxType
    <3> QED
      BY <1>1, <1>2, <3>1 DEF UpTo, SentNow
  <2>3. IsFiniteSet(UpTo(v, x)) /\ IsFiniteSet(sent)
    <3>1. UpTo(v, x) \subseteq Txs /\ sent \subseteq Txs
      BY <1>1 DEF UpTo, SentNow
    <3> QED
      BY <3>1, RepoAssumption, FS_Subset
  <2> HIDE DEF sent
  <2>4. Cardinality(sent \cup {x}) = Cardinality(sent) + 1
    BY <2>2, <2>3, FS_AddElement
  <2>5. Cardinality(sent \cup {x}) <= Cardinality(UpTo(v, x))
    <3>1. sent \cup {x} \subseteq UpTo(v, x)
      BY <2>1, <2>2
    <3> QED
      BY <2>3, <3>1, FS_Subset
  <2>6. Cardinality(sent) \in Nat /\ Cardinality(UpTo(v, x)) \in Nat
    BY <2>3, FS_CardinalityType
  <2> QED
    BY <1>1, <2>4, <2>5, <2>6
<1>3. CASE v.tx[x].status \in {"Sent", "SentNeedsAbort"}
  BY <1>1, <1>3 DEF Aborting, SentNow, EndedNow
<1> QED
  BY <1>1, <1>2, <1>3 DEF Clean

-----------------------------------------------------------------------------
(* Puts get their answers. *)

\* The puts of S are gone, and N are their answers.
Moved(v, r, c, d, S, N) ==
    /\ r.count = v.count /\ r.writes = v.writes /\ r.queue = v.queue
    /\ r.tx = v.tx /\ r.told = v.told
    /\ DOMAIN r.puts = DOMAIN v.puts \ S
    /\ \A i \in DOMAIN r.puts : r.puts[i].txs = v.puts[i].txs
    /\ d.hand = c.hand \cup N /\ d.purging = c.purging
    /\ \A a \in N : /\ a.put \in S /\ a.txs = v.puts[a.put].txs
                    /\ a.status = "canceled" => c.purging
    /\ \A a, b \in N : a # b => a.put # b.put
    /\ \A i \in S : \E a \in N : a.put = i

\* Puts may become answers to come, as far as no status is concerned.
LEMMA MoveSound ==
    ASSUME NEW v, NEW c, Sound(v, c), NEW r, NEW d,
           NEW S \in SUBSET DOMAIN v.puts, NEW N, Moved(v, r, c, d, S, N)
    PROVE  /\ Apart(r, d) /\ SetsSound(r, d) /\ TxSound(r, d)
           /\ SentTogether(r, d) /\ SentInFront(r) /\ OrdersSound(r)
<1>1. /\ r.count = v.count /\ r.writes = v.writes /\ r.queue = v.queue
      /\ r.tx = v.tx /\ r.told = v.told /\ d.purging = c.purging
      /\ \A i \in DOMAIN r.puts : i \in DOMAIN v.puts /\ i \notin S /\ r.puts[i].txs = v.puts[i].txs
      /\ \A i \in DOMAIN v.puts : i \in S \/ i \in DOMAIN r.puts
  BY DEF Moved
<1>2. \A a \in N : /\ a.put \in S /\ a.put \in DOMAIN v.puts /\ a.txs = v.puts[a.put].txs
                   /\ a.status = "canceled" => c.purging
  BY DEF Moved
<1>3. /\ \A a, b \in N : a # b => a.put # b.put
      /\ \A i \in S : \E a \in N : a.put = i
  BY DEF Moved
<1>4. /\ \A a \in d.hand : a \in c.hand \/ a \in N
      /\ \A a \in c.hand : a \in d.hand
      /\ \A a \in N : a \in d.hand
  BY DEF Moved
<1>5. Apart(r, d)
  <2>0. Apart(v, c)
    BY DEF Sound
  <2>1. \A i, j \in DOMAIN r.puts : i # j => r.puts[i].txs \cap r.puts[j].txs = {}
    BY <1>1, <2>0 DEF Apart
  <2>2. \A a \in N : /\ a.put \in 1 .. v.count /\ a.put \notin DOMAIN r.puts
                     /\ \A b \in c.hand : a.put # b.put /\ a.txs \cap b.txs = {}
    <3>1. DOMAIN v.puts \subseteq 1 .. v.count
      BY SoundParts
    <3> QED
      BY <1>1, <1>2, <2>0, <3>1 DEF Apart
  <2>3. \A a, b \in d.hand : a # b => a.put # b.put /\ a.txs \cap b.txs = {}
    <3> SUFFICES ASSUME NEW a \in d.hand, NEW b \in d.hand, a # b
                 PROVE  a.put # b.put /\ a.txs \cap b.txs = {}
      OBVIOUS
    <3>1. CASE a \in c.hand /\ b \in c.hand
      BY <2>0, <3>1 DEF Apart
    <3>2. CASE a \in N /\ b \in N
      BY <1>2, <1>3, <2>0, <3>2 DEF Apart
    <3>3. CASE a \in N /\ b \in c.hand
      BY <2>2, <3>3
    <3>4. CASE a \in c.hand /\ b \in N
      BY <2>2, <3>4
    <3> QED
      BY <1>4, <3>1, <3>2, <3>3, <3>4
  <2>4. \A a \in d.hand : a.put \in 1 .. r.count /\ a.put \notin DOMAIN r.puts
    BY <1>1, <1>4, <2>0, <2>2 DEF Apart
  <2>5. \A a \in d.hand, i \in DOMAIN r.puts : a.txs \cap r.puts[i].txs = {}
    <3> SUFFICES ASSUME NEW a \in d.hand, NEW i \in DOMAIN r.puts
                 PROVE  a.txs \cap r.puts[i].txs = {}
      OBVIOUS
    <3>1. CASE a \in c.hand
      BY <1>1, <2>0, <3>1 DEF Apart
    <3>2. CASE a \in N
      BY <1>1, <1>2, <2>0, <3>2 DEF Apart
    <3> QED
      BY <1>4, <3>1, <3>2
  <2> QED
    BY <2>1, <2>3, <2>4, <2>5 DEF Apart
<1>6. SetsSound(r, d)
  <2>0. SetsSound(v, c)
    BY DEF Sound
  <2>1. \A i \in DOMAIN r.puts : r.puts[i].txs = {} =>
            i \in 1 .. MaxWork /\ r.told[i] = "none" /\ (i \in r.writes \/ d.purging)
    BY <1>1, <2>0 DEF SetsSound
  <2>2. \A a \in d.hand : a.txs = {} =>
           a.put \in 1 .. MaxWork /\ r.told[a.put] = "none" /\ (a.put \in r.writes \/ d.purging)
    <3> SUFFICES ASSUME NEW a \in d.hand, a.txs = {}
                 PROVE  /\ a.put \in 1 .. MaxWork /\ r.told[a.put] = "none"
                        /\ a.put \in r.writes \/ d.purging
      OBVIOUS
    <3>1. CASE a \in c.hand
      BY <1>1, <2>0, <3>1 DEF SetsSound
    <3>2. CASE a \in N
      BY <1>1, <1>2, <2>0, <3>2 DEF SetsSound
    <3> QED
      BY <1>4, <3>1, <3>2
  <2>3. \A i \in r.writes \cap Nat :
           \/ i \in DOMAIN r.puts /\ r.puts[i].txs = {}
           \/ \E a \in d.hand : a.put = i /\ a.txs = {}
    <3> SUFFICES ASSUME NEW i \in r.writes \cap Nat
                 PROVE  \/ i \in DOMAIN r.puts /\ r.puts[i].txs = {}
                        \/ \E a \in d.hand : a.put = i /\ a.txs = {}
      OBVIOUS
    <3>1. CASE i \in DOMAIN v.puts /\ v.puts[i].txs = {}
      <4>1. CASE i \in S
        <5>1. PICK a \in N : a.put = i
          BY <1>3, <4>1
        <5> QED
          BY <1>2, <1>4, <3>1, <5>1
      <4>2. CASE i \notin S
        BY <1>1, <3>1, <4>2
      <4> QED
        BY <4>1, <4>2
    <3>2. CASE \E a \in c.hand : a.put = i /\ a.txs = {}
      BY <1>4, <3>2
    <3> QED
      BY <1>1, <2>0, <3>1, <3>2 DEF SetsSound
  <2>4. /\ \A i \in 1 .. MaxWork : r.told[i] # "twice" /\ (r.told[i] # "none" => i <= r.count)
        /\ d.purging => r.writes = {}
    BY <1>1, <2>0 DEF SetsSound
  <2>5. \A a \in d.hand : a.status = "canceled" => d.purging
    BY <1>1, <1>2, <1>4, <2>0 DEF SetsSound
  <2> QED
    BY <2>1, <2>2, <2>3, <2>4, <2>5 DEF SetsSound
<1>7. \A x : Carried(r, d, x) <=> Carried(v, c, x)
  <2> SUFFICES ASSUME NEW x PROVE Carried(r, d, x) <=> Carried(v, c, x)
    OBVIOUS
  <2>1. Carried(r, d, x) => Carried(v, c, x)
    BY <1>1, <1>2, <1>4 DEF Carried
  <2>2. ASSUME NEW i \in DOMAIN v.puts, x \in v.puts[i].txs PROVE Carried(r, d, x)
    <3>1. CASE i \in S
      <4>1. PICK a \in N : a.put = i
        BY <1>3, <3>1
      <4> QED
        BY <1>2, <1>4, <2>2, <4>1 DEF Carried
    <3>2. CASE i \notin S
      BY <1>1, <2>2, <3>2 DEF Carried
    <3> QED
      BY <3>1, <3>2
  <2>3. ASSUME NEW a \in c.hand, x \in a.txs PROVE Carried(r, d, x)
    BY <1>4, <2>3 DEF Carried
  <2> QED
    BY <2>1, <2>2, <2>3 DEF Carried
<1>8. TxSound(r, d)
  <2>0. TxSound(v, c)
    BY DEF Sound
  <2> QED
    BY <1>1, <1>7, <2>0 DEF TxSound
<1>9. SentTogether(r, d)
  <2>0. SentTogether(v, c)
    BY DEF Sound
  <2>1. \A i \in DOMAIN r.puts : \A x \in r.puts[i].txs : \A y \in Txs :
           r.tx[x].status = "Sent" /\ r.tx[y].status = "Sent" => y \in r.puts[i].txs
    BY <1>1, <2>0 DEF SentTogether
  <2>2. \A a \in d.hand : \A x \in a.txs : \A y \in Txs :
           r.tx[x].status = "Sent" /\ r.tx[y].status = "Sent" => y \in a.txs
    <3> SUFFICES ASSUME NEW a \in d.hand, NEW x \in a.txs, NEW y \in Txs,
                        r.tx[x].status = "Sent", r.tx[y].status = "Sent"
                 PROVE  y \in a.txs
      OBVIOUS
    <3>1. CASE a \in c.hand
      BY <1>1, <2>0, <3>1 DEF SentTogether
    <3>2. CASE a \in N
      BY <1>1, <1>2, <2>0, <3>2 DEF SentTogether
    <3> QED
      BY <1>4, <3>1, <3>2
  <2> QED
    BY <2>1, <2>2 DEF SentTogether
<1>10. SentInFront(r)
  BY <1>1 DEF Sound, SentInFront
<1>11. OrdersSound(r)
  BY <1>1 DEF Sound, OrdersSound, Started
<1> QED
  BY <1>5, <1>6, <1>8, <1>9, <1>10, <1>11

\* f lists S without repetition.
Lists(f, S) ==
    /\ f = [k \in 1 .. Cardinality(S) |-> f[k]]
    /\ \A k \in 1 .. Cardinality(S) : f[k] \in S
    /\ \A j, k \in 1 .. Cardinality(S) : j # k => f[j] # f[k]
    /\ \A i \in S : \E k \in 1 .. Cardinality(S) : f[k] = i

\* The keys of a dictionary are listed once each.
LEMMA AnyOrderLists ==
    ASSUME NEW S, IsFiniteSet(S), NEW f \in InAnyOrder(S)
    PROVE  Lists(f, S)
<1> DEFINE n == Cardinality(S)
<1>1. n \in Nat
  BY FS_CardinalityType
<1>2. f \in [1 .. n -> S] /\ {f[k] : k \in DOMAIN f} = S
  BY DEF InAnyOrder
<1>3. IsFiniteSet(1 .. n) /\ Cardinality(1 .. n) = n
  BY <1>1, FS_Interval
<1>4. \A i \in S : \E k \in 1 .. n : f[k] = i
  BY <1>2
<1>5. f \in Surjection(1 .. n, S)
  BY <1>2, <1>4 DEF Surjection
<1>6. f \in Injection(1 .. n, S)
  BY <1>3, <1>5, FS_SurjSameCardinalityImpliesInj
<1>7. \A j, k \in 1 .. n : j # k => f[j] # f[k]
  BY <1>2, <1>6 DEF Injection, IsInjective
<1> QED
  BY <1>2, <1>4, <1>7 DEF Lists

\* So are the keys that are sorted, and they ascend.
LEMMA AscendingLists ==
    ASSUME NEW S \in SUBSET Nat, IsFiniteSet(S)
    PROVE  /\ Lists(Ascending(S), S)
           /\ \A j, k \in 1 .. Cardinality(S) : j < k => Ascending(S)[j] < Ascending(S)[k]
<1> DEFINE n == Cardinality(S)
           below(i) == {j \in S : j <= i}
           rank == [i \in S |-> Cardinality(below(i))]
           f == Ascending(S)
<1>1. n \in Nat
  BY FS_CardinalityType
<1>2. \A i \in S : IsFiniteSet(below(i)) /\ Cardinality(below(i)) \in Nat /\ Cardinality(below(i)) <= n
  BY FS_Subset, FS_CardinalityType
<1>3. \A i \in S : rank[i] \in 1 .. n
  <2> SUFFICES ASSUME NEW i \in S PROVE Cardinality(below(i)) \in 1 .. n
    OBVIOUS
  <2>1. i \in below(i)
    OBVIOUS
  <2>2. Cardinality(below(i)) # 0
    BY <1>2, <2>1, FS_EmptySet
  <2> HIDE DEF below
  <2> QED
    BY <1>1, <1>2, <2>2
<1>4. \A i, j \in S : i < j => rank[i] < rank[j]
  <2> SUFFICES ASSUME NEW i \in S, NEW j \in S, i < j
               PROVE  Cardinality(below(i)) < Cardinality(below(j))
    OBVIOUS
  <2>1. below(i) \subseteq below(j) /\ j \in below(j) /\ j \notin below(i)
    <3>1. i \in Nat /\ j \in Nat
      OBVIOUS
    <3>2. ASSUME NEW x \in S, x <= i PROVE x <= j
      BY <3>1, <3>2
    <3>3. j <= j /\ ~(j <= i)
      BY <3>1
    <3> QED
      BY <3>2, <3>3
  <2>2. /\ Cardinality(below(i)) <= Cardinality(below(j))
        /\ Cardinality(below(i)) # Cardinality(below(j))
    <3> HIDE DEF below
    <3> QED
      BY <1>2, <2>1, FS_Subset
  <2> HIDE DEF below
  <2> QED
    BY <1>2, <2>2
<1>5. rank \in [S -> 1 .. n]
  BY <1>3
<1>6. \A i, j \in S : i # j => rank[i] # rank[j]
  <2> HIDE DEF rank
  <2>1. \A i \in S : rank[i] \in Nat
    BY <1>3
  <2> QED
    BY <1>4, <2>1
<1>7. rank \in Injection(S, 1 .. n)
  <2> HIDE DEF rank
  <2> QED
    BY <1>5, <1>6 DEF Injection, IsInjective
<1>8. rank \in Surjection(S, 1 .. n)
  <2>1. IsFiniteSet(1 .. n) /\ Cardinality(1 .. n) = n
    BY <1>1, FS_Interval
  <2> HIDE DEF rank
  <2> QED
    BY <1>7, <2>1, FS_Injection
<1>9. \A k \in 1 .. n : \E i \in S : rank[i] = k
  <2> HIDE DEF rank
  <2> QED
    BY <1>8 DEF Surjection
<1>10. f = [k \in 1 .. n |-> f[k]] /\ \A k \in 1 .. n : f[k] = CHOOSE i \in S : Cardinality(below(i)) = k
  BY DEF Ascending
<1>11. \A k \in 1 .. n : f[k] \in S /\ rank[f[k]] = k
  <2> SUFFICES ASSUME NEW k \in 1 .. n PROVE f[k] \in S /\ rank[f[k]] = k
    OBVIOUS
  <2>1. \E i \in S : Cardinality(below(i)) = k
    BY <1>9
  <2>2. f[k] = CHOOSE i \in S : Cardinality(below(i)) = k
    BY <1>10
  <2> HIDE DEF f, below
  <2>3. f[k] \in S /\ Cardinality(below(f[k])) = k
    BY <2>1, <2>2
  <2> QED
    BY <2>3
<1> HIDE DEF rank, f
<1>12. \A j, k \in 1 .. n : j # k => f[j] # f[k]
  BY <1>11
<1>13. \A i \in S : \E k \in 1 .. n : f[k] = i
  BY <1>3, <1>6, <1>11
<1>14. \A j, k \in 1 .. n : j < k => f[j] < f[k]
  <2> SUFFICES ASSUME NEW j \in 1 .. n, NEW k \in 1 .. n, j < k, ~(f[j] < f[k])
               PROVE  FALSE
    OBVIOUS
  <2>1. f[j] \in Nat /\ f[k] \in Nat /\ f[j] # f[k]
    <3>1. \A x \in S : x \in Nat
      OBVIOUS
    <3>2. j # k
      BY <1>1
    <3> QED
      BY <1>11, <1>12, <3>1, <3>2
  <2>2. f[k] < f[j]
    BY <2>1
  <2>3. k < j
    BY <1>4, <1>11, <2>2
  <2> QED
    BY <2>3
<1> QED
  BY <1>10, <1>11, <1>12, <1>13, <1>14 DEF f, Lists

\* Finitely many puts are outstanding.
LEMMA FinitePuts ==
    ASSUME NEW v, Shape(v), NEW S \in SUBSET DOMAIN v.puts
    PROVE  S \in SUBSET Nat /\ IsFiniteSet(S) /\ Cardinality(S) \in Nat
<1>1. v.count \in Nat /\ DOMAIN v.puts \subseteq 1 .. v.count
  BY DEF Shape
<1>2. IsFiniteSet(1 .. v.count) /\ 1 .. v.count \subseteq Nat
  BY <1>1, FS_Interval
<1> QED
  BY <1>1, <1>2, FS_Subset, FS_CardinalityType

\* The answers of puts that end on the client.
EndsOf(v, order, S, status) ==
    LET answers == Ended(v, order, status)
    IN  /\ answers \in Seq(Answer)
        /\ DOMAIN answers = 1 .. Cardinality(S)
        /\ \A k \in DOMAIN answers : /\ answers[k].put \in S /\ answers[k].status = status
                                     /\ answers[k].txs = v.puts[answers[k].put].txs
        /\ \A j, k \in DOMAIN answers : j # k => answers[j].put # answers[k].put
        /\ \A i \in S : \E k \in DOMAIN answers : answers[k].put = i

\* The answers of puts that end without the server.
LEMMA EndedIs ==
    ASSUME NEW v, Shape(v), NEW S \in SUBSET DOMAIN v.puts, NEW order, Lists(order, S),
           NEW status \in Statuses
    PROVE  EndsOf(v, order, S, status)
<1> DEFINE n == Cardinality(S)
           answers == Ended(v, order, status)
<1>1. n \in Nat /\ S \subseteq Nat
  BY FinitePuts
<1>2. DOMAIN order = 1 .. n /\ \A k \in 1 .. n : order[k] \in S
  BY DEF Lists
<1>3. /\ DOMAIN answers = 1 .. n
      /\ answers = [k \in 1 .. n |-> [put |-> order[k], txs |-> v.puts[order[k]].txs, status |-> status]]
  BY <1>2 DEF Ended
<1>4. \A i \in S : v.puts[i].txs \in SUBSET Txs
  BY DEF Shape
<1>5. \A k \in 1 .. n : [put |-> order[k], txs |-> v.puts[order[k]].txs, status |-> status] \in Answer
  BY <1>1, <1>2, <1>4 DEF Answer
<1>6. answers \in Seq(Answer)
  BY <1>1, <1>3, <1>5
<1>7. \A k \in 1 .. n : /\ answers[k].put = order[k] /\ answers[k].status = status
                        /\ answers[k].txs = v.puts[order[k]].txs
  BY <1>3
<1> HIDE DEF answers
<1>8. \A k \in DOMAIN answers : /\ answers[k].put \in S /\ answers[k].status = status
                                 /\ answers[k].txs = v.puts[answers[k].put].txs
  BY <1>2, <1>3, <1>7
<1>9. \A j, k \in DOMAIN answers : j # k => answers[j].put # answers[k].put
  BY <1>3, <1>7 DEF Lists
<1>10. \A i \in S : \E k \in DOMAIN answers : answers[k].put = i
  BY <1>3, <1>7 DEF Lists
<1> QED
  BY <1>3, <1>6, <1>8, <1>9, <1>10 DEF EndsOf, answers

\* The first answer leaves the wire.
LEMMA TailIs ==
    ASSUME NEW T, NEW s \in Seq(T), s # <<>>
    PROVE  /\ 1 \in DOMAIN s /\ Head(s) = s[1] /\ Tail(s) \in Seq(T)
           /\ \A k \in DOMAIN Tail(s) : /\ k \in Nat /\ k + 1 \in DOMAIN s /\ k + 1 # 1
                                        /\ Tail(s)[k] = s[k + 1]
           /\ \A k \in DOMAIN s : k = 1 \/ \E m \in DOMAIN Tail(s) : Tail(s)[m] = s[k]
<1> DEFINE n == Len(s)
<1>1. n \in Nat /\ n # 0 /\ DOMAIN s = 1 .. n
  BY EmptySeq
<1>2. Head(s) = s[1] /\ Tail(s) \in Seq(T)
  OBVIOUS
<1>3. DOMAIN Tail(s) = 1 .. n - 1 /\ \A k \in 1 .. n - 1 : Tail(s)[k] = s[k + 1]
  BY <1>1
<1> HIDE DEF n
<1>4. \A k \in DOMAIN Tail(s) : k \in Nat /\ k + 1 \in DOMAIN s /\ k + 1 # 1
  BY <1>1, <1>3
<1>5. ASSUME NEW k \in DOMAIN s, k # 1 PROVE \E m \in DOMAIN Tail(s) : Tail(s)[m] = s[k]
  <2>1. k - 1 \in 1 .. n - 1 /\ (k - 1) + 1 = k
    BY <1>1, <1>5
  <2> QED
    BY <1>3, <2>1
<1> QED
  BY <1>1, <1>2, <1>3, <1>4, <1>5

\* The server takes or refuses the first put on the wire.
Took(v, c, d, p, status) ==
    /\ d.last = IF status = "ok" THEN p.put ELSE c.last
    /\ \A x \in Txs : d.applied[x] = IF status = "ok" /\ x \in p.txs THEN c.applied[x] + 1
                                     ELSE c.applied[x]

\* Its answer is heard, and the put forgotten if it is outstanding.
Heard(v, r, c, d, status) ==
    LET p == Head(v.wire)
    IN  /\ r.count = v.count /\ r.writes = v.writes /\ r.queue = v.queue
        /\ r.tx = v.tx /\ r.told = v.told /\ r.wire = Tail(v.wire)
        /\ DOMAIN r.puts = DOMAIN v.puts \ {p.put}
        /\ \A i \in DOMAIN r.puts : r.puts[i] = v.puts[i]
        /\ d.up = c.up /\ d.purging = c.purging
        /\ d.hand = IF p.put \in DOMAIN v.puts
                      THEN c.hand \cup {[put |-> p.put, txs |-> p.txs, status |-> status]}
                    ELSE c.hand
        /\ Took(v, c, d, p, status)

\* The put at the head of the wire is answered: its answer is to come.
LEMMA HeardSound ==
    ASSUME NEW v, NEW c, Sound(v, c), v.wire # <<>>, NEW status \in {"ok", "denied", "datastale"},
           NEW r, Shape(r), NEW d \in Contexts, Heard(v, r, c, d, status)
    PROVE  Sound(r, d)
<1> DEFINE p == Head(v.wire)
           a == [put |-> p.put, txs |-> p.txs, status |-> status]
           S == {p.put} \cap DOMAIN v.puts
           N == IF p.put \in DOMAIN v.puts THEN {a} ELSE {}
<1>0. /\ Apart(v, c) /\ SetsSound(v, c) /\ TxSound(v, c) /\ WireSound(v, c) /\ Delivered(v, c)
      /\ c.last \in Nat /\ c.hand \subseteq Answer
  BY SoundParts DEF Sound
<1>1. v.wire \in Seq(Request)
  BY DEF Sound, Shape
<1>2. /\ 1 \in DOMAIN v.wire /\ p = v.wire[1]
      /\ \A k \in DOMAIN r.wire : /\ k \in Nat /\ k + 1 \in DOMAIN v.wire /\ k + 1 # 1
                                  /\ r.wire[k] = v.wire[k + 1]
      /\ \A k \in DOMAIN v.wire : k = 1 \/ \E m \in DOMAIN r.wire : r.wire[m] = v.wire[k]
  <2>1. r.wire = Tail(v.wire)
    BY DEF Heard
  <2> DEFINE s == v.wire
  <2>2. s \in Seq(Request) /\ s # <<>>
    BY <1>1
  <2> HIDE DEF s
  <2>3. /\ 1 \in DOMAIN s /\ Head(s) = s[1]
        /\ \A k \in DOMAIN Tail(s) : /\ k \in Nat /\ k + 1 \in DOMAIN s /\ k + 1 # 1
                                     /\ Tail(s)[k] = s[k + 1]
        /\ \A k \in DOMAIN s : k = 1 \/ \E m \in DOMAIN Tail(s) : Tail(s)[m] = s[k]
    BY <2>2, TailIs
  <2> QED
    BY <2>1, <2>3 DEF s
<1>3. /\ r.count = v.count /\ r.writes = v.writes /\ r.queue = v.queue
      /\ r.tx = v.tx /\ r.told = v.told
      /\ DOMAIN r.puts = DOMAIN v.puts \ {p.put}
      /\ \A i \in DOMAIN r.puts : r.puts[i] = v.puts[i]
      /\ d.up = c.up /\ d.purging = c.purging
      /\ d.hand = IF p.put \in DOMAIN v.puts THEN c.hand \cup {a} ELSE c.hand
      /\ d.last = IF status = "ok" THEN p.put ELSE c.last
      /\ \A x \in Txs : d.applied[x] = IF status = "ok" /\ x \in p.txs THEN c.applied[x] + 1
                                       ELSE c.applied[x]
  BY DEF Heard, Took
<1>4. /\ d.hand = c.hand \cup N
      /\ \A i \in DOMAIN r.puts : i \in DOMAIN v.puts /\ i # p.put /\ r.puts[i] = v.puts[i]
      /\ p.put \in DOMAIN v.puts => p.txs = v.puts[p.put].txs
      /\ c.up
      /\ p.put \in 1 .. v.count /\ p.put \in Nat
  BY <1>0, <1>2, <1>3, SoundParts DEF WireSound
<1>5. /\ \A k \in DOMAIN v.wire : v.wire[k].put \in Nat /\ v.wire[k].txs \subseteq Txs
      /\ \A k \in DOMAIN v.wire : k \in Nat
      /\ v.count \in Nat
  BY <1>1, SoundParts
<1>6. \A e \in N : e.put = p.put /\ e.txs = p.txs /\ e.status = status /\ p.put \in DOMAIN v.puts
  OBVIOUS
<1>20. p.put \in DOMAIN v.puts => a \in N
  OBVIOUS
<1> HIDE DEF p, a
<1>7. Moved(v, r, c, d, S, N)
  <2>1. DOMAIN r.puts = DOMAIN v.puts \ S
    BY <1>3
  <2>2. \A i \in DOMAIN r.puts : r.puts[i].txs = v.puts[i].txs
    BY <1>3
  <2>3. \A e \in N : /\ e.put \in S /\ e.txs = v.puts[e.put].txs
                     /\ e.status = "canceled" => c.purging
    BY <1>4, <1>6
  <2>4. \A e, b \in N : e # b => e.put # b.put
    OBVIOUS
  <2>5. \A i \in S : \E e \in N : e.put = i
    BY <1>6, <1>20
  <2> HIDE DEF S, N
  <2> QED
    BY <1>3, <1>4, <2>1, <2>2, <2>3, <2>4, <2>5 DEF Moved
<1>8. S \in SUBSET DOMAIN v.puts
  OBVIOUS
<1> HIDE DEF S, N
<1>9. /\ Apart(r, d) /\ SetsSound(r, d) /\ TxSound(r, d)
      /\ SentTogether(r, d) /\ SentInFront(r) /\ OrdersSound(r)
  BY <1>7, <1>8, MoveSound
<1>10. \A k \in DOMAIN v.wire : k # 1 => p.put < v.wire[k].put /\ p.txs \cap v.wire[k].txs = {}
  <2> SUFFICES ASSUME NEW k \in DOMAIN v.wire, k # 1
               PROVE  p.put < v.wire[k].put /\ p.txs \cap v.wire[k].txs = {}
    OBVIOUS
  <2>1. DOMAIN v.wire = 1 .. Len(v.wire) /\ Len(v.wire) \in Nat
    BY <1>1
  <2>2. 1 < k
    BY <2>1
  <2> QED
    BY <1>0, <1>2, <2>2 DEF WireSound
<1>11. WireSound(r, d)
  <2>1. \A k \in DOMAIN r.wire : r.wire[k].put \in 1 .. r.count
    BY <1>0, <1>2, <1>3 DEF WireSound
  <2>2. \A j, k \in DOMAIN r.wire : j < k => r.wire[j].put < r.wire[k].put
    <3> SUFFICES ASSUME NEW j \in DOMAIN r.wire, NEW k \in DOMAIN r.wire, j < k
                 PROVE  r.wire[j].put < r.wire[k].put
      OBVIOUS
    <3>1. j + 1 < k + 1
      BY <1>2
    <3>2. \A l, m \in DOMAIN v.wire : l < m => v.wire[l].put < v.wire[m].put
      BY <1>0 DEF WireSound
    <3> QED
      BY <1>2, <3>1, <3>2
  <2>3. \A j, k \in DOMAIN r.wire : j # k => r.wire[j].txs \cap r.wire[k].txs = {}
    <3> SUFFICES ASSUME NEW j \in DOMAIN r.wire, NEW k \in DOMAIN r.wire, j # k
                 PROVE  r.wire[j].txs \cap r.wire[k].txs = {}
      OBVIOUS
    <3>1. j + 1 # k + 1
      BY <1>2
    <3>2. \A l, m \in DOMAIN v.wire : l # m => v.wire[l].txs \cap v.wire[m].txs = {}
      BY <1>0 DEF WireSound
    <3> QED
      BY <1>2, <3>1, <3>2, SMTT(20)
  <2>4. \A k \in DOMAIN r.wire : r.wire[k].put \in DOMAIN r.puts =>
           r.wire[k].txs = r.puts[r.wire[k].put].txs
    <3>1. \A k \in DOMAIN v.wire : v.wire[k].put \in DOMAIN v.puts =>
             v.wire[k].txs = v.puts[v.wire[k].put].txs
      BY <1>0 DEF WireSound
    <3> SUFFICES ASSUME NEW k \in DOMAIN r.wire, r.wire[k].put \in DOMAIN r.puts
                 PROVE  r.wire[k].txs = r.puts[r.wire[k].put].txs
      OBVIOUS
    <3>2. k + 1 \in DOMAIN v.wire /\ r.wire[k] = v.wire[k + 1]
      BY <1>2
    <3>3. v.wire[k + 1].put \in DOMAIN v.puts /\ r.puts[r.wire[k].put] = v.puts[r.wire[k].put]
      BY <1>4, <3>2
    <3> QED
      BY <3>1, <3>2, <3>3
  <2>5. \A i \in DOMAIN r.puts : r.puts[i].sent /\ \E k \in DOMAIN r.wire : r.wire[k].put = i
    <3> SUFFICES ASSUME NEW i \in DOMAIN r.puts
                 PROVE  r.puts[i].sent /\ \E k \in DOMAIN r.wire : r.wire[k].put = i
      OBVIOUS
    <3>1. PICK k \in DOMAIN v.wire : v.wire[k].put = i
      BY <1>0, <1>4 DEF WireSound
    <3>2. k # 1
      BY <1>2, <1>4, <3>1
    <3> QED
      BY <1>0, <1>2, <1>4, <3>1, <3>2 DEF WireSound
  <2> QED
    BY <1>3, <1>4, <2>1, <2>2, <2>3, <2>4, <2>5 DEF WireSound
<1>12. \A x \in Txs : x \in p.txs => c.applied[x] = 0 /\ (status # "ok" => Unseen(r, d, x))
  <2> SUFFICES ASSUME NEW x \in Txs, x \in p.txs
               PROVE  c.applied[x] = 0 /\ (status # "ok" => Unseen(r, d, x))
    OBVIOUS
  <2>1. c.applied[x] = 0
    BY <1>0, <1>2 DEF Delivered
  <2>2. \A k \in DOMAIN r.wire : x \notin r.wire[k].txs
    BY <1>2, <1>10
  <2> QED
    BY <1>3, <2>1, <2>2 DEF Unseen
<1>13. \A x \in Txs : Unseen(v, c, x) => Unseen(r, d, x)
  BY <1>2, <1>3 DEF Unseen
<1>14. \A i \in Nat : Final(v, c, i) => Final(r, d, i)
  <2> SUFFICES ASSUME NEW i \in Nat, Final(v, c, i) PROVE Final(r, d, i)
    OBVIOUS
  <2>1. i <= d.last
    <3>1. i < p.put /\ i <= c.last
      BY <1>2 DEF Final
    <3> QED
      BY <1>3, <1>4, <3>1
  <2>2. \A k \in DOMAIN r.wire : i < r.wire[k].put
    BY <1>2 DEF Final
  <2> QED
    BY <1>3, <1>4, <2>1, <2>2 DEF Final
<1>15. ASSUME status = "ok", p.put \in DOMAIN v.puts PROVE Final(r, d, p.put)
  <2>1. p.put <= d.last /\ p.put <= r.count
    BY <1>3, <1>4, <1>5, <1>15
  <2>2. \A k \in DOMAIN r.wire : p.put < r.wire[k].put
    BY <1>2, <1>10
  <2>3. \A j \in DOMAIN r.puts : p.put < j
    <3> SUFFICES ASSUME NEW j \in DOMAIN r.puts PROVE p.put < j
      OBVIOUS
    <3>1. PICK k \in DOMAIN r.wire : r.wire[k].put = j
      BY <1>3, <1>4, <1>11 DEF WireSound
    <3> QED
      BY <2>2, <3>1
  <2> QED
    BY <2>1, <2>2, <2>3 DEF Final
<1>16. Delivered(r, d)
  <2>1. ASSUME NEW x \in Txs
        PROVE  /\ d.applied[x] \in {0, 1}
               /\ d.applied[x] = 1 => \A k \in DOMAIN r.wire : x \notin r.wire[k].txs
               /\ r.tx[x].status \in {"none", "Run"} => Unseen(r, d, x)
               /\ r.told[x] = "ok" => d.applied[x] = 1
    <3>1. /\ c.applied[x] \in {0, 1}
          /\ c.applied[x] = 1 => \A k \in DOMAIN v.wire : x \notin v.wire[k].txs
          /\ v.tx[x].status \in {"none", "Run"} => Unseen(v, c, x)
          /\ v.told[x] = "ok" => c.applied[x] = 1
      BY <1>0 DEF Delivered
    <3>2. d.applied[x] \in {0, 1}
      BY <1>3, <1>12, <3>1
    <3>3. d.applied[x] = 1 => \A k \in DOMAIN r.wire : x \notin r.wire[k].txs
      <4>1. CASE x \in p.txs
        BY <1>2, <1>10, <4>1
      <4>2. CASE x \notin p.txs
        BY <1>2, <1>3, <3>1, <4>2
      <4> QED
        BY <4>1, <4>2
    <3>4. r.tx[x].status \in {"none", "Run"} => Unseen(r, d, x)
      BY <1>3, <1>13, <3>1
    <3>5. r.told[x] = "ok" => d.applied[x] = 1
      BY <1>3, <1>12, <3>1
    <3> QED
      BY <3>2, <3>3, <3>4, <3>5
  <2>2. ASSUME NEW i \in DOMAIN r.puts, NEW x \in r.puts[i].txs
        PROVE  IF r.puts[i].sent THEN d.up ELSE Unseen(r, d, x)
    <3>1. x \in Txs /\ i \in DOMAIN v.puts /\ r.puts[i] = v.puts[i] /\ x \in v.puts[i].txs
      BY <1>4, SoundParts
    <3>2. IF v.puts[i].sent THEN c.up ELSE Unseen(v, c, x)
      BY <1>0, <3>1 DEF Delivered
    <3> QED
      BY <1>3, <1>13, <3>1, <3>2
  <2>3. ASSUME NEW e \in d.hand, NEW x \in e.txs
        PROVE  /\ e.status = "ok" => d.applied[x] = 1
               /\ e.status = "datastale" => Unseen(r, d, x)
    <3>1. CASE e \in c.hand
      <4>1. x \in Txs
        BY <3>1, SoundParts
      <4>2. /\ e.status = "ok" => c.applied[x] = 1
            /\ e.status = "datastale" => Unseen(v, c, x)
        BY <1>0, <3>1 DEF Delivered
      <4>3. c.applied[x] = 1 => x \notin p.txs
        BY <1>12, <4>1
      <4> QED
        BY <1>3, <1>13, <4>1, <4>2, <4>3
    <3>2. CASE e \in N
      <4>1. x \in p.txs /\ e.status = status /\ x \in Txs
        BY <1>2, <1>5, <1>6, <3>2
      <4> QED
        BY <1>3, <1>12, <4>1
    <3> QED
      BY <1>4, <3>1, <3>2
  <2>4. \A i \in 1 .. MaxWork : r.told[i] = "ok" => Final(r, d, i)
    BY <1>0, <1>3, <1>14 DEF Delivered
  <2>5. ASSUME NEW e \in d.hand, e.status = "ok" PROVE Final(r, d, e.put)
    <3>1. CASE e \in c.hand
      <4>1. e.put \in Nat /\ Final(v, c, e.put)
        BY <1>0, <2>5, <3>1, SoundParts DEF Delivered
      <4> QED
        BY <1>14, <4>1
    <3>2. CASE e \in N
      BY <1>6, <1>15, <2>5, <3>2
    <3> QED
      BY <1>4, <3>1, <3>2
  <2> QED
    BY <2>1, <2>2, <2>3, <2>4, <2>5 DEF Delivered
<1> QED
  BY <1>9, <1>11, <1>16 DEF Sound

\* The connection is lost: the answers of N are the client's own.
LostPuts(v, r, c, d, taken) ==
    /\ r.count = v.count /\ r.writes = v.writes /\ r.queue = v.queue
    /\ r.tx = v.tx /\ r.told = v.told /\ r.wire = <<>>
    /\ DOMAIN r.puts = DOMAIN v.puts \ SentTransactions(v)
    /\ \A i \in DOMAIN r.puts : r.puts[i] = v.puts[i]
    /\ ~d.up
    /\ IF taken = {} THEN d.last = c.last
       ELSE \E k \in taken : (\A m \in taken : m <= k) /\ d.last = v.wire[k].put
    /\ \A x \in Txs : d.applied[x] = c.applied[x] + Cardinality({k \in taken : x \in v.wire[k].txs})

\* The connection is lost: what was sent and is a transaction ends as disconnected.
LEMMA LostSound ==
    ASSUME NEW v, NEW c, Sound(v, c), NEW taken \in SUBSET DOMAIN v.wire,
           NEW r, Shape(r), NEW d \in Contexts, LostPuts(v, r, c, d, taken),
           NEW N, Moved(v, r, c, d, SentTransactions(v), N),
           \A a \in N : a.status = "disconnect"
    PROVE  Sound(r, d)
<1>0. /\ WireSound(v, c) /\ Delivered(v, c)
      /\ c.last \in Nat /\ c.hand \subseteq Answer
  BY SoundParts DEF Sound
<1>1. /\ r.count = v.count /\ r.tx = v.tx /\ r.told = v.told /\ r.wire = <<>>
      /\ \A i \in DOMAIN r.puts : /\ i \in DOMAIN v.puts /\ i \notin SentTransactions(v)
                                  /\ r.puts[i] = v.puts[i]
      /\ ~d.up
  BY DEF LostPuts
<1>2. d.hand = c.hand \cup N
  BY DEF Moved
<1>3. SentTransactions(v) \in SUBSET DOMAIN v.puts
  BY DEF SentTransactions
<1>4. /\ Apart(r, d) /\ SetsSound(r, d) /\ TxSound(r, d)
      /\ SentTogether(r, d) /\ SentInFront(r) /\ OrdersSound(r)
  BY <1>3, MoveSound
<1>5. DOMAIN r.wire = {}
  <2>1. <<>> \in Seq(Request) /\ Len(<<>>) = 0
    BY EmptySeq
  <2> QED
    BY <1>1, <2>1
<1>6. WireSound(r, d)
  BY <1>1, <1>5 DEF WireSound
<1>7. ASSUME NEW x \in Txs
      PROVE  IF \E k \in taken : x \in v.wire[k].txs
               THEN c.applied[x] = 0 /\ d.applied[x] = 1 ELSE d.applied[x] = c.applied[x]
  <2> DEFINE K == {k \in taken : x \in v.wire[k].txs}
  <2>1. d.applied[x] = c.applied[x] + Cardinality(K) /\ c.applied[x] \in {0, 1}
    BY <1>0 DEF LostPuts, Delivered
  <2>2. CASE \E k \in taken : x \in v.wire[k].txs
    <3>1. PICK k \in taken : x \in v.wire[k].txs
      BY <2>2
    <3>2. \A m \in taken : x \in v.wire[m].txs => m = k
      BY <1>0, <3>1 DEF WireSound
    <3>3. K = {k}
      BY <3>1, <3>2
    <3>4. Cardinality(K) = 1
      BY <3>3, FS_Singleton
    <3>5. c.applied[x] = 0
      BY <1>0, <2>1, <3>1 DEF Delivered
    <3> HIDE DEF K
    <3> QED
      BY <2>1, <2>2, <3>4, <3>5
  <2>3. CASE ~\E k \in taken : x \in v.wire[k].txs
    <3>1. K = {}
      BY <2>3
    <3>2. Cardinality(K) = 0
      BY <3>1, FS_EmptySet
    <3> HIDE DEF K
    <3> QED
      BY <2>1, <2>3, <3>2
  <2> QED
    BY <2>2, <2>3
<1>8. \A x \in Txs : Unseen(v, c, x) => Unseen(r, d, x)
  BY <1>5, <1>7 DEF Unseen
<1>9. \A i \in Nat : Final(v, c, i) => Final(r, d, i)
  <2> SUFFICES ASSUME NEW i \in Nat, Final(v, c, i) PROVE Final(r, d, i)
    OBVIOUS
  <2>1. i <= d.last
    <3>1. CASE taken = {}
      BY <3>1 DEF Final, LostPuts
    <3>2. CASE taken # {}
      <4>1. PICK k \in taken : d.last = v.wire[k].put
        BY <3>2 DEF LostPuts
      <4>2. v.wire[k].put \in Nat /\ i < v.wire[k].put
        BY SoundParts DEF Final
      <4> QED
        BY <4>1, <4>2
    <3> QED
      BY <3>1, <3>2
  <2>2. i <= r.count /\ \A j \in DOMAIN r.puts : i < j
    BY <1>1 DEF Final
  <2> QED
    BY <1>5, <2>1, <2>2 DEF Final
<1>10. Delivered(r, d)
  <2>1. ASSUME NEW x \in Txs
        PROVE  /\ d.applied[x] \in {0, 1}
               /\ r.tx[x].status \in {"none", "Run"} => Unseen(r, d, x)
               /\ r.told[x] = "ok" => d.applied[x] = 1
    <3>1. /\ c.applied[x] \in {0, 1}
          /\ v.tx[x].status \in {"none", "Run"} => Unseen(v, c, x)
          /\ v.told[x] = "ok" => c.applied[x] = 1
      BY <1>0 DEF Delivered
    <3> QED
      BY <1>1, <1>7, <1>8, <3>1
  <2>2. ASSUME NEW i \in DOMAIN r.puts, NEW x \in r.puts[i].txs
        PROVE  IF r.puts[i].sent THEN d.up ELSE Unseen(r, d, x)
    <3>1. x \in Txs /\ i \in DOMAIN v.puts /\ r.puts[i] = v.puts[i] /\ x \in v.puts[i].txs
      BY <1>1, SoundParts
    <3>2. ~v.puts[i].sent
      BY <1>1, <3>1 DEF SentTransactions
    <3>3. Unseen(v, c, x)
      BY <1>0, <3>1, <3>2 DEF Delivered
    <3> QED
      BY <1>8, <3>1, <3>2, <3>3
  <2>3. ASSUME NEW e \in d.hand, NEW x \in e.txs
        PROVE  /\ e.status = "ok" => d.applied[x] = 1
               /\ e.status = "datastale" => Unseen(r, d, x)
    <3>1. CASE e \in c.hand
      <4>1. x \in Txs
        BY <3>1, SoundParts
      <4>2. /\ e.status = "ok" => c.applied[x] = 1
            /\ e.status = "datastale" => Unseen(v, c, x)
        BY <1>0, <3>1 DEF Delivered
      <4> QED
        BY <1>7, <1>8, <4>1, <4>2
    <3>2. CASE e \in N
      BY <3>2
    <3> QED
      BY <1>2, <3>1, <3>2
  <2>4. \A i \in 1 .. MaxWork : r.told[i] = "ok" => Final(r, d, i)
    BY <1>0, <1>1, <1>9 DEF Delivered
  <2>5. ASSUME NEW e \in d.hand, e.status = "ok" PROVE Final(r, d, e.put)
    <3>1. CASE e \in c.hand
      <4>1. e.put \in Nat /\ Final(v, c, e.put)
        BY <1>0, <2>5, <3>1, SoundParts DEF Delivered
      <4> QED
        BY <1>9, <4>1
    <3>2. CASE e \in N
      BY <2>5, <3>2
    <3> QED
      BY <1>2, <3>1, <3>2
  <2> QED
    BY <1>5, <2>1, <2>2, <2>3, <2>4, <2>5 DEF Delivered
<1> QED
  BY <1>4, <1>6, <1>10 DEF Sound

-----------------------------------------------------------------------------
\* What restoreState changes.
LEMMA RestoreIs ==
    ASSUME NEW v, Shape(v)
    PROVE  LET r == Restore(v)
               order == Ascending(DOMAIN v.puts)
           IN  /\ Shape(r)
               /\ r.count = v.count /\ r.held = v.held /\ r.writes = v.writes
               /\ r.queue = v.queue /\ r.tx = v.tx /\ r.told = v.told /\ r.raised = v.raised
               /\ DOMAIN r.puts = DOMAIN v.puts
               /\ \A i \in DOMAIN r.puts : r.puts[i].txs = v.puts[i].txs /\ r.puts[i].sent
               /\ Lists(order, DOMAIN v.puts)
               /\ DOMAIN r.wire = 1 .. Cardinality(DOMAIN v.puts)
               /\ \A k \in DOMAIN r.wire : /\ r.wire[k].put = order[k]
                                           /\ r.wire[k].txs = v.puts[order[k]].txs
<1> DEFINE r == Restore(v)
           S == DOMAIN v.puts
           order == Ascending(S)
           n == Cardinality(S)
           wire == [k \in DOMAIN order |-> [put |-> order[k], txs |-> v.puts[order[k]].txs]]
           puts == [i \in S |-> [v.puts[i] EXCEPT !.sent = TRUE]]
<1>1. S \in SUBSET Nat /\ IsFiniteSet(S) /\ n \in Nat
  BY FinitePuts
<1>2. Lists(order, S)
  <2> HIDE DEF S
  <2> QED
    BY <1>1, AscendingLists
<1>3. DOMAIN order = 1 .. n /\ \A k \in 1 .. n : order[k] \in S
  <2> HIDE DEF S, order
  <2> QED
    BY <1>2 DEF Lists
<1>4. v = [f \in WriteFields |-> v[f]]
  BY DEF Shape
<1>5. /\ r = [f \in WriteFields |-> r[f]]
      /\ r.count = v.count /\ r.held = v.held /\ r.writes = v.writes
      /\ r.queue = v.queue /\ r.tx = v.tx /\ r.told = v.told /\ r.raised = v.raised
      /\ r.wire = wire /\ r.puts = puts
  <2> HIDE DEF order
  <2> QED
    BY <1>4 DEF Restore, WriteFields, order
<1>6. \A i \in S : v.puts[i] \in [txs : SUBSET Txs, sent : BOOLEAN]
  BY DEF Shape
<1>7. /\ DOMAIN puts = S /\ puts = [i \in DOMAIN puts |-> puts[i]]
      /\ \A i \in S : /\ puts[i] \in [txs : SUBSET Txs, sent : BOOLEAN]
                      /\ puts[i].txs = v.puts[i].txs /\ puts[i].sent
  <2> HIDE DEF S
  <2>1. \A i \in S : puts[i] = [v.puts[i] EXCEPT !.sent = TRUE]
    OBVIOUS
  <2>2. \A i \in S : /\ puts[i] \in [txs : SUBSET Txs, sent : BOOLEAN]
                     /\ puts[i].txs = v.puts[i].txs /\ puts[i].sent
    BY <1>6, <2>1
  <2> QED
    BY <2>2
<1>8. /\ DOMAIN wire = 1 .. n
      /\ \A k \in 1 .. n : wire[k].put = order[k] /\ wire[k].txs = v.puts[order[k]].txs
      /\ wire \in Seq(Request)
  <2> HIDE DEF S, order, n
  <2>1. /\ DOMAIN wire = 1 .. n
        /\ wire = [k \in 1 .. n |-> [put |-> order[k], txs |-> v.puts[order[k]].txs]]
    BY <1>3
  <2>2. \A k \in 1 .. n : [put |-> order[k], txs |-> v.puts[order[k]].txs] \in Request
    BY <1>1, <1>3, <1>6 DEF Request
  <2> QED
    BY <1>1, <2>1, <2>2
<1> HIDE DEF r, wire, puts, order, n
<1>9. Shape(r)
  <2>1. DOMAIN r.puts \subseteq 1 .. r.count /\ r.puts = [i \in DOMAIN r.puts |-> r.puts[i]]
    BY <1>5, <1>7, ZenonT(40) DEF Shape
  <2>2. \A i \in DOMAIN r.puts : r.puts[i] \in [txs : SUBSET Txs, sent : BOOLEAN]
    BY <1>5, <1>7
  <2> QED
    BY <1>5, <1>8, <2>1, <2>2 DEF Shape
<1> QED
  BY <1>2, <1>3, <1>5, <1>7, <1>8, <1>9 DEF r, order, n

\* On a new connection every put that is outstanding is sent, in its order.
LEMMA RestoredSound ==
    ASSUME NEW v, NEW c, Sound(v, c), ~c.up, NEW d \in Contexts, d.up,
           d.hand = c.hand, d.purging = c.purging, d.last = c.last, d.applied = c.applied
    PROVE  Sound(Restore(v), d)
<1> DEFINE r == Restore(v)
           P == DOMAIN v.puts
           order == Ascending(P)
           n == Cardinality(P)
<1>1. /\ Apart(v, c) /\ TxSound(v, c) /\ Delivered(v, c) /\ Shape(v)
      /\ c.last \in Nat /\ c.hand \subseteq Answer
  BY SoundParts DEF Sound
<1>2. /\ Shape(r)
      /\ r.count = v.count /\ r.held = v.held /\ r.writes = v.writes
      /\ r.queue = v.queue /\ r.tx = v.tx /\ r.told = v.told
      /\ DOMAIN r.puts = P
      /\ \A i \in DOMAIN r.puts : r.puts[i].txs = v.puts[i].txs /\ r.puts[i].sent
      /\ Lists(order, P)
      /\ DOMAIN r.wire = 1 .. n
      /\ \A k \in DOMAIN r.wire : r.wire[k].put = order[k] /\ r.wire[k].txs = v.puts[order[k]].txs
  BY <1>1, RestoreIs
<1>3. /\ P \in SUBSET Nat /\ IsFiniteSet(P) /\ n \in Nat /\ P \subseteq 1 .. v.count
      /\ v.count \in Nat
  BY <1>1, FinitePuts, SoundParts
<1>4. \A j, k \in 1 .. n : j < k => order[j] < order[k]
  <2> HIDE DEF P
  <2> QED
    BY <1>3, AscendingLists
<1>5. \A k \in 1 .. n : order[k] \in P
  BY <1>2 DEF Lists
<1>6. \A i \in P : \E k \in 1 .. n : order[k] = i
  BY <1>2 DEF Lists
<1>7. \A j, k \in 1 .. n : j # k => order[j] # order[k]
  BY <1>2 DEF Lists
<1> HIDE DEF r, order, n, P
<1>8. /\ Apart(r, d) /\ SetsSound(r, d) /\ TxSound(r, d)
      /\ SentTogether(r, d) /\ SentInFront(r) /\ OrdersSound(r)
  <2> DEFINE none == {}
  <2>1. d.hand = c.hand \cup none
    OBVIOUS
  <2>2. /\ DOMAIN r.puts = DOMAIN v.puts \ none /\ none \in SUBSET DOMAIN v.puts
        /\ \A a : a \notin none
    BY <1>2 DEF P
  <2> HIDE DEF none
  <2>3. Moved(v, r, c, d, none, none)
    BY <1>2, <2>1, <2>2 DEF Moved
  <2> QED
    BY <2>2, <2>3, MoveSound
<1>9. \A i \in P : \A x \in v.puts[i].txs : x \in Txs /\ Unseen(v, c, x)
  BY <1>1, SoundParts DEF Delivered, P
<1>10. WireSound(r, d)
  <2>1. \A k \in DOMAIN r.wire : r.wire[k].put \in 1 .. r.count
    BY <1>2, <1>3, <1>5
  <2>2. \A j, k \in DOMAIN r.wire : j < k => r.wire[j].put < r.wire[k].put
    BY <1>2, <1>4
  <2>3. \A j, k \in DOMAIN r.wire : j # k => r.wire[j].txs \cap r.wire[k].txs = {}
    BY <1>1, <1>2, <1>5, <1>7 DEF Apart, P
  <2>4. \A k \in DOMAIN r.wire : r.wire[k].put \in DOMAIN r.puts =>
           r.wire[k].txs = r.puts[r.wire[k].put].txs
    BY <1>2, <1>5
  <2>5. \A i \in DOMAIN r.puts : r.puts[i].sent /\ \E k \in DOMAIN r.wire : r.wire[k].put = i
    BY <1>2, <1>6
  <2> QED
    BY <2>1, <2>2, <2>3, <2>4, <2>5 DEF WireSound
<1>11. \A x \in Txs : Unseen(v, c, x) /\ (\A i \in P : x \notin v.puts[i].txs) => Unseen(r, d, x)
  BY <1>2, <1>5 DEF Unseen
<1>12. \A i \in Nat : Final(v, c, i) => Final(r, d, i)
  BY <1>2, <1>5 DEF Final, P
<1>13. Delivered(r, d)
  <2>1. ASSUME NEW x \in Txs
        PROVE  /\ d.applied[x] \in {0, 1}
               /\ d.applied[x] = 1 => \A k \in DOMAIN r.wire : x \notin r.wire[k].txs
               /\ r.tx[x].status \in {"none", "Run"} => Unseen(r, d, x)
               /\ r.told[x] = "ok" => d.applied[x] = 1
    <3>1. /\ c.applied[x] \in {0, 1}
          /\ v.tx[x].status \in {"none", "Run"} => Unseen(v, c, x)
          /\ v.told[x] = "ok" => c.applied[x] = 1
      BY <1>1 DEF Delivered
    <3>2. d.applied[x] = 1 => \A k \in DOMAIN r.wire : x \notin r.wire[k].txs
      BY <1>2, <1>5, <1>9 DEF Unseen
    <3>3. v.tx[x].status \in {"none", "Run"} => \A i \in P : x \notin v.puts[i].txs
      BY <1>1 DEF TxSound, Carried, P
    <3> QED
      BY <1>2, <1>11, <3>1, <3>2, <3>3
  <2>2. \A i \in DOMAIN r.puts : \A x \in r.puts[i].txs :
            IF r.puts[i].sent THEN d.up ELSE Unseen(r, d, x)
    BY <1>2
  <2>3. ASSUME NEW e \in d.hand, NEW x \in e.txs
        PROVE  /\ e.status = "ok" => d.applied[x] = 1
               /\ e.status = "datastale" => Unseen(r, d, x)
    <3>1. e \in c.hand /\ x \in Txs
      BY SoundParts
    <3>2. /\ e.status = "ok" => c.applied[x] = 1
          /\ e.status = "datastale" => Unseen(v, c, x)
      BY <1>1, <3>1 DEF Delivered
    <3>3. \A i \in P : x \notin v.puts[i].txs
      BY <1>1, <3>1 DEF Apart, P
    <3> QED
      BY <1>11, <3>1, <3>2, <3>3
  <2>4. \A i \in 1 .. MaxWork : r.told[i] = "ok" => Final(r, d, i)
    BY <1>1, <1>2, <1>12 DEF Delivered
  <2>5. \A e \in d.hand : e.status = "ok" => Final(r, d, e.put)
    BY <1>1, <1>12, SoundParts DEF Delivered
  <2> QED
    BY <2>1, <2>2, <2>3, <2>4, <2>5 DEF Delivered
<1> QED
  BY <1>2, <1>8, <1>10, <1>13 DEF Sound, r

-----------------------------------------------------------------------------
\* A purge takes all puts.
LEMMA CanceledSound ==
    ASSUME NEW v, NEW c, Sound(v, c), NEW r, Shape(r), NEW d \in Contexts,
           NEW N, Moved(v, r, c, d, DOMAIN v.puts, N), r.wire = v.wire,
           d.up = c.up, d.last = c.last, d.applied = c.applied,
           \A a \in N : a.status = "canceled"
    PROVE  Sound(r, d)
<1>1. /\ WireSound(v, c) /\ Delivered(v, c) /\ c.hand \subseteq Answer
  BY SoundParts DEF Sound
<1>2. /\ r.count = v.count /\ r.tx = v.tx /\ r.told = v.told
      /\ \A i : i \notin DOMAIN r.puts
      /\ d.hand = c.hand \cup N
  BY DEF Moved
<1>3. /\ Apart(r, d) /\ SetsSound(r, d) /\ TxSound(r, d)
      /\ SentTogether(r, d) /\ SentInFront(r) /\ OrdersSound(r)
  BY MoveSound
<1>4. WireSound(r, d)
  BY <1>1, <1>2 DEF WireSound
<1>5. \A x : Unseen(v, c, x) => Unseen(r, d, x)
  BY DEF Unseen
<1>6. \A i : Final(v, c, i) => Final(r, d, i)
  BY <1>2 DEF Final
<1>7. Delivered(r, d)
  <2>1. \A x \in Txs :
           /\ d.applied[x] \in {0, 1}
           /\ d.applied[x] = 1 => \A k \in DOMAIN r.wire : x \notin r.wire[k].txs
           /\ r.tx[x].status \in {"none", "Run"} => Unseen(r, d, x)
           /\ r.told[x] = "ok" => d.applied[x] = 1
    BY <1>1, <1>2, <1>5 DEF Delivered
  <2>2. \A a \in d.hand : \A x \in a.txs :
           /\ a.status = "ok" => d.applied[x] = 1
           /\ a.status = "datastale" => Unseen(r, d, x)
    BY <1>1, <1>2, <1>5 DEF Delivered
  <2>3. /\ \A i \in 1 .. MaxWork : r.told[i] = "ok" => Final(r, d, i)
        /\ \A a \in d.hand : a.status = "ok" => Final(r, d, a.put)
    BY <1>1, <1>2, <1>6 DEF Delivered
  <2> QED
    BY <1>2, <2>1, <2>2, <2>3 DEF Delivered
<1> QED
  BY <1>3, <1>4, <1>7 DEF Sound

HeldApart(v) == \A j, k \in DOMAIN v.held : j # k => v.held[j].put # v.held[k].put

\* The writes between two steps.
View(v, up, seen, taken) ==
    [hand |-> Held(v), up |-> up, purging |-> FALSE, last |-> seen, applied |-> taken]

Good(v, up, seen, taken) ==
    Sound(v, View(v, up, seen, taken)) /\ Clean(v) /\ HeldApart(v)

\* The writes are seen with a context.
LEMMA ViewIn ==
    ASSUME NEW v, Shape(v), NEW up \in BOOLEAN, NEW seen \in Nat, NEW taken \in [Txs -> Nat]
    PROVE  View(v, up, seen, taken) \in Contexts
<1>1. v.held \in Seq(Answer)
  BY DEF Shape
<1>2. Held(v) \in SUBSET Answer
  BY <1>1 DEF Held
<1> QED
  BY <1>2 DEF View, Contexts

\* What the proofs of the steps take from Good.
LEMMA GoodParts ==
    ASSUME NEW v, NEW up, NEW seen, NEW taken, Good(v, up, seen, taken)
    PROVE  /\ Shape(v) /\ Clean(v) /\ HeldApart(v) /\ v.held \in Seq(Answer)
           /\ up \in BOOLEAN /\ seen \in Nat /\ taken \in [Txs -> Nat]
           /\ Held(v) \in SUBSET Answer
           /\ View(v, up, seen, taken) \in Contexts
<1> DEFINE c == View(v, up, seen, taken)
<1>1. c \in Contexts /\ Shape(v)
  BY DEF Good, Sound
<1>2. /\ c.hand = Held(v) /\ c.up = up /\ c.last = seen /\ c.applied = taken
  BY DEF View
<1> HIDE DEF c
<1>3. c.up \in BOOLEAN /\ c.last \in Nat /\ c.applied \in [Txs -> Nat] /\ c.hand \in SUBSET Answer
  BY <1>1 DEF Contexts
<1> QED
  BY <1>1, <1>2, <1>3 DEF Good, Shape, c

\* Nothing but their shape is said of the answers that are held.
LEMMA SameSound ==
    ASSUME NEW v, NEW c, Sound(v, c), NEW r, Shape(r),
           r.puts = v.puts, r.count = v.count, r.wire = v.wire, r.writes = v.writes,
           r.queue = v.queue, r.tx = v.tx, r.told = v.told
    PROVE  Sound(r, c) /\ (Clean(v) => Clean(r))
<1>1. Apart(r, c) /\ SetsSound(r, c) /\ SentTogether(r, c) /\ SentInFront(r)
  BY SMTT(20) DEF Sound, Apart, SetsSound, SentTogether, SentInFront
<1>2. TxSound(r, c)
  BY DEF Sound, TxSound, Carried
<1>3. OrdersSound(r) /\ WireSound(r, c)
  BY DEF Sound, OrdersSound, Started, WireSound
<1>4. Delivered(r, c)
  BY DEF Sound, Delivered, Unseen, Final
<1> QED
  BY <1>1, <1>2, <1>3, <1>4 DEF Sound, Clean

\* A handler that leaves what is held.
LEMMA SameHand ==
    ASSUME NEW v, NEW up, NEW seen, NEW taken, HeldApart(v),
           NEW r, r.held = v.held, Sound(r, View(v, up, seen, taken)), Clean(r)
    PROVE  Good(r, up, seen, taken)
<1>1. View(r, up, seen, taken) = View(v, up, seen, taken)
  BY DEF View, Held
<1>2. HeldApart(r)
  BY DEF HeldApart
<1> QED
  BY <1>1, <1>2 DEF Good

-----------------------------------------------------------------------------
(* The handlers that write. *)

\* A data update.
LEMMA RerunStep ==
    ASSUME NEW v, NEW up, NEW seen, NEW taken, Good(v, up, seen, taken), v.raised = "no",
           NEW goOn
    PROVE  LET r == RerunTransactions(v, goOn, up)
           IN  Good(r, up, seen, taken) /\ r.raised = "no"
<1> DEFINE c == View(v, up, seen, taken)
           r == RerunTransactions(v, goOn, up)
<1>1. Sound(v, c) /\ Shape(v) /\ up \in BOOLEAN
  BY GoodParts DEF Good
<1>2. c.up = up /\ ~c.purging
  BY DEF View
<1> HIDE DEF c
<1>3. OldWrites(v) \subseteq v.writes
  BY <1>1, <1>2, NoneLost
<1>4. Sound(r, c) /\ Clean(r)
  BY <1>1, <1>2, <1>3, RerunSound
<1>5. r.held = v.held /\ r.raised = "no"
  BY <1>1, <1>3, RerunShape
<1> HIDE DEF r
<1> QED
  BY <1>4, <1>5, GoodParts, SameHand DEF c, r

\* restoreState.
LEMMA RestoreStep ==
    ASSUME NEW v, NEW seen, NEW taken, Good(v, FALSE, seen, taken), v.raised = "no"
    PROVE  Good(Restore(v), TRUE, seen, taken) /\ Restore(v).raised = "no"
<1> DEFINE c == View(v, FALSE, seen, taken)
           r == Restore(v)
           d == View(r, TRUE, seen, taken)
<1>1. Sound(v, c) /\ Shape(v) /\ seen \in Nat /\ taken \in [Txs -> Nat] /\ Clean(v) /\ HeldApart(v)
  BY GoodParts DEF Good
<1>2. Shape(r) /\ r.held = v.held /\ r.queue = v.queue /\ r.tx = v.tx /\ r.raised = v.raised
  BY <1>1, RestoreIs
<1> HIDE DEF r
<1>3. d \in Contexts
  BY <1>1, <1>2, ViewIn
<1>4. /\ ~c.up /\ d.up /\ d.hand = c.hand /\ d.purging = c.purging
      /\ d.last = c.last /\ d.applied = c.applied
  BY <1>2 DEF View, Held
<1> HIDE DEF c, d
<1>5. Sound(r, d)
  BY <1>1, <1>3, <1>4, RestoredSound DEF r
<1>6. Clean(r) /\ HeldApart(r)
  BY <1>1, <1>2 DEF Clean, HeldApart
<1> QED
  BY <1>2, <1>5, <1>6 DEF Good, d, r

\* set:withNode: adds its put to FWriteTree and sends it.
Setting(v, up) == PutInternal([v EXCEPT !.writes = @ \cup {v.count + 1}], {}, up)

\* What a set puts and adds to FWriteTree.
LEMMA SettingIs ==
    ASSUME NEW v, Shape(v), NEW up \in BOOLEAN
    PROVE  LET r == Setting(v, up)
               i == v.count + 1
           IN  /\ Shape(r)
               /\ r.count = i /\ r.held = v.held
               /\ r.queue = v.queue /\ r.tx = v.tx /\ r.told = v.told
               /\ r.writes = v.writes \cup {i} /\ r.raised = v.raised
               /\ DOMAIN r.puts = DOMAIN v.puts \cup {i} /\ i \notin DOMAIN v.puts
               /\ r.puts[i].txs = {} /\ r.puts[i].sent = up
               /\ \A j \in DOMAIN v.puts : r.puts[j] = v.puts[j]
               /\ r.wire = IF up THEN Append(v.wire, [put |-> i, txs |-> {}]) ELSE v.wire
<1> DEFINE r == Setting(v, up)
           i == v.count + 1
           p == PutInternal(v, {}, up)
<1>1. Added(v, p, {}, up)
  BY PutIs
<1>2. v = [f \in WriteFields |-> v[f]] /\ v.count \in Nat /\ v.writes \subseteq Txs \cup 1 .. v.count
  BY DEF Shape
<1>3. /\ r = [f \in WriteFields |-> r[f]]
      /\ r.count = p.count /\ r.held = p.held /\ r.queue = p.queue /\ r.tx = p.tx
      /\ r.told = p.told /\ r.raised = p.raised /\ r.puts = p.puts /\ r.wire = p.wire
      /\ r.writes = v.writes \cup {i}
  BY <1>2 DEF Setting, PutInternal, WriteFields
<1>4. r.writes \subseteq Txs \cup 1 .. i
  <2>1. i \in 1 .. i /\ 1 .. v.count \subseteq 1 .. i
    BY <1>2
  <2> QED
    BY <1>2, <1>3, <2>1
<1> HIDE DEF r, p
<1>5. Shape(p) /\ p.count = i
  BY <1>1 DEF Added
<1>6. Shape(r)
  <2> HIDE DEF i
  <2> QED
    BY <1>3, <1>4, <1>5 DEF Shape
<1>7. /\ r.held = v.held /\ r.queue = v.queue /\ r.tx = v.tx /\ r.told = v.told
      /\ r.raised = v.raised
      /\ DOMAIN r.puts = DOMAIN v.puts \cup {i} /\ i \notin DOMAIN v.puts
      /\ r.puts[i].txs = {} /\ r.puts[i].sent = up
      /\ \A j \in DOMAIN v.puts : r.puts[j] = v.puts[j]
      /\ r.wire = IF up THEN Append(v.wire, [put |-> i, txs |-> {}]) ELSE v.wire
  BY <1>1, <1>3 DEF Added
<1> QED
  BY <1>3, <1>5, <1>6, <1>7 DEF r

\* A set that is new.
LEMMA SettingSound ==
    ASSUME NEW v, NEW c, Sound(v, c), ~c.purging, v.count + 1 <= MaxWork
    PROVE  Sound(Setting(v, c.up), c)
<1> DEFINE r == Setting(v, c.up)
           i == v.count + 1
           none == {}
<1>0. /\ Shape(v) /\ c.up \in BOOLEAN /\ v.count \in Nat
      /\ SetsSound(v, c) /\ TxSound(v, c) /\ SentTogether(v, c) /\ SentInFront(v)
      /\ OrdersSound(v) /\ Delivered(v, c)
  BY SoundParts DEF Sound
<1>1. /\ Shape(r)
      /\ r.count = i /\ r.held = v.held
      /\ r.queue = v.queue /\ r.tx = v.tx /\ r.told = v.told
      /\ r.writes = v.writes \cup {i} /\ r.raised = v.raised
      /\ DOMAIN r.puts = DOMAIN v.puts \cup {i} /\ i \notin DOMAIN v.puts
      /\ r.puts[i].txs = none /\ r.puts[i].sent = c.up
      /\ \A j \in DOMAIN v.puts : r.puts[j] = v.puts[j]
      /\ r.wire = IF c.up THEN Append(v.wire, [put |-> i, txs |-> none]) ELSE v.wire
  BY <1>0, SettingIs
<1>2. none \in SUBSET Txs /\ \A x : x \notin none
  OBVIOUS
<1>3. i \in Nat /\ i \in 1 .. MaxWork /\ ~(i <= v.count) /\ MaxWork \in Nat
      /\ \A x \in Txs : x # i
  <2>1. Txs \cap Nat = {} /\ MaxWork \in Nat
    BY RepoAssumption
  <2>2. i \in Nat /\ ~(i <= v.count) /\ 1 <= i /\ i <= MaxWork
    BY <1>0
  <2> HIDE DEF i
  <2> QED
    BY <2>1, <2>2
<1>15. \A j \in Nat : j <= v.count => j <= i
  BY <1>0
<1> HIDE DEF r, none
<1>4. Adding(v, r, c, none)
  BY <1>1 DEF Adding
<1>5. /\ Apart(r, c) /\ WireSound(r, c)
      /\ \A x : x \notin none => (Unseen(r, c, x) <=> Unseen(v, c, x))
      /\ \A j \in Nat : Final(v, c, j) => Final(r, c, j)
      /\ \A x \in Txs : c.applied[x] = 1 => \A k \in DOMAIN r.wire : x \notin r.wire[k].txs
      /\ \A j \in DOMAIN r.puts : \A x \in r.puts[j].txs :
            IF r.puts[j].sent THEN c.up ELSE Unseen(r, c, x)
      /\ \A a \in c.hand : \A x \in a.txs : a.status = "datastale" => Unseen(r, c, x)
  BY <1>2, <1>4, AddSound
<1> HIDE DEF i
<1>6. SetsSound(r, c)
  <2>1. \A j \in DOMAIN r.puts : r.puts[j].txs = {} =>
            j \in 1 .. MaxWork /\ r.told[j] = "none" /\ (j \in r.writes \/ c.purging)
    <3>1. r.told[i] = "none"
      BY <1>0, <1>1, <1>3 DEF SetsSound
    <3>2. \A j \in DOMAIN v.puts : v.puts[j].txs = {} =>
            j \in 1 .. MaxWork /\ v.told[j] = "none" /\ (j \in v.writes \/ c.purging)
      BY <1>0 DEF SetsSound
    <3> QED
      BY <1>1, <1>3, <3>1, <3>2
  <2>2. \A a \in c.hand : a.txs = {} =>
           a.put \in 1 .. MaxWork /\ r.told[a.put] = "none" /\ (a.put \in r.writes \/ c.purging)
    BY <1>0, <1>1 DEF SetsSound
  <2>3. \A j \in r.writes \cap Nat :
           \/ j \in DOMAIN r.puts /\ r.puts[j].txs = {}
           \/ \E a \in c.hand : a.put = j /\ a.txs = {}
    <3> SUFFICES ASSUME NEW j \in r.writes \cap Nat
                 PROVE  \/ j \in DOMAIN r.puts /\ r.puts[j].txs = {}
                        \/ \E a \in c.hand : a.put = j /\ a.txs = {}
      OBVIOUS
    <3>1. CASE j = i
      BY <1>1, <3>1 DEF none
    <3>2. CASE j # i
      BY <1>0, <1>1, <3>2 DEF SetsSound
    <3> QED
      BY <3>1, <3>2
  <2>4. \A j \in 1 .. MaxWork : r.told[j] # "twice" /\ (r.told[j] # "none" => j <= r.count)
    BY <1>0, <1>1, <1>15 DEF SetsSound
  <2>5. \A a \in c.hand : a.status = "canceled" => c.purging
    BY <1>0 DEF SetsSound
  <2> QED
    BY <2>1, <2>2, <2>3, <2>4, <2>5 DEF SetsSound
<1>7. \A x : Carried(r, c, x) <=> Carried(v, c, x)
  BY <1>1, <1>2 DEF Carried
<1>8. TxSound(r, c)
  <2>1. \A x \in Txs : x \in r.writes <=> x \in v.writes
    BY <1>1, <1>3
  <2> QED
    BY <1>0, <1>1, <1>7, <2>1 DEF TxSound
<1>9. SentTogether(r, c)
  BY <1>0, <1>1, <1>2 DEF SentTogether
<1>10. SentInFront(r) /\ OrdersSound(r)
  BY <1>0, <1>1 DEF SentInFront, OrdersSound, Started
<1>11. Delivered(r, c)
  <2>1. \A x \in Txs :
           /\ c.applied[x] \in {0, 1}
           /\ r.tx[x].status \in {"none", "Run"} => Unseen(r, c, x)
           /\ r.told[x] = "ok" => c.applied[x] = 1
    BY <1>0, <1>1, <1>2, <1>5 DEF Delivered
  <2>2. \A a \in c.hand : \A x \in a.txs : a.status = "ok" => c.applied[x] = 1
    BY <1>0 DEF Delivered
  <2>3. /\ \A j \in 1 .. MaxWork : r.told[j] = "ok" => Final(r, c, j)
        /\ \A a \in c.hand : a.status = "ok" => Final(r, c, a.put)
    BY <1>0, <1>1, <1>5, SoundParts DEF Delivered
  <2> QED
    BY <1>5, <2>1, <2>2, <2>3 DEF Delivered
<1> QED
  BY <1>0, <1>1, <1>5, <1>6, <1>8, <1>9, <1>10, <1>11 DEF Sound, r

\* set:withNode:, with the transactions it aborts and the rerun.
LEMMA SetStep ==
    ASSUME NEW v, NEW up, NEW seen, NEW taken, Good(v, up, seen, taken), v.raised = "no",
           NEW goOn,
           LET r == RerunTransactions(AbortTransactions(Setting(v, up), "set"), goOn, up)
           IN  r.count + Cardinality(Started(r)) <= MaxWork
    PROVE  LET r == RerunTransactions(AbortTransactions(Setting(v, up), "set"), goOn, up)
           IN  Good(r, up, seen, taken) /\ r.raised = "no"
<1> DEFINE c == View(v, up, seen, taken)
           s == Setting(v, up)
           b == AbortTransactions(s, "set")
           r == RerunTransactions(b, goOn, up)
<1>1. Sound(v, c) /\ Shape(v) /\ up \in BOOLEAN /\ Clean(v) /\ v.count \in Nat
  BY GoodParts DEF Good, Shape
<1>2. c.up = up /\ ~c.purging /\ c \in Contexts
  BY GoodParts DEF View
<1> HIDE DEF c
<1>3. /\ Shape(s) /\ s.count = v.count + 1 /\ s.held = v.held /\ s.queue = v.queue
      /\ s.tx = v.tx /\ s.raised = v.raised
  BY <1>1, SettingIs, ZenonT(40)
<1> HIDE DEF s
<1>4. Aborts(s, b, "set")
  BY <1>3, AbortIs
<1> HIDE DEF b
<1>5. /\ Shape(b) /\ b.held = s.held /\ Aborting(s, b, "set")
      /\ b.writes = s.writes \ EndedNow(s)
      /\ b.raised = IF EndedNow(s) \subseteq s.writes THEN s.raised ELSE "ack"
      /\ b.count = s.count
  BY <1>4 DEF Aborts, Aborting
<1>6. Shape(r) /\ r.held = b.held /\ r.count >= b.count
  BY <1>1, <1>5, RerunShape
<1>7. v.count + 1 <= MaxWork
  <2>1. r.count + Cardinality(Started(r)) <= MaxWork
    BY DEF r, b, s
  <2>2. Cardinality(Started(r)) \in Nat
    BY MoreStarted
  <2>3. MaxWork \in Nat /\ r.count \in Nat /\ r.count >= v.count + 1
    BY <1>3, <1>5, <1>6, RepoAssumption DEF Shape
  <2> HIDE DEF r
  <2> QED
    BY <1>1, <2>1, <2>2, <2>3
<1>8. Sound(s, c)
  BY <1>1, <1>2, <1>7, SettingSound DEF s
<1>9. Clean(s)
  BY <1>1, <1>3 DEF Clean
<1>10. Sound(b, c)
  <2>1. "set" \in {"set", "canceled"} /\ c.purging = ("set" = "canceled")
    BY <1>2 DEF Contexts
  <2> QED
    BY <1>2, <1>5, <1>8, <1>9, <2>1, AbortSound
<1>11. b.raised = "no"
  <2>1. TxSound(s, c) /\ s.queue \subseteq Txs
    BY <1>8, SoundParts DEF Sound
  <2>2. EndedNow(s) \subseteq s.writes
    BY <1>9, <2>1 DEF EndedNow, Clean, TxSound
  <2> QED
    BY <1>3, <1>5, <2>2
<1>12. OldWrites(b) \subseteq b.writes
  BY <1>2, <1>10, NoneLost
<1>13. Sound(r, c) /\ Clean(r)
  BY <1>2, <1>10, <1>12, RerunSound
<1>14. r.held = v.held /\ r.raised = "no"
  BY <1>1, <1>3, <1>5, <1>6, <1>11, <1>12, RerunShape
<1> HIDE DEF r
<1> QED
  BY <1>13, <1>14, GoodParts, SameHand DEF c, r, b, s

-----------------------------------------------------------------------------
\* A transaction whose block aborts at once.
LEMMA RefuseStep ==
    ASSUME NEW v, NEW up, NEW seen, NEW taken, Good(v, up, seen, taken), v.raised = "no",
           NEW x \in Txs, v.tx[x].status = "none"
    PROVE  LET r == End(v, {x}, "error")
           IN  Good(r, up, seen, taken) /\ r.raised = "no"
<1> DEFINE c == View(v, up, seen, taken)
           r == End(v, {x}, "error")
           none == {}
<1>1. /\ Sound(v, c) /\ Shape(v) /\ Clean(v) /\ TxSound(v, c) /\ c \in Contexts
      /\ v.queue \subseteq Txs
  BY GoodParts DEF Good, Sound, Shape
<1>2. "error" \in Ends /\ "error" \in Ends \ {"none", "twice"} /\ "error" # "ok"
  BY DEF Ends
<1>3. TxDone(v, r, {x}, "error")
  BY <1>1, <1>2, EndIs
<1> HIDE DEF r, c
<1>4. /\ Shape(r)
      /\ r.puts = v.puts /\ r.count = v.count /\ r.wire = v.wire /\ r.held = v.held
      /\ r.queue = v.queue /\ r.writes = v.writes /\ r.raised = v.raised
      /\ \A y \in Txs : r.tx[y] = IF y \in {x} THEN [v.tx[y] EXCEPT !.status = "Completed"]
                                  ELSE v.tx[y]
      /\ ToldOf(v, r, {x}, "error")
  BY <1>3 DEF TxDone
<1>5. x \notin v.writes /\ x \notin v.queue /\ ~Carried(v, c, x)
  BY <1>1 DEF TxSound
<1>6. TxEnds(v, r, {x}, "error")
  <2>1. v.writes = v.writes \ {x} /\ v.queue \ v.queue = none
    BY <1>5
  <2> QED
    BY <1>4, <2>1 DEF TxEnds
<1>7. none \in SUBSET c.hand /\ c.hand \ none = c.hand /\ (\A a : a \notin none) /\ {x} \in SUBSET Txs
  OBVIOUS
<1> HIDE DEF none
<1>8. Hands(c, c, c.hand \ none)
  BY <1>1, <1>7 DEF Hands
<1>9. Sound(r, c)
  <2> DEFINE xs == {x}
  <2>1. \A y \in xs : v.tx[y].status # "Completed" /\ ~Carried(v, c, y)
    BY <1>5
  <2>2. xs \in SUBSET Txs /\ TxEnds(v, r, xs, "error")
    BY <1>6
  <2> HIDE DEF xs
  <2>3. \A a \in none : a.txs # {} /\ a.txs \subseteq xs
    BY <1>7
  <2>4. Shape(r) /\ Sound(v, c) /\ none \in SUBSET c.hand
    BY <1>1, <1>4, <1>7
  <2> QED
    BY <1>2, <1>8, <2>1, <2>2, <2>3, <2>4, EndSound
<1>10. Clean(r)
  BY <1>1, <1>4, <1>5 DEF Clean
<1> QED
  BY <1>4, <1>9, <1>10, GoodParts, SameHand DEF c, r

\* One that is added to the queue.
Starting(v, x) ==
    [v EXCEPT !.writes = @ \cup {x}, !.queue = @ \cup {x},
              !.tx[x].status = "Run", !.tx[x].order = Cardinality(Started(v)) + 1]

\* What a transaction adds before it is sent.
LEMMA StartingIs ==
    ASSUME NEW v, Shape(v), NEW x \in Txs
    PROVE  LET r == Starting(v, x)
           IN  /\ Shape(r)
               /\ r.puts = v.puts /\ r.count = v.count /\ r.wire = v.wire /\ r.held = v.held
               /\ r.told = v.told /\ r.raised = v.raised
               /\ r.writes = v.writes \cup {x} /\ r.queue = v.queue \cup {x}
               /\ \A y \in Txs : y # x => r.tx[y] = v.tx[y]
               /\ r.tx[x].status = "Run" /\ r.tx[x].order = Cardinality(Started(v)) + 1
               /\ r.tx[x].abort = v.tx[x].abort
<1> DEFINE r == Starting(v, x)
           n == Cardinality(Started(v)) + 1
           t == [v.tx[x] EXCEPT !.status = "Run", !.order = n]
           tx == [v.tx EXCEPT ![x] = t]
<1>1. /\ v = [f \in WriteFields |-> v[f]] /\ v.tx \in [Txs -> TxType] /\ v.tx[x] \in TxType
      /\ v.writes \subseteq Txs \cup 1 .. v.count /\ v.queue \subseteq Txs
  BY DEF Shape
<1>2. n \in Nat
  BY MoreStarted
<1>3. t \in TxType /\ t.status = "Run" /\ t.order = n /\ t.abort = v.tx[x].abort
  <2> HIDE DEF n
  <2> QED
    BY <1>1, <1>2 DEF TxType
<1>4. /\ r = [f \in WriteFields |-> r[f]]
      /\ r.puts = v.puts /\ r.count = v.count /\ r.wire = v.wire /\ r.held = v.held
      /\ r.told = v.told /\ r.raised = v.raised
      /\ r.writes = v.writes \cup {x} /\ r.queue = v.queue \cup {x}
      /\ r.tx = tx
  <2>1. r = [v EXCEPT !.writes = v.writes \cup {x}, !.queue = v.queue \cup {x}, !.tx = tx]
    <3> HIDE DEF n
    <3> QED
      BY <1>1 DEF Starting, WriteFields, n
  <2> HIDE DEF tx, r
  <2> QED
    BY <1>1, <2>1 DEF WriteFields
<1> HIDE DEF t
<1>5. tx \in [Txs -> TxType] /\ tx[x] = t /\ \A y \in Txs : y # x => tx[y] = v.tx[y]
  BY <1>1, <1>3
<1> HIDE DEF r, tx, n
<1>6. Shape(r)
  <2>1. r.writes \subseteq Txs \cup 1 .. v.count /\ r.queue \subseteq Txs
    BY <1>1, <1>4
  <2> QED
    BY <1>4, <1>5, <2>1 DEF Shape
<1> QED
  BY <1>3, <1>4, <1>5, <1>6 DEF r, n

\* A transaction that is new.
LEMMA StartingSound ==
    ASSUME NEW v, NEW c, Sound(v, c), ~c.purging, NEW x \in Txs, v.tx[x].status = "none"
    PROVE  Sound(Starting(v, x), c)
<1> DEFINE r == Starting(v, x)
           n == Cardinality(Started(v))
<1>0. /\ Shape(v) /\ Apart(v, c) /\ SetsSound(v, c) /\ TxSound(v, c) /\ SentTogether(v, c)
      /\ SentInFront(v) /\ OrdersSound(v) /\ Delivered(v, c) /\ WireSound(v, c)
      /\ v.queue \subseteq Txs /\ x \notin Nat /\ \A y \in Txs : v.tx[y] \in TxType
  BY SoundParts DEF Sound
<1>1. /\ Shape(r)
      /\ r.puts = v.puts /\ r.count = v.count /\ r.wire = v.wire
      /\ r.told = v.told
      /\ r.writes = v.writes \cup {x} /\ r.queue = v.queue \cup {x}
      /\ \A y \in Txs : y # x => r.tx[y] = v.tx[y]
      /\ r.tx[x].status = "Run" /\ r.tx[x].order = n + 1
      /\ r.tx[x].abort = v.tx[x].abort
  BY <1>0, StartingIs
<1>2. n \in Nat
  BY MoreStarted
<1> HIDE DEF r
<1>3. \A y \in Txs : v.tx[y].order \in Nat
  BY <1>0 DEF TxType
<1>4. Apart(r, c)
  BY <1>0, <1>1 DEF Apart
<1>5. SetsSound(r, c)
  <2>1. \A i \in r.writes \cap Nat : i \in v.writes \cap Nat
    BY <1>0, <1>1
  <2>2. \A i \in v.writes : i \in r.writes
    BY <1>1
  <2>3. \A i \in DOMAIN r.puts : r.puts[i].txs = {} =>
           i \in 1 .. MaxWork /\ r.told[i] = "none" /\ (i \in r.writes \/ c.purging)
    BY <1>0, <1>1, <2>2 DEF SetsSound
  <2>4. \A a \in c.hand : a.txs = {} =>
           a.put \in 1 .. MaxWork /\ r.told[a.put] = "none" /\ (a.put \in r.writes \/ c.purging)
    BY <1>0, <1>1, <2>2 DEF SetsSound
  <2>5. \A i \in r.writes \cap Nat :
           \/ i \in DOMAIN r.puts /\ r.puts[i].txs = {}
           \/ \E a \in c.hand : a.put = i /\ a.txs = {}
    BY <1>0, <1>1, <2>1 DEF SetsSound
  <2>6. /\ \A i \in 1 .. MaxWork : r.told[i] # "twice" /\ (r.told[i] # "none" => i <= r.count)
        /\ \A a \in c.hand : a.status = "canceled" => c.purging
    BY <1>0, <1>1 DEF SetsSound
  <2> QED
    BY <2>3, <2>4, <2>5, <2>6 DEF SetsSound
<1>6. \A y : Carried(r, c, y) <=> Carried(v, c, y)
  BY <1>1 DEF Carried
<1>7. TxSound(r, c)
  <2> SUFFICES ASSUME NEW y \in Txs
               PROVE  /\ Carried(r, c, y) <=> r.tx[y].status \in {"Sent", "SentNeedsAbort"}
                      /\ r.tx[y].status \in {"Run", "Sent"} => y \in r.queue /\ y \in r.writes
                      /\ r.tx[y].status = "SentNeedsAbort" =>
                             c.purging \/ (y \in r.writes /\ r.tx[y].abort # "canceled")
                      /\ r.tx[y].status = "NeedsAbort" /\ y \in r.queue =>
                             c.purging \/ (y \in r.writes /\ r.tx[y].abort # "canceled")
                      /\ r.tx[y].status \in {"none", "Completed"} => y \notin r.writes
                      /\ r.tx[y].status = "none" => y \notin r.queue
                      /\ r.told[y] # "none" <=> r.tx[y].status = "Completed"
                      /\ r.told[y] # "twice"
    BY DEF TxSound
  <2>1. CASE y = x
    BY <1>0, <1>1, <1>6, <2>1 DEF TxSound
  <2>2. CASE y # x
    BY <1>0, <1>1, <1>6, <2>2 DEF TxSound
  <2> QED
    BY <2>1, <2>2
<1>8. SentTogether(r, c)
  <2>1. \A y \in Txs : r.tx[y].status = "Sent" => v.tx[y].status = "Sent"
    BY <1>1
  <2>2. \A i \in DOMAIN v.puts : v.puts[i].txs \subseteq Txs
    BY SoundParts
  <2>3. \A a \in c.hand : a.txs \subseteq Txs
    BY SoundParts
  <2>4. ASSUME NEW i \in DOMAIN r.puts, NEW y \in r.puts[i].txs, NEW z \in Txs,
               r.tx[y].status = "Sent" /\ r.tx[z].status = "Sent"
        PROVE  z \in r.puts[i].txs
    BY <1>0, <1>1, <2>1, <2>2, <2>4 DEF SentTogether
  <2>5. ASSUME NEW a \in c.hand, NEW y \in a.txs, NEW z \in Txs,
               r.tx[y].status = "Sent" /\ r.tx[z].status = "Sent"
        PROVE  z \in a.txs
    BY <1>0, <2>1, <2>3, <2>5 DEF SentTogether
  <2> QED
    BY <2>4, <2>5 DEF SentTogether
<1>9. SentInFront(r)
  <2> SUFFICES ASSUME NEW y \in r.queue, NEW z \in r.queue, r.tx[y].status = "Sent",
                      r.tx[z].order <= r.tx[y].order
               PROVE  r.tx[z].status = "Sent"
    BY DEF SentInFront
  <2>1. y # x /\ y \in v.queue /\ y \in Txs /\ r.tx[y] = v.tx[y]
    BY <1>0, <1>1
  <2>2. v.tx[y].order \in Nat /\ v.tx[y].order <= n
    BY <1>0, <1>3, <2>1 DEF OrdersSound
  <2>3. z # x
    BY <1>1, <1>2, <2>1, <2>2
  <2> QED
    BY <1>0, <1>1, <2>1, <2>3 DEF SentInFront
<1>10. OrdersSound(r)
  <2>1. x \notin Started(v)
    BY DEF Started
  <2>2. Started(r) = Started(v) \cup {x}
    BY <1>1 DEF Started
  <2>3. IsFiniteSet(Started(v))
    <3>1. Started(v) \in SUBSET Txs
      BY DEF Started
    <3> QED
      BY <3>1, RepoAssumption, FS_Subset
  <2>4. Cardinality(Started(r)) = n + 1
    BY <2>1, <2>2, <2>3, FS_AddElement
  <2>5. \A y \in Txs : y # x => r.tx[y].order \in Nat /\ r.tx[y].order <= n
    BY <1>0, <1>1, <1>3 DEF OrdersSound
  <2> HIDE DEF n
  <2>6. \A y \in Txs : r.tx[y].order <= n + 1
    <3> SUFFICES ASSUME NEW y \in Txs PROVE r.tx[y].order <= n + 1
      OBVIOUS
    <3>1. CASE y = x
      BY <1>1, <1>2, <3>1
    <3>2. CASE y # x
      BY <1>2, <2>5, <3>2
    <3> QED
      BY <3>1, <3>2
  <2> QED
    BY <2>4, <2>6 DEF OrdersSound
<1>11. WireSound(r, c)
  BY <1>0, <1>1 DEF WireSound
<1>12. Delivered(r, c)
  <2>1. \A y : Unseen(r, c, y) <=> Unseen(v, c, y)
    BY <1>1 DEF Unseen
  <2>2. \A i : Final(r, c, i) <=> Final(v, c, i)
    BY <1>1 DEF Final
  <2>3. \A y \in Txs : r.tx[y].status \in {"none", "Run"} => Unseen(r, c, y)
    BY <1>0, <1>1, <2>1 DEF Delivered
  <2> QED
    BY <1>0, <1>1, <2>1, <2>2, <2>3 DEF Delivered
<1> QED
  BY <1>0, <1>1, <1>4, <1>5, <1>7, <1>8, <1>9, <1>10, <1>11, <1>12 DEF Sound, r

\* startTransactionOnPath:.
LEMMA StartStep ==
    ASSUME NEW v, NEW up, NEW seen, NEW taken, Good(v, up, seen, taken), v.raised = "no",
           NEW x \in Txs, v.tx[x].status = "none"
    PROVE  LET r == SendAllReady(Starting(v, x), up)
           IN  Good(r, up, seen, taken) /\ r.raised = "no"
<1> DEFINE c == View(v, up, seen, taken)
           s == Starting(v, x)
           r == SendAllReady(s, up)
<1>1. /\ Sound(v, c) /\ Shape(v) /\ Clean(v) /\ up \in BOOLEAN /\ v.queue \subseteq Txs
  BY GoodParts DEF Good, Shape
<1>2. c.up = up /\ ~c.purging
  BY DEF View
<1> HIDE DEF c
<1>3. /\ Shape(s) /\ s.held = v.held /\ s.raised = v.raised /\ s.queue = v.queue \cup {x}
      /\ \A y \in Txs : y # x => s.tx[y] = v.tx[y]
      /\ s.tx[x].status = "Run"
  BY <1>1, StartingIs
<1>4. Sound(s, c)
  BY <1>1, <1>2, StartingSound
<1> HIDE DEF s
<1>5. \A y \in s.queue : s.tx[y].status # "NeedsAbort"
  BY <1>1, <1>3 DEF Clean
<1>6. Swept(s, r, up)
  BY <1>1, <1>3, SweepIs
<1> HIDE DEF r
<1>7. Sound(r, c) /\ Clean(r)
  BY <1>2, <1>4, <1>5, <1>6, SendSound
<1>8. r.held = v.held /\ r.raised = "no"
  BY <1>3, <1>6, SweepShape
<1> QED
  BY <1>7, <1>8, GoodParts, SameHand DEF c, r, s

\* The answers that are held are answers.
LEMMA HeldIs ==
    ASSUME NEW v, Shape(v), NEW held \in Seq(Answer)
    PROVE  LET r == [v EXCEPT !.held = held]
           IN  /\ Shape(r) /\ r.held = held
               /\ r.puts = v.puts /\ r.count = v.count /\ r.wire = v.wire /\ r.writes = v.writes
               /\ r.queue = v.queue /\ r.tx = v.tx /\ r.told = v.told /\ r.raised = v.raised
<1> DEFINE r == [v EXCEPT !.held = held]
<1>1. v = [f \in WriteFields |-> v[f]]
  BY DEF Shape
<1>2. /\ r = [f \in WriteFields |-> r[f]] /\ r.held = held
      /\ r.puts = v.puts /\ r.count = v.count /\ r.wire = v.wire /\ r.writes = v.writes
      /\ r.queue = v.queue /\ r.tx = v.tx /\ r.told = v.told /\ r.raised = v.raised
  BY <1>1 DEF WriteFields
<1> HIDE DEF r
<1>3. Shape(r)
  BY <1>2 DEF Shape
<1> QED
  BY <1>2, <1>3 DEF r

\* What the report of an exception changes.
LEMMA RaiseIs ==
    ASSUME NEW v, Shape(v), NEW raised
    PROVE  LET r == [v EXCEPT !.raised = raised]
           IN  /\ Shape(r) /\ r.raised = raised /\ r.held = v.held
               /\ r.puts = v.puts /\ r.count = v.count /\ r.wire = v.wire /\ r.writes = v.writes
               /\ r.queue = v.queue /\ r.tx = v.tx /\ r.told = v.told
<1> DEFINE r == [v EXCEPT !.raised = raised]
<1>1. v = [f \in WriteFields |-> v[f]]
  BY DEF Shape
<1>2. /\ r = [f \in WriteFields |-> r[f]] /\ r.held = v.held /\ r.raised = raised
      /\ r.puts = v.puts /\ r.count = v.count /\ r.wire = v.wire /\ r.writes = v.writes
      /\ r.queue = v.queue /\ r.tx = v.tx /\ r.told = v.told
  BY <1>1 DEF WriteFields
<1> HIDE DEF r
<1>3. Shape(r)
  BY <1>2 DEF Shape
<1> QED
  BY <1>2, <1>3 DEF r

\* An exception is reported over writes that are left as they were.
LEMMA RaiseStep ==
    ASSUME NEW v, NEW up, NEW seen, NEW taken, Good(v, up, seen, taken), NEW raised
    PROVE  LET r == [v EXCEPT !.raised = raised]
           IN  Good(r, up, seen, taken) /\ r.raised = raised
<1> DEFINE c == View(v, up, seen, taken)
           r == [v EXCEPT !.raised = raised]
<1>1. Sound(v, c) /\ Shape(v) /\ Clean(v)
  BY GoodParts DEF Good
<1>2. /\ Shape(r) /\ r.raised = raised /\ r.held = v.held
      /\ r.puts = v.puts /\ r.count = v.count /\ r.wire = v.wire /\ r.writes = v.writes
      /\ r.queue = v.queue /\ r.tx = v.tx /\ r.told = v.told
  BY <1>1, RaiseIs
<1> HIDE DEF c, r
<1>3. Sound(r, c) /\ Clean(r)
  BY <1>1, <1>2, SameSound
<1> QED
  BY <1>2, <1>3, GoodParts, SameHand DEF c, r

\* No answers are held.
LEMMA NoneHeld ==
    /\ <<>> \in Seq(Answer) /\ DOMAIN <<>> = {}
    /\ \A v : v.held = <<>> => Held(v) = {} /\ HeldApart(v)
<1>1. <<>> \in Seq(Answer) /\ DOMAIN <<>> = {}
  BY EmptySeq
<1> QED
  BY <1>1 DEF Held, HeldApart

\* ackPuts, with the answers that are held.
AckedAll(v, c, d, r) ==
    /\ Shape(r) /\ r.held = <<>> /\ r.count >= v.count /\ r.raised \in {"no", "ack"}
    /\ r.raised = "no" => Sound(r, d) /\ Clean(r)
    /\ ~c.purging \/ v.held = <<>> => r.raised = "no"

\* ackPuts calls the callbacks of the held answers. Only a purge, which has emptied
\* FWriteTree, lets one raise.
LEMMA AckSound ==
    ASSUME NEW v, NEW c, Sound(v, c), Clean(v), v.raised = "no", HeldApart(v), c.hand = Held(v),
           NEW d, Hands(c, d, {}), NEW goOn, NEW events
    PROVE  AckedAll(v, c, d, AckPuts(v, goOn, events, c.up))
<1> DEFINE q == Callbacks(v, v.held, goOn, events, c.up)
           r == AckPuts(v, goOn, events, c.up)
           answers == v.held
<1>1. answers \in Seq(Answer) /\ Shape(v)
  BY DEF Sound, Shape
<1>2. \A k \in DOMAIN answers : answers[k] \in c.hand
  BY DEF Held
<1>3. \A j, k \in DOMAIN answers : j # k => answers[j] # answers[k]
  BY DEF HeldApart
<1>4. Hands(c, d, c.hand \ {answers[k] : k \in DOMAIN answers})
  <2>1. c.hand \ {answers[k] : k \in DOMAIN answers} = {}
    BY DEF Held
  <2> QED
    BY <2>1
<1>5. v.held = <<>> => \A k \in DOMAIN answers : FALSE
  BY NoneHeld
<1> HIDE DEF answers
<1>6. AllAnswered(v, c, answers, d, Callbacks(v, answers, goOn, events, c.up))
  BY <1>1, <1>2, <1>3, <1>4, CallbacksSound
<1>7. r = [q EXCEPT !.held = <<>>] /\ q = Callbacks(v, answers, goOn, events, c.up)
  BY DEF AckPuts, answers
<1> HIDE DEF q, r
<1>8. /\ Shape(q) /\ q.count >= v.count /\ q.raised \in {"no", "ack"}
      /\ q.raised = "no" => Sound(q, d) /\ Clean(q)
      /\ ~c.purging \/ v.held = <<>> => q.raised = "no"
  BY <1>5, <1>6, <1>7 DEF AllAnswered, Follows
<1>9. /\ Shape(r) /\ r.held = <<>>
      /\ r.puts = q.puts /\ r.count = q.count /\ r.wire = q.wire /\ r.writes = q.writes
      /\ r.queue = q.queue /\ r.tx = q.tx /\ r.told = q.told /\ r.raised = q.raised
  <2> DEFINE held == <<>>
             s == [q EXCEPT !.held = held]
  <2>1. held \in Seq(Answer) /\ r = s
    BY <1>7, NoneHeld
  <2> HIDE DEF held
  <2>2. /\ Shape(s) /\ s.held = held
        /\ s.puts = q.puts /\ s.count = q.count /\ s.wire = q.wire /\ s.writes = q.writes
        /\ s.queue = q.queue /\ s.tx = q.tx /\ s.told = q.told /\ s.raised = q.raised
    BY <1>8, <2>1, HeldIs
  <2> HIDE DEF s
  <2> QED
    BY <2>1, <2>2 DEF held
<1>10. r.raised = "no" => Sound(r, d) /\ Clean(r)
  BY <1>8, <1>9, SameSound
<1> QED
  BY <1>8, <1>9, <1>10 DEF AckedAll, r

\* ackPuts, of the last listen that is answered.
LEMMA AckStep ==
    ASSUME NEW v, NEW up, NEW seen, NEW taken, Good(v, up, seen, taken), v.raised = "no",
           NEW goOn, NEW events
    PROVE  LET r == AckPuts(v, goOn, events, up)
           IN  Good(r, up, seen, taken) /\ r.raised = "no"
<1> DEFINE c == View(v, up, seen, taken)
           r == AckPuts(v, goOn, events, up)
           d == [hand |-> {}, up |-> up, purging |-> FALSE, last |-> seen, applied |-> taken]
<1>1. /\ Sound(v, c) /\ Shape(v) /\ Clean(v) /\ HeldApart(v)
      /\ up \in BOOLEAN /\ seen \in Nat /\ taken \in [Txs -> Nat]
  BY GoodParts DEF Good
<1>2. /\ c.hand = Held(v) /\ c.up = up /\ c.purging = FALSE /\ c.last = seen /\ c.applied = taken
  BY DEF View
<1> HIDE DEF c
<1>3. Hands(c, d, {})
  <2>1. d \in Contexts
    BY <1>1 DEF Contexts
  <2> QED
    BY <1>2, <2>1 DEF Hands
<1> HIDE DEF d
<1>4. AckedAll(v, c, d, AckPuts(v, goOn, events, c.up))
  BY <1>1, <1>2, <1>3, AckSound
<1> HIDE DEF r
<1>5. Sound(r, d) /\ Clean(r) /\ r.held = <<>> /\ r.raised = "no"
  BY <1>2, <1>4 DEF AckedAll, r
<1>6. View(r, up, seen, taken) = d /\ HeldApart(r)
  BY <1>5, NoneHeld DEF View, d
<1> QED
  BY <1>5, <1>6 DEF Good, r

-----------------------------------------------------------------------------
(* The answer of a put. *)
HeardOf(v) == [v EXCEPT !.wire = Tail(@)]
ForgotOf(v) == RemovePuts(HeardOf(v), {Head(v.wire).put})
AnswerOf(v, status) ==
    [put |-> Head(v.wire).put, txs |-> Head(v.wire).txs, status |-> status]

\* What the arrival of an answer changes.
LEMMA HeardIs ==
    ASSUME NEW v, Shape(v), v.wire # <<>>
    PROVE  LET h == HeardOf(v)
               r == ForgotOf(v)
           IN  /\ Shape(h) /\ h.puts = v.puts /\ h.count = v.count /\ h.wire = Tail(v.wire)
               /\ h.held = v.held /\ h.writes = v.writes
               /\ h.queue = v.queue /\ h.tx = v.tx /\ h.told = v.told /\ h.raised = v.raised
               /\ Shape(r) /\ r.count = v.count /\ r.wire = Tail(v.wire)
               /\ r.held = v.held /\ r.writes = v.writes
               /\ r.queue = v.queue /\ r.tx = v.tx /\ r.told = v.told /\ r.raised = v.raised
               /\ DOMAIN r.puts = DOMAIN v.puts \ {Head(v.wire).put}
               /\ \A i \in DOMAIN r.puts : r.puts[i] = v.puts[i]
<1> DEFINE h == HeardOf(v)
           r == ForgotOf(v)
           put == Head(v.wire).put
<1>1. v = [f \in WriteFields |-> v[f]] /\ v.wire \in Seq(Request)
  BY DEF Shape
<1>2. Tail(v.wire) \in Seq(Request)
  BY <1>1, HeadTailProperties
<1>3. /\ h = [f \in WriteFields |-> h[f]] /\ h.puts = v.puts /\ h.count = v.count
      /\ h.wire = Tail(v.wire) /\ h.held = v.held /\ h.writes = v.writes
      /\ h.queue = v.queue /\ h.tx = v.tx /\ h.told = v.told /\ h.raised = v.raised
  BY <1>1 DEF WriteFields, HeardOf
<1> HIDE DEF h, put
<1>4. Shape(h)
  BY <1>2, <1>3 DEF Shape
<1>5. Removed(h, r, {put})
  BY <1>4, RemoveIs DEF ForgotOf, h, put
<1> HIDE DEF r
<1>6. /\ Shape(r) /\ r.count = v.count /\ r.wire = Tail(v.wire)
      /\ r.held = v.held /\ r.writes = v.writes
      /\ r.queue = v.queue /\ r.tx = v.tx /\ r.told = v.told /\ r.raised = v.raised
      /\ DOMAIN r.puts = DOMAIN v.puts \ {put}
      /\ \A i \in DOMAIN r.puts : r.puts[i] = v.puts[i]
  BY <1>3, <1>5 DEF Removed
<1> QED
  BY <1>3, <1>4, <1>6 DEF h, r, put

\* What the server has after an answer of this status.
LastAfter(v, seen, status) == IF status = "ok" THEN Head(v.wire).put ELSE seen
AppliedAfter(v, taken, status) ==
    [x \in Txs |-> IF status = "ok" /\ x \in Head(v.wire).txs THEN taken[x] + 1 ELSE taken[x]]

\* The answer and the server after it are of their kinds.
LEMMA HeadIs ==
    ASSUME NEW v, Shape(v), v.wire # <<>>, NEW seen \in Nat, NEW taken \in [Txs -> Nat],
           NEW status \in {"ok", "denied", "datastale"}
    PROVE  /\ Head(v.wire) \in Request /\ AnswerOf(v, status) \in Answer
           /\ LastAfter(v, seen, status) \in Nat
           /\ AppliedAfter(v, taken, status) \in [Txs -> Nat]
<1>1. v.wire \in Seq(Request)
  BY DEF Shape
<1>2. Head(v.wire) \in Request
  BY <1>1, HeadTailProperties
<1>3. Head(v.wire).put \in Nat /\ Head(v.wire).txs \in SUBSET Txs
  BY <1>2 DEF Request
<1>4. status \in Statuses
  BY DEF Statuses
<1>5. AnswerOf(v, status) \in Answer
  BY <1>3, <1>4 DEF AnswerOf, Answer
<1> QED
  BY <1>2, <1>3, <1>5 DEF LastAfter, AppliedAfter

\* An answer nobody waits for.
LEMMA UnaskedStep ==
    ASSUME NEW v, NEW up, NEW seen, NEW taken, Good(v, up, seen, taken), v.raised = "no",
           v.wire # <<>>, NEW status \in {"ok", "denied", "datastale"},
           Head(v.wire).put \notin DOMAIN v.puts
    PROVE  /\ Good(HeardOf(v), up, LastAfter(v, seen, status), AppliedAfter(v, taken, status))
           /\ HeardOf(v).raised = "no"
<1> DEFINE c == View(v, up, seen, taken)
           last1 == LastAfter(v, seen, status)
           applied1 == AppliedAfter(v, taken, status)
           d == View(v, up, last1, applied1)
           r == HeardOf(v)
<1>1. /\ Sound(v, c) /\ Shape(v) /\ Clean(v) /\ HeldApart(v)
      /\ up \in BOOLEAN /\ seen \in Nat /\ taken \in [Txs -> Nat]
  BY GoodParts DEF Good
<1>2. /\ Shape(r) /\ r.puts = v.puts /\ r.count = v.count /\ r.wire = Tail(v.wire)
      /\ r.held = v.held /\ r.writes = v.writes
      /\ r.queue = v.queue /\ r.tx = v.tx /\ r.told = v.told /\ r.raised = v.raised
  BY <1>1, HeardIs
<1> HIDE DEF r
<1>3. d \in Contexts
  BY <1>1, HeadIs, ViewIn
<1>4. /\ c.hand = d.hand /\ d.up = c.up /\ d.purging = c.purging
      /\ d.last = IF status = "ok" THEN Head(v.wire).put ELSE c.last
      /\ \A x \in Txs : d.applied[x] = IF status = "ok" /\ x \in Head(v.wire).txs
                                         THEN c.applied[x] + 1 ELSE c.applied[x]
  BY DEF View, LastAfter, AppliedAfter
<1> HIDE DEF c, d, last1, applied1
<1>5. Heard(v, r, c, d, status)
  <2>1. Took(v, c, d, Head(v.wire), status)
    BY <1>4 DEF Took
  <2>2. DOMAIN r.puts = DOMAIN v.puts \ {Head(v.wire).put}
    BY <1>2
  <2> QED
    BY <1>2, <1>4, <2>1, <2>2 DEF Heard
<1>6. Sound(r, d)
  BY <1>1, <1>2, <1>3, <1>5, HeardSound
<1>7. Clean(r)
  BY <1>1, <1>2 DEF Clean
<1> QED
  BY <1>1, <1>2, <1>6, <1>7, SameHand DEF d, r, last1, applied1

\* One that is taken: before its callback it is in the hand.
LEMMA ForgotSound ==
    ASSUME NEW v, NEW up, NEW seen, NEW taken, Good(v, up, seen, taken),
           v.wire # <<>>, NEW status \in {"ok", "denied", "datastale"},
           Head(v.wire).put \in DOMAIN v.puts,
           NEW d, d = [hand |-> Held(v) \cup {AnswerOf(v, status)}, up |-> up, purging |-> FALSE,
                       last |-> LastAfter(v, seen, status),
                       applied |-> AppliedAfter(v, taken, status)]
    PROVE  /\ Sound(ForgotOf(v), d) /\ d \in Contexts
           /\ \A a \in Held(v) : a.put # AnswerOf(v, status).put
<1> DEFINE c == View(v, up, seen, taken)
           r == ForgotOf(v)
<1>1. /\ Sound(v, c) /\ Shape(v) /\ Clean(v) /\ Held(v) \in SUBSET Answer
      /\ up \in BOOLEAN /\ seen \in Nat /\ taken \in [Txs -> Nat]
  BY GoodParts DEF Good
<1>2. /\ Shape(r) /\ r.count = v.count /\ r.wire = Tail(v.wire) /\ r.writes = v.writes
      /\ r.queue = v.queue /\ r.tx = v.tx /\ r.told = v.told
      /\ DOMAIN r.puts = DOMAIN v.puts \ {Head(v.wire).put}
      /\ \A i \in DOMAIN r.puts : r.puts[i] = v.puts[i]
  BY <1>1, HeardIs
<1> HIDE DEF r
<1>3. AnswerOf(v, status) \in Answer
  BY <1>1, HeadIs
<1>4. d \in Contexts
  <2>1. LastAfter(v, seen, status) \in Nat /\ AppliedAfter(v, taken, status) \in [Txs -> Nat]
    BY <1>1, HeadIs
  <2> QED
    BY <1>1, <1>3, <2>1 DEF Contexts
<1>5. /\ d.hand = c.hand \cup {AnswerOf(v, status)} /\ d.up = c.up /\ d.purging = c.purging
      /\ d.last = IF status = "ok" THEN Head(v.wire).put ELSE c.last
      /\ \A x \in Txs : d.applied[x] = IF status = "ok" /\ x \in Head(v.wire).txs
                                         THEN c.applied[x] + 1 ELSE c.applied[x]
      /\ c.hand = Held(v)
  BY DEF View, LastAfter, AppliedAfter
<1> HIDE DEF c
<1>6. Heard(v, r, c, d, status)
  <2>1. Took(v, c, d, Head(v.wire), status)
    BY <1>5 DEF Took
  <2> QED
    BY <1>2, <1>5, <2>1 DEF Heard, AnswerOf
<1>7. Sound(r, d)
  BY <1>1, <1>2, <1>4, <1>6, HeardSound
<1>8. \A a \in Held(v) : a.put # AnswerOf(v, status).put
  BY <1>1, <1>5 DEF Sound, Apart, AnswerOf
<1> QED
  BY <1>4, <1>7, <1>8 DEF r

\* The answer of a put, called at once.
LEMMA AnswerStep ==
    ASSUME NEW v, NEW up, NEW seen, NEW taken, Good(v, up, seen, taken), v.raised = "no",
           v.wire # <<>>, NEW status \in {"ok", "denied", "datastale"},
           Head(v.wire).put \in DOMAIN v.puts, NEW goOn, NEW events
    PROVE  LET r == Callback(ForgotOf(v), AnswerOf(v, status), goOn, events, up)
           IN  /\ Good(r, up, LastAfter(v, seen, status), AppliedAfter(v, taken, status))
               /\ r.raised = "no"
<1> DEFINE a == AnswerOf(v, status)
           last1 == LastAfter(v, seen, status)
           applied1 == AppliedAfter(v, taken, status)
           c == [hand |-> Held(v) \cup {a}, up |-> up, purging |-> FALSE,
                 last |-> last1, applied |-> applied1]
           d == View(v, up, last1, applied1)
           f == ForgotOf(v)
           r == Callback(f, a, goOn, events, up)
<1>1. /\ Shape(v) /\ Clean(v) /\ HeldApart(v)
      /\ up \in BOOLEAN /\ seen \in Nat /\ taken \in [Txs -> Nat]
  BY GoodParts
<1>2. /\ Shape(f) /\ f.held = v.held /\ f.queue = v.queue /\ f.tx = v.tx /\ f.raised = "no"
  BY <1>1, HeardIs
<1>3. Sound(f, c) /\ \A b \in Held(v) : b.put # a.put
  BY ForgotSound
<1>4. d \in Contexts /\ a \in Answer
  BY <1>1, HeadIs, ViewIn
<1>5. /\ a \in c.hand /\ c.hand = Held(v) \cup {a} /\ c.up = up /\ c.purging = FALSE
      /\ d.hand = Held(v) /\ d.up = up /\ d.purging = FALSE /\ d.last = c.last
      /\ d.applied = c.applied
  BY DEF View
<1> HIDE DEF a, c, d, f, r, last1, applied1
<1>6. Hands(c, d, c.hand \ {a})
  <2>1. c.hand \ {a} = Held(v)
    BY <1>3, <1>5
  <2> QED
    BY <1>4, <1>5, <2>1 DEF Hands
<1>7. Clean(f)
  BY <1>1, <1>2 DEF Clean
<1>8. Answered(f, c, a, d, Callback(f, a, goOn, events, c.up))
  BY <1>2, <1>3, <1>5, <1>6, <1>7, CallbackSound
<1>9. Sound(r, d) /\ Clean(r) /\ r.raised = "no"
  BY <1>5, <1>8 DEF Answered, r
<1>10. r.held = v.held
  BY <1>1, <1>2, <1>4, CallbackShape DEF r
<1> QED
  BY <1>1, <1>9, <1>10, SameHand DEF a, d, f, r, last1, applied1

\* The answer of a put, held for a listen.
LEMMA HoldStep ==
    ASSUME NEW v, NEW up, NEW seen, NEW taken, Good(v, up, seen, taken), v.raised = "no",
           v.wire # <<>>, NEW status \in {"ok", "denied", "datastale"},
           Head(v.wire).put \in DOMAIN v.puts
    PROVE  LET r == [ForgotOf(v) EXCEPT !.held = Append(@, AnswerOf(v, status))]
           IN  /\ Good(r, up, LastAfter(v, seen, status), AppliedAfter(v, taken, status))
               /\ r.raised = "no"
<1> DEFINE a == AnswerOf(v, status)
           last1 == LastAfter(v, seen, status)
           applied1 == AppliedAfter(v, taken, status)
           c == [hand |-> Held(v) \cup {a}, up |-> up, purging |-> FALSE,
                 last |-> last1, applied |-> applied1]
           f == ForgotOf(v)
           held == Append(v.held, a)
           r == [f EXCEPT !.held = held]
<1>1. /\ Shape(v) /\ Clean(v) /\ HeldApart(v) /\ v.held \in Seq(Answer)
      /\ up \in BOOLEAN /\ seen \in Nat /\ taken \in [Txs -> Nat]
  BY GoodParts
<1>2. /\ Shape(f) /\ f.held = v.held /\ f.queue = v.queue /\ f.tx = v.tx /\ f.raised = "no"
  BY <1>1, HeardIs
<1>3. Sound(f, c) /\ \A b \in Held(v) : b.put # a.put
  BY ForgotSound
<1>4. a \in Answer
  BY <1>1, HeadIs
<1> HIDE DEF a
<1>5. /\ held \in Seq(Answer)
      /\ \A k \in DOMAIN v.held : k \in DOMAIN held /\ held[k] = v.held[k]
      /\ \A k \in DOMAIN held : k \in DOMAIN v.held \/ k = Len(v.held) + 1
      /\ Len(v.held) + 1 \in DOMAIN held /\ held[Len(v.held) + 1] = a
  BY <1>1, <1>4
<1>6. [f EXCEPT !.held = Append(@, a)] = r
  BY <1>2
<1> HIDE DEF c, f, held, last1, applied1
<1>7. /\ Shape(r) /\ r.held = held
      /\ r.puts = f.puts /\ r.count = f.count /\ r.wire = f.wire /\ r.writes = f.writes
      /\ r.queue = f.queue /\ r.tx = f.tx /\ r.told = f.told /\ r.raised = f.raised
  BY <1>2, <1>5, HeldIs
<1> HIDE DEF r
<1>8. Clean(f)
  BY <1>1, <1>2 DEF Clean
<1>9. Sound(r, c) /\ Clean(r)
  BY <1>3, <1>7, <1>8, SameSound
<1>10. Held(r) = Held(v) \cup {a}
  BY <1>5, <1>7 DEF Held
<1>11. HeldApart(r)
  <2>1. \A k \in DOMAIN v.held : v.held[k] \in Held(v)
    BY DEF Held
  <2> SUFFICES ASSUME NEW j \in DOMAIN held, NEW k \in DOMAIN held, j # k
               PROVE  held[j].put # held[k].put
    BY <1>7 DEF HeldApart
  <2>2. CASE j \in DOMAIN v.held /\ k \in DOMAIN v.held
    BY <1>1, <1>5, <2>2 DEF HeldApart
  <2>3. CASE j \in DOMAIN v.held /\ k \notin DOMAIN v.held
    BY <1>3, <1>5, <2>1, <2>3
  <2>4. CASE j \notin DOMAIN v.held /\ k \in DOMAIN v.held
    BY <1>3, <1>5, <2>1, <2>4
  <2> QED
    BY <1>5, <2>2, <2>3, <2>4
<1>12. View(r, up, last1, applied1) = c
  BY <1>10 DEF View, c
<1>13. Good(r, up, last1, applied1) /\ r.raised = "no"
  BY <1>2, <1>7, <1>9, <1>11, <1>12 DEF Good
<1> QED
  BY <1>6, <1>13 DEF a, f, last1, applied1

\* The answers as the set that joins the hand.
Answers(s) == {s[k] : k \in DOMAIN s}

Ending(v, r, c, d, S, s, status) ==
    /\ Moved(v, r, c, d, S, Answers(s)) /\ s \in Seq(Answer)
    /\ \A k \in DOMAIN s : s[k].status = status
    /\ \A j, k \in DOMAIN s : j # k => s[j] # s[k]
    /\ Answers(s) \in SUBSET Answer
    /\ \A a \in Answers(s) : a.put \in S /\ a.status = status

\* Puts that end without the server become answers to come.
LEMMA EndsMoved ==
    ASSUME NEW v, Shape(v), NEW S \in SUBSET DOMAIN v.puts, NEW order, Lists(order, S),
           NEW status \in Statuses, NEW c, status = "canceled" => c.purging,
           NEW r, Removed(v, r, S), NEW s, s = Ended(v, order, status),
           NEW d, d.hand = c.hand \cup Answers(s), d.purging = c.purging
    PROVE  Ending(v, r, c, d, S, s, status)
<1> DEFINE N == Answers(s)
<1>1. EndsOf(v, order, S, status)
  BY EndedIs
<1>2. /\ s \in Seq(Answer)
      /\ \A k \in DOMAIN s : /\ s[k].put \in S /\ s[k].status = status
                             /\ s[k].txs = v.puts[s[k].put].txs
      /\ \A j, k \in DOMAIN s : j # k => s[j].put # s[k].put
      /\ \A i \in S : \E k \in DOMAIN s : s[k].put = i
  BY <1>1 DEF EndsOf
<1>3. \A k \in DOMAIN s : s[k] \in N
  BY DEF Answers
<1>4. \A a \in N : /\ a \in Answer /\ a.put \in S /\ a.status = status
                   /\ a.txs = v.puts[a.put].txs
  BY <1>2 DEF Answers
<1>5. \A a, b \in N : a # b => a.put # b.put
  BY <1>2 DEF Answers
<1>6. \A i \in S : \E a \in N : a.put = i
  BY <1>2, <1>3
<1>7. \A j, k \in DOMAIN s : j # k => s[j] # s[k]
  BY <1>2
<1>8. d.hand = c.hand \cup N
  OBVIOUS
<1>11. Answers(s) = N
  OBVIOUS
<1> HIDE DEF N
<1>9. Moved(v, r, c, d, S, N)
  BY <1>4, <1>5, <1>6, <1>8 DEF Moved, Removed
<1>10. N \in SUBSET Answer
  BY <1>4
<1> QED
  BY <1>2, <1>4, <1>7, <1>9, <1>10, <1>11 DEF Ending

\* onDisconnect: with what the server has taken of the wire.
LEMMA CutIs ==
    ASSUME NEW v, Shape(v)
    PROVE  LET r == [v EXCEPT !.wire = <<>>]
           IN  /\ Shape(r) /\ r.puts = v.puts /\ r.count = v.count /\ r.wire = <<>>
               /\ r.held = v.held /\ r.writes = v.writes
               /\ r.queue = v.queue /\ r.tx = v.tx /\ r.told = v.told /\ r.raised = v.raised
<1> DEFINE wire == <<>>
           r == [v EXCEPT !.wire = wire]
<1>1. v = [f \in WriteFields |-> v[f]] /\ wire \in Seq(Request)
  BY EmptySeq DEF Shape
<1> HIDE DEF wire
<1>2. /\ r = [f \in WriteFields |-> r[f]] /\ r.puts = v.puts /\ r.count = v.count
      /\ r.wire = wire /\ r.held = v.held /\ r.writes = v.writes
      /\ r.queue = v.queue /\ r.tx = v.tx /\ r.told = v.told /\ r.raised = v.raised
  BY <1>1 DEF WriteFields
<1> HIDE DEF r
<1>3. Shape(r)
  BY <1>1, <1>2 DEF Shape
<1> QED
  BY <1>2, <1>3 DEF r, wire

\* What the server has after it took some puts whose answers are lost.
TakenUnheard(v, seen, taken, took, seen1, taken1) ==
    /\ took \in SUBSET DOMAIN v.wire
    /\ IF took = {} THEN seen1 = seen
       ELSE \E k \in took : (\A m \in took : m <= k) /\ seen1 = v.wire[k].put
    /\ taken1 = [x \in Txs |-> taken[x] + Cardinality({k \in took : x \in v.wire[k].txs})]

\* The server after a lost connection.
LEMMA UnheardType ==
    ASSUME NEW v, Shape(v), NEW seen \in Nat, NEW taken \in [Txs -> Nat], NEW took,
           NEW seen1, NEW taken1, TakenUnheard(v, seen, taken, took, seen1, taken1)
    PROVE  seen1 \in Nat /\ taken1 \in [Txs -> Nat]
<1>1. v.wire \in Seq(Request) /\ \A k \in DOMAIN v.wire : v.wire[k] \in Request
  BY DEF Shape
<1>2. seen1 \in Nat
  <2>1. CASE took = {}
    BY <2>1 DEF TakenUnheard
  <2>2. CASE took # {}
    <3>1. PICK k \in took : seen1 = v.wire[k].put
      BY <2>2 DEF TakenUnheard
    <3>2. k \in DOMAIN v.wire
      BY DEF TakenUnheard
    <3> QED
      BY <1>1, <3>1, <3>2 DEF Request
  <2> QED
    BY <2>1, <2>2
<1>3. IsFiniteSet(DOMAIN v.wire)
  <2>1. DOMAIN v.wire = 1 .. Len(v.wire) /\ Len(v.wire) \in Nat
    BY <1>1
  <2> QED
    BY <2>1, FS_Interval
<1>4. \A x \in Txs : taken[x] + Cardinality({k \in took : x \in v.wire[k].txs}) \in Nat
  <2> SUFFICES ASSUME NEW x \in Txs
               PROVE  taken[x] + Cardinality({k \in took : x \in v.wire[k].txs}) \in Nat
    OBVIOUS
  <2> DEFINE K == {k \in took : x \in v.wire[k].txs}
  <2>1. K \in SUBSET DOMAIN v.wire
    BY DEF TakenUnheard
  <2> HIDE DEF K
  <2>2. Cardinality(K) \in Nat
    BY <1>3, <2>1, FS_Subset, FS_CardinalityType
  <2>3. taken[x] + Cardinality(K) \in Nat
    BY <2>2
  <2> QED
    BY <2>3 DEF K
<1> QED
  BY <1>2, <1>4 DEF TakenUnheard

\* onDisconnect:, with the callbacks of cancelSentTransactions.
LEMMA DisconnectStep ==
    ASSUME NEW v, NEW up, NEW seen, NEW taken, Good(v, up, seen, taken), v.raised = "no",
           NEW took, NEW seen1, NEW taken1, TakenUnheard(v, seen, taken, took, seen1, taken1),
           NEW order \in InAnyOrder(SentTransactions(v)), NEW goOn
    PROVE  LET r == CancelSent([v EXCEPT !.wire = <<>>], order, goOn)
           IN  Good(r, FALSE, seen1, taken1) /\ r.raised = "no"
<1> DEFINE S == SentTransactions(v)
           u == [v EXCEPT !.wire = <<>>]
           p == RemovePuts(u, S)
           s == Ended(u, order, "disconnect")
           N == Answers(s)
           r == Callbacks(p, s, goOn, FALSE, FALSE)
           c == View(v, up, seen, taken)
           d == [hand |-> c.hand \cup N, up |-> FALSE, purging |-> FALSE, last |-> seen1,
                 applied |-> taken1]
           e == View(v, FALSE, seen1, taken1)
<1>1. /\ Sound(v, c) /\ Shape(v) /\ Clean(v) /\ HeldApart(v) /\ Held(v) \in SUBSET Answer
      /\ seen \in Nat /\ taken \in [Txs -> Nat]
  BY GoodParts DEF Good
<1>2. seen1 \in Nat /\ taken1 \in [Txs -> Nat]
  BY <1>1, UnheardType
<1>3. /\ Shape(u) /\ u.puts = v.puts /\ u.count = v.count /\ u.wire = <<>>
      /\ u.held = v.held /\ u.writes = v.writes
      /\ u.queue = v.queue /\ u.tx = v.tx /\ u.told = v.told /\ u.raised = v.raised
  BY <1>1, CutIs
<1>4. c.hand = Held(v) /\ c.up = up /\ c.purging = FALSE /\ c.last = seen /\ c.applied = taken
  BY DEF View
<1> HIDE DEF u, c
<1>5. S \in SUBSET DOMAIN u.puts /\ SentTransactions(u) = S
  BY <1>3 DEF SentTransactions
<1>6. CancelSent(u, order, goOn) = r
  BY <1>5 DEF CancelSent
<1> HIDE DEF S
<1>7. Lists(order, S)
  <2>1. IsFiniteSet(S)
    BY <1>3, <1>5, FinitePuts
  <2> QED
    BY <2>1, AnyOrderLists DEF S
<1>8. Removed(u, p, S)
  BY <1>3, RemoveIs
<1> HIDE DEF p
<1>9. /\ "disconnect" \in Statuses /\ ("disconnect" = "canceled" => c.purging)
      /\ d.hand = c.hand \cup N /\ d.purging = c.purging
  BY <1>4 DEF Statuses
<1>10. /\ Moved(u, p, c, d, S, N) /\ s \in Seq(Answer)
       /\ \A j, k \in DOMAIN s : j # k => s[j] # s[k]
       /\ N \in SUBSET Answer
       /\ \A a \in N : a.put \in S /\ a.status = "disconnect"
  <2> DEFINE status == "disconnect"
  <2>1. status \in Statuses /\ (status = "canceled" => c.purging) /\ s = Ended(u, order, status)
    BY <1>9
  <2> HIDE DEF d, s, status
  <2>2. Ending(u, p, c, d, S, s, status)
    BY <1>3, <1>5, <1>7, <1>8, <1>9, <2>1, EndsMoved
  <2> QED
    BY <2>2 DEF Ending, status
<1> HIDE DEF s
<1>11. Moved(v, p, c, d, S, N)
  <2> HIDE DEF d, N
  <2> QED
    BY <1>3, <1>10 DEF Moved
<1>12. d \in Contexts
  BY <1>1, <1>2, <1>4, <1>10 DEF Contexts
<1>13. /\ Shape(p) /\ p.count = v.count /\ p.held = v.held /\ p.queue = v.queue /\ p.tx = v.tx
       /\ p.raised = "no" /\ p.wire = <<>> /\ p.writes = v.writes /\ p.told = v.told
       /\ DOMAIN p.puts = DOMAIN v.puts \ S
       /\ \A i \in DOMAIN p.puts : p.puts[i] = v.puts[i]
  BY <1>3, <1>8 DEF Removed
<1>14. LostPuts(v, p, c, d, took)
  <2>1. /\ IF took = {} THEN d.last = c.last
           ELSE \E k \in took : (\A m \in took : m <= k) /\ d.last = v.wire[k].put
        /\ \A x \in Txs : d.applied[x] = c.applied[x] + Cardinality({k \in took : x \in v.wire[k].txs})
        /\ ~d.up
    BY <1>4 DEF TakenUnheard
  <2> HIDE DEF d
  <2> QED
    BY <1>13, <2>1 DEF LostPuts, S
<1>15. took \in SUBSET DOMAIN v.wire
  BY DEF TakenUnheard
<1>16. /\ d.hand = c.hand \cup N /\ d.up = FALSE /\ d.purging = FALSE
       /\ e.hand = c.hand /\ e.up = FALSE /\ e.purging = FALSE /\ e.last = d.last
       /\ e.applied = d.applied
  BY <1>4 DEF View
<1>17. e \in Contexts
  BY <1>1, <1>2, ViewIn
<1> HIDE DEF d, e
<1>18. Sound(p, d)
  <2> HIDE DEF N
  <2> QED
    BY <1>1, <1>10, <1>11, <1>12, <1>13, <1>14, <1>15, LostSound DEF S
<1>19. Clean(p)
  BY <1>1, <1>13 DEF Clean
<1>20. Hands(d, e, d.hand \ {s[k] : k \in DOMAIN s})
  <2>1. \A a \in N : a \notin c.hand
    BY <1>1, <1>3, <1>5, <1>10 DEF Sound, Apart
  <2>2. d.hand \ N = c.hand
    <3> HIDE DEF N
    <3> QED
      BY <1>16, <2>1
  <2> QED
    BY <1>16, <1>17, <2>2 DEF Hands, Answers
<1>21. \A k \in DOMAIN s : s[k] \in d.hand
  BY <1>16 DEF Answers
<1>22. AllAnswered(p, d, s, e, Callbacks(p, s, goOn, FALSE, d.up))
  BY <1>10, <1>13, <1>18, <1>19, <1>20, <1>21, CallbacksSound
<1>23. AllAnswered(p, d, s, e, r)
  BY <1>16, <1>22
<1> HIDE DEF r
<1>24. Sound(r, e) /\ Clean(r) /\ r.raised = "no" /\ r.held = v.held
  BY <1>13, <1>16, <1>23 DEF AllAnswered, Follows
<1> QED
  BY <1>1, <1>6, <1>24, SameHand DEF e, u

\* purgeOutstandingWrites of FRepo.
LEMMA RollBackIs ==
    ASSUME NEW v, Shape(v)
    PROVE  LET r == RollBack(v)
           IN  /\ Shape(r) /\ r.held = v.held /\ r.raised = v.raised /\ r.writes = {}
               /\ Aborting(v, r, "canceled")
<1> DEFINE none == {}
           u == [v EXCEPT !.writes = none]
           r == AbortTransactions(u, "canceled")
<1>1. v = [f \in WriteFields |-> v[f]] /\ none \subseteq Txs \cup 1 .. v.count
  BY DEF Shape
<1> HIDE DEF none
<1>2. /\ u = [f \in WriteFields |-> u[f]] /\ u.puts = v.puts /\ u.count = v.count
      /\ u.wire = v.wire /\ u.held = v.held /\ u.writes = none
      /\ u.queue = v.queue /\ u.tx = v.tx /\ u.told = v.told /\ u.raised = v.raised
  BY <1>1 DEF WriteFields
<1>3. r = RollBack(v)
  BY DEF RollBack, none
<1> HIDE DEF u
<1>4. Shape(u)
  BY <1>1, <1>2 DEF Shape
<1>5. Aborts(u, r, "canceled")
  BY <1>4, AbortIs
<1> HIDE DEF r
<1>6. /\ EndedNow(u) = EndedNow(v) /\ SentNow(u) = SentNow(v)
      /\ \A x : UpTo(u, x) = UpTo(v, x)
  BY <1>2 DEF EndedNow, SentNow, UpTo
<1>7. Aborting(v, r, "canceled")
  BY <1>2, <1>5, <1>6 DEF Aborts, Aborting, ToldOf
<1>8. Shape(r) /\ r.held = v.held /\ r.raised = v.raised /\ r.writes = none
  BY <1>2, <1>5 DEF Aborts
<1> QED
  BY <1>3, <1>7, <1>8 DEF none

\* The end of a purge: nothing is outstanding.
LEMMA PurgedSound ==
    ASSUME NEW v, NEW c, Sound(v, c), Clean(v), c.purging, c.hand = {},
           \A i : i \notin DOMAIN v.puts, NEW d \in Contexts, d.hand = {}, d.up = c.up, ~d.purging,
           d.last = c.last, d.applied = c.applied
    PROVE  Sound(v, d)
<1>0. /\ Shape(v) /\ Apart(v, c) /\ SetsSound(v, c) /\ TxSound(v, c) /\ SentTogether(v, c)
      /\ SentInFront(v) /\ OrdersSound(v) /\ WireSound(v, c) /\ Delivered(v, c)
  BY DEF Sound
<1>1. (\A a : a \notin c.hand) /\ (\A a : a \notin d.hand) /\ \A x : x \notin v.writes
  BY <1>0 DEF SetsSound
<1>2. Apart(v, d) /\ SentTogether(v, d)
  BY <1>1 DEF Apart, SentTogether
<1>3. SetsSound(v, d)
  BY <1>0, <1>1 DEF SetsSound
<1>4. \A x : ~Carried(v, c, x) /\ ~Carried(v, d, x)
  BY <1>1 DEF Carried
<1>5. TxSound(v, d)
  BY <1>0, <1>1, <1>4 DEF TxSound, Clean
<1>6. WireSound(v, d)
  BY <1>0 DEF WireSound
<1>7. Delivered(v, d)
  <2>1. (\A x : Unseen(v, d, x) <=> Unseen(v, c, x)) /\ \A i : Final(v, d, i) <=> Final(v, c, i)
    BY DEF Unseen, Final
  <2>2. \A x \in Txs :
           /\ d.applied[x] \in {0, 1}
           /\ d.applied[x] = 1 => \A k \in DOMAIN v.wire : x \notin v.wire[k].txs
           /\ v.tx[x].status \in {"none", "Run"} => Unseen(v, d, x)
           /\ v.told[x] = "ok" => d.applied[x] = 1
    BY <1>0, <2>1 DEF Delivered
  <2>3. \A i \in 1 .. MaxWork : v.told[i] = "ok" => Final(v, d, i)
    BY <1>0, <2>1 DEF Delivered
  <2> QED
    BY <1>1, <2>2, <2>3 DEF Delivered
<1> QED
  BY <1>0, <1>2, <1>3, <1>5, <1>6, <1>7 DEF Sound

\* What is left of a purge is an exception, or nothing outstanding.
Purged(v, r, up, seen, taken) ==
    IF r.raised = "no" THEN Good(r, up, seen, taken)
    ELSE v.held # <<>> /\ r.raised = "ack" /\ r = [f \in WriteFields |-> r[f]]

\* purgeOutstandingWrites of the connection.
LEMMA CancelAllStep ==
    ASSUME NEW a, NEW c, Sound(a, c), Clean(a), c.purging, c.hand = {}, a.raised = "no",
           a.held = <<>>, NEW goOn, NEW events
    PROVE  LET r == CancelAll(a, goOn, events, c.up)
           IN  Good(r, c.up, c.last, c.applied) /\ r.raised = "no"
<1> DEFINE S == DOMAIN a.puts
           order == Ascending(S)
           s == Ended(a, order, "canceled")
           N == Answers(s)
           p == RemovePuts(a, S)
           q == Callbacks(p, s, goOn, events, c.up)
           nothing == <<>>
           r == [q EXCEPT !.puts = nothing]
           d == [c EXCEPT !.hand = N]
           e == View(r, c.up, c.last, c.applied)
           status == "canceled"
<1>1. /\ Shape(a) /\ c \in Contexts /\ c.up \in BOOLEAN /\ c.last \in Nat
      /\ c.applied \in [Txs -> Nat]
  BY SoundParts DEF Sound, Contexts
<1>2. S \in SUBSET DOMAIN a.puts /\ S = DOMAIN a.puts
  OBVIOUS
<1>3. CancelAll(a, goOn, events, c.up) = r
  BY DEF CancelAll
<1> HIDE DEF S
<1>4. S \in SUBSET Nat /\ IsFiniteSet(S)
  BY <1>1, <1>2, FinitePuts
<1>5. Lists(order, S)
  BY <1>4, AscendingLists
<1> HIDE DEF order
<1>6. Removed(a, p, S)
  BY <1>1, RemoveIs
<1> HIDE DEF p
<1>7. status \in Statuses /\ (status = "canceled" => c.purging) /\ s = Ended(a, order, status)
  BY DEF Statuses
<1>8. s \in Seq(Answer)
  <2> HIDE DEF s, status
  <2>1. EndsOf(a, order, S, status)
    BY <1>1, <1>2, <1>5, <1>7, EndedIs
  <2> QED
    BY <1>7, <2>1 DEF EndsOf
<1> HIDE DEF s
<1>9. N \in SUBSET Answer
  BY <1>8 DEF Answers
<1> HIDE DEF N
<1>10. Hands(c, d, N)
  BY <1>1, <1>9, HandsIs
<1> HIDE DEF d
<1>11. d.hand = c.hand \cup Answers(s) /\ d.purging = c.purging
  BY <1>10 DEF Hands, N
<1>12. Ending(a, p, c, d, S, s, status)
  <2> HIDE DEF status
  <2> QED
    BY <1>1, <1>2, <1>5, <1>6, <1>7, <1>11, EndsMoved
<1>13. /\ Moved(a, p, c, d, DOMAIN a.puts, N) /\ \A k \in DOMAIN s : s[k].status = "canceled"
       /\ \A j, k \in DOMAIN s : j # k => s[j] # s[k]
       /\ \A b \in N : b.status = "canceled"
  BY <1>2, <1>12 DEF Ending, N
<1>14. /\ Shape(p) /\ p.held = <<>> /\ p.queue = a.queue /\ p.tx = a.tx /\ p.raised = "no"
       /\ p.wire = a.wire /\ DOMAIN p.puts = {}
  BY <1>2, <1>6 DEF Removed
<1>15. Sound(p, d)
  <2>1. /\ d \in Contexts /\ d.up = c.up /\ d.last = c.last /\ d.applied = c.applied
    BY <1>10 DEF Hands
  <2> QED
    BY <1>13, <1>14, <2>1, CanceledSound
<1>16. Clean(p)
  BY <1>14 DEF Clean
<1>17. Hands(d, c, d.hand \ {s[k] : k \in DOMAIN s})
  <2>1. d.hand \ {s[k] : k \in DOMAIN s} = c.hand
    BY <1>11 DEF Answers
  <2> QED
    BY <1>1, <1>10, <2>1 DEF Hands
<1>18. \A k \in DOMAIN s : s[k] \in d.hand
  BY <1>11 DEF Answers
<1>19. AllAnswered(p, d, s, c, Callbacks(p, s, goOn, events, d.up))
  BY <1>8, <1>13, <1>14, <1>15, <1>16, <1>17, <1>18, CallbacksSound
<1>20. AllAnswered(p, d, s, c, q) /\ d.purging
  BY <1>10, <1>19 DEF Hands
<1> HIDE DEF q
<1>21. /\ Shape(q) /\ q.held = <<>> /\ q.raised = "no" /\ Sound(q, c) /\ Clean(q)
       /\ q.puts = p.puts
  BY <1>13, <1>14, <1>20 DEF AllAnswered, Follows
<1>22. q.puts = nothing
  <2>1. q.puts = [i \in {} |-> q.puts[i]]
    BY <1>14, <1>21 DEF Shape
  <2> QED
    BY <2>1
<1>23. q = [f \in WriteFields |-> q[f]]
  BY <1>21 DEF Shape
<1>24. r = q
  <2> HIDE DEF nothing
  <2> QED
    BY <1>22, <1>23 DEF WriteFields
<1> HIDE DEF r, nothing
<1>25. e \in Contexts
  BY <1>1, <1>21, <1>24, ViewIn
<1>26. Held(r) = {} /\ HeldApart(r)
  BY <1>21, <1>24, NoneHeld
<1>27. /\ e.hand = {} /\ e.up = c.up /\ ~e.purging /\ e.last = c.last /\ e.applied = c.applied
  BY <1>26 DEF View
<1> HIDE DEF e
<1>28. Sound(r, e)
  <2>1. \A i : i \notin DOMAIN r.puts
    BY <1>14, <1>21, <1>24
  <2> QED
    BY <1>21, <1>24, <1>25, <1>27, <2>1, PurgedSound
<1> QED
  BY <1>3, <1>21, <1>24, <1>26, <1>28 DEF Good, e

\* After an exception the rest of a purge is not looked at.
LEMMA CancelAllShape ==
    ASSUME NEW a, Shape(a), NEW goOn, NEW events, NEW up \in BOOLEAN, a.raised = "ack"
    PROVE  LET r == CancelAll(a, goOn, events, up)
           IN  r.raised = "ack" /\ r = [f \in WriteFields |-> r[f]]
<1> DEFINE S == DOMAIN a.puts
           order == Ascending(S)
           s == Ended(a, order, "canceled")
           p == RemovePuts(a, S)
           q == Callbacks(p, s, goOn, events, up)
           nothing == <<>>
           r == [q EXCEPT !.puts = nothing]
           status == "canceled"
<1>1. S \in SUBSET DOMAIN a.puts /\ CancelAll(a, goOn, events, up) = r
  BY DEF CancelAll
<1> HIDE DEF S
<1>2. S \in SUBSET Nat /\ IsFiniteSet(S)
  BY <1>1, FinitePuts
<1>3. Lists(order, S)
  BY <1>2, AscendingLists
<1> HIDE DEF order
<1>4. Removed(a, p, S)
  BY RemoveIs
<1> HIDE DEF p
<1>5. status \in Statuses /\ s = Ended(a, order, status)
  BY DEF Statuses
<1> HIDE DEF status
<1>6. s \in Seq(Answer)
  <2> HIDE DEF s
  <2>1. EndsOf(a, order, S, status)
    BY <1>1, <1>3, <1>5, EndedIs
  <2> QED
    BY <1>5, <2>1 DEF EndsOf
<1> HIDE DEF s
<1>7. Shape(p) /\ p.raised = "ack"
  BY <1>4 DEF Removed
<1>8. Follows(p, q)
  BY <1>6, <1>7, CallbacksShape
<1> HIDE DEF q, nothing
<1>9. Shape(q) /\ q.raised = "ack"
  BY <1>7, <1>8 DEF Follows
<1>10. q = [f \in WriteFields |-> q[f]]
  BY <1>9 DEF Shape
<1>11. r.raised = q.raised /\ r = [f \in WriteFields |-> r[f]]
  BY <1>10 DEF WriteFields
<1> HIDE DEF r
<1> QED
  BY <1>1, <1>9, <1>11

\* A purge of FRepo: it raises, or nothing is outstanding after it.
LEMMA PurgeStep ==
    ASSUME NEW v, NEW up, NEW seen, NEW taken, Good(v, up, seen, taken), v.raised = "no",
           NEW goOn, NEW events
    PROVE  Purged(v, CancelAll(AckPuts(RollBack(v), goOn, events, up), goOn, events, up),
                  up, seen, taken)
<1> DEFINE b == RollBack(v)
           a == AckPuts(b, goOn, events, up)
           r == CancelAll(a, goOn, events, up)
           c == View(v, up, seen, taken)
           d == [hand |-> Held(v), up |-> up, purging |-> TRUE, last |-> seen, applied |-> taken]
           e == [hand |-> {}, up |-> up, purging |-> TRUE, last |-> seen, applied |-> taken]
<1>1. /\ Sound(v, c) /\ Shape(v) /\ Clean(v) /\ HeldApart(v) /\ Held(v) \in SUBSET Answer
      /\ up \in BOOLEAN /\ seen \in Nat /\ taken \in [Txs -> Nat]
  BY GoodParts DEF Good
<1>2. /\ Shape(b) /\ b.held = v.held /\ b.raised = "no" /\ b.writes = {}
      /\ Aborting(v, b, "canceled")
  BY <1>1, RollBackIs
<1> HIDE DEF b
<1>3. d \in Contexts /\ e \in Contexts
  BY <1>1 DEF Contexts
<1>4. /\ c.hand = Held(v) /\ c.up = up /\ c.purging = FALSE /\ c.last = seen /\ c.applied = taken
      /\ d.hand = Held(v) /\ d.up = up /\ d.purging = TRUE /\ d.last = seen /\ d.applied = taken
      /\ e.hand = {} /\ e.up = up /\ e.purging = TRUE /\ e.last = seen /\ e.applied = taken
  BY DEF View
<1> HIDE DEF c, d, e
<1>5. Sound(b, d)
  <2> DEFINE error == "canceled"
  <2>1. /\ error \in {"set", "canceled"} /\ Aborting(v, b, error)
        /\ b.writes = (IF error = "canceled" THEN {} ELSE v.writes \ EndedNow(v))
        /\ d.purging = (error = "canceled")
    BY <1>2, <1>4
  <2>2. d.hand = c.hand /\ d.up = c.up /\ d.last = c.last /\ d.applied = c.applied /\ ~c.purging
    BY <1>4
  <2> HIDE DEF error
  <2> QED
    BY <1>1, <1>2, <1>3, <2>1, <2>2, AbortSound
<1>6. Clean(b)
  BY <1>1, <1>2, AbortClean
<1>7. HeldApart(b) /\ d.hand = Held(b)
  BY <1>1, <1>2, <1>4 DEF HeldApart, Held
<1>8. Hands(d, e, {})
  BY <1>3, <1>4 DEF Hands
<1>9. AckedAll(b, d, e, AckPuts(b, goOn, events, d.up))
  BY <1>2, <1>5, <1>6, <1>7, <1>8, AckSound
<1>10. AckedAll(b, d, e, a)
  BY <1>4, <1>9
<1> HIDE DEF a
<1>11. /\ Shape(a) /\ a.held = <<>> /\ a.raised \in {"no", "ack"}
       /\ a.raised = "no" => Sound(a, e) /\ Clean(a)
       /\ v.held = <<>> => a.raised = "no"
  BY <1>2, <1>10 DEF AckedAll
<1>12. CASE a.raised = "no"
  <2>1. LET q == CancelAll(a, goOn, events, e.up)
        IN  Good(q, e.up, e.last, e.applied) /\ q.raised = "no"
    BY <1>4, <1>11, <1>12, CancelAllStep
  <2>2. Good(r, up, seen, taken) /\ r.raised = "no"
    BY <1>4, <2>1
  <2> HIDE DEF r
  <2>3. Purged(v, r, up, seen, taken)
    BY <2>2 DEF Purged
  <2> QED
    BY <2>3 DEF r, a, b
<1>13. CASE a.raised = "ack"
  <2>1. r.raised = "ack" /\ r = [f \in WriteFields |-> r[f]]
    BY <1>1, <1>11, <1>13, CancelAllShape
  <2>2. v.held # <<>>
    BY <1>11, <1>13
  <2> HIDE DEF r
  <2>3. Purged(v, r, up, seen, taken)
    BY <2>1, <2>2 DEF Purged
  <2> QED
    BY <2>3 DEF r, a, b
<1> QED
  BY <1>11, <1>12, <1>13

\* The inductive invariant.
RepoInv ==
    /\ Good(w, LinkSendsWrites, last, applied)
    /\ w.raised \in {"no", "purge"}
    /\ link \in {"down", "authorizing", "up"}

\* Nothing is written yet.
LEMMA InitGood == RepoInit => RepoInv
<1> SUFFICES ASSUME RepoInit PROVE RepoInv
  OBVIOUS
<1> DEFINE c == View(w, LinkSendsWrites, last, applied)
           nobody == {}
<1>1. /\ w.puts = <<>> /\ w.count = 0 /\ w.wire = <<>> /\ w.held = <<>> /\ w.writes = nobody
      /\ w.queue = nobody /\ w.raised = "no"
      /\ w.tx = [x \in Txs |-> [status |-> "none", order |-> 0, retries |-> 0, abort |-> "none"]]
      /\ w.told = [x \in Txs \cup 1 .. MaxWork |-> "none"]
      /\ w = [f \in WriteFields |-> w[f]]
      /\ last = 0 /\ applied = [x \in Txs |-> 0] /\ link = "down"
  BY DEF RepoInit, LinkInit, WriteFields
<1>2. ~LinkSendsWrites /\ LinkSendsWrites \in BOOLEAN
  BY <1>1 DEF LinkSendsWrites
<1>3. <<>> \in Seq(Answer) /\ <<>> \in Seq(Request) /\ DOMAIN <<>> = nobody
  BY EmptySeq
<1>4. \A i : i \notin nobody
  OBVIOUS
<1>5. <<>> = [i \in nobody |-> <<>>[i]]
  BY <1>3
<1>6. \A x \in Txs : /\ w.tx[x].status = "none" /\ w.tx[x].order = 0
                     /\ w.told[x] = "none" /\ applied[x] = 0
  BY <1>1
<1>7. \A i \in 1 .. MaxWork : w.told[i] = "none"
  BY <1>1
<1>8. Shape(w)
  <2>1. w.tx \in [Txs -> TxType]
    BY <1>1 DEF TxType
  <2>2. w.told \in [Txs \cup 1 .. MaxWork -> Ends]
    <3>1. "none" \in Ends
      BY DEF Ends
    <3> QED
      BY <1>1, <3>1
  <2>3. nobody \subseteq Txs \cup 1 .. w.count /\ nobody \subseteq Txs /\ nobody \subseteq 1 .. w.count
        /\ w.count \in Nat
    BY <1>1
  <2>4. w.puts = [i \in DOMAIN w.puts |-> w.puts[i]]
    BY <1>1, <1>3, <1>5
  <2>5. \A i \in DOMAIN w.puts : w.puts[i] \in [txs : SUBSET Txs, sent : BOOLEAN]
    BY <1>1, <1>3
  <2>6. DOMAIN w.puts = nobody
    BY <1>1, <1>3
  <2>7. w.wire \in Seq(Request) /\ w.held \in Seq(Answer)
    BY <1>1, <1>3
  <2>8. w = [f \in WriteFields |-> w[f]] /\ w.writes = nobody /\ w.queue = nobody
    BY <1>1
  <2> HIDE DEF nobody
  <2>9. DOMAIN w.puts \subseteq 1 .. w.count
    BY <2>3, <2>6
  <2>10. w.writes \subseteq Txs \cup 1 .. w.count /\ w.queue \subseteq Txs
    BY <2>3, <2>8
  <2> QED
    BY <2>1, <2>2, <2>3, <2>4, <2>5, <2>7, <2>8, <2>9, <2>10 DEF Shape
<1>9. c \in Contexts
  <2>1. last \in Nat /\ applied \in [Txs -> Nat]
    BY <1>1
  <2> QED
    BY <1>2, <1>8, <2>1, ViewIn
<1>10. Held(w) = nobody /\ HeldApart(w)
  BY <1>1, NoneHeld
<1>11. c.hand = nobody /\ ~c.up /\ ~c.purging /\ c.applied = applied
  BY <1>2, <1>10 DEF View
<1> HIDE DEF c, nobody
<1>12. /\ \A i : i \notin DOMAIN w.puts /\ i \notin DOMAIN w.wire
       /\ \A a : a \notin c.hand /\ a \notin w.writes /\ a \notin w.queue
  BY <1>1, <1>3, <1>4, <1>11
<1>13. Apart(w, c) /\ SetsSound(w, c) /\ SentTogether(w, c) /\ SentInFront(w)
  BY <1>7, <1>11, <1>12 DEF Apart, SetsSound, SentTogether, SentInFront
<1>14. TxSound(w, c)
  <2>1. \A x : ~Carried(w, c, x)
    BY <1>12 DEF Carried
  <2> QED
    BY <1>6, <1>12, <2>1 DEF TxSound
<1>15. OrdersSound(w)
  <2>1. Cardinality(Started(w)) \in Nat
    BY MoreStarted
  <2>2. 0 <= Cardinality(Started(w))
    BY <2>1
  <2> QED
    BY <1>6, <2>2 DEF OrdersSound
<1>16. WireSound(w, c)
  BY <1>1, <1>11, <1>12 DEF WireSound
<1>17. Delivered(w, c)
  BY <1>6, <1>7, <1>11, <1>12 DEF Delivered, Unseen
<1>18. Clean(w)
  BY <1>12 DEF Clean
<1>19. Sound(w, c)
  BY <1>8, <1>9, <1>13, <1>14, <1>15, <1>16, <1>17 DEF Sound
<1> QED
  BY <1>1, <1>10, <1>18, <1>19 DEF RepoInv, Good, c

-----------------------------------------------------------------------------
\* The result of a handler that raises nothing.
LEMMA Leaves ==
    ASSUME NEW r, r.raised = "no", HandlerLeaves(r)
    PROVE  w' = r /\ r.count + Cardinality(Started(r)) <= MaxWork
BY DEF HandlerLeaves

\* The invariant after a step, from the writes and the server after it.
LEMMA InvNext ==
    ASSUME NEW r, w' = r, Good(r, LinkSendsWrites', last', applied'), r.raised \in {"no", "purge"},
           link' \in {"down", "authorizing", "up"}
    PROVE  RepoInv'
BY DEF RepoInv

\* A step that leaves the link and the server as they are.
LEMMA SameLink ==
    ASSUME RepoInv, UNCHANGED <<linkVars, last, applied>>, NEW r, w' = r,
           Good(r, LinkSendsWrites, last, applied), r.raised \in {"no", "purge"}
    PROVE  RepoInv'
<1>1. /\ link' = link /\ LinkSendsWrites' = LinkSendsWrites /\ last' = last /\ applied' = applied
      /\ link \in {"down", "authorizing", "up"}
  BY DEF linkVars, LinkSendsWrites, RepoInv
<1> QED
  BY <1>1, InvNext

\* The parts of the invariant.
LEMMA InvParts ==
    ASSUME RepoInv
    PROVE  /\ Good(w, LinkSendsWrites, last, applied) /\ w.raised \in {"no", "purge"}
           /\ link \in {"down", "authorizing", "up"}
BY DEF RepoInv

\* A step that concerns listens only.
LEMMA StutterGood ==
    ASSUME RepoInv, UNCHANGED <<linkVars, writeVars>>
    PROVE  RepoInv'
<1>1. UNCHANGED <<linkVars, last, applied>> /\ w' = w
  BY DEF writeVars
<1> QED
  BY <1>1, InvParts, SameLink

\* A connection is being authorized, or comes up.
LEMMA LinkGood ==
    ASSUME RepoInv, AskAuth \/ RestoreState
    PROVE  RepoInv'
<1>1. CASE AskAuth
  <2>1. /\ link' = "authorizing" /\ LinkSendsWrites' = LinkSendsWrites
        /\ w' = w /\ last' = last /\ applied' = applied
    BY <1>1 DEF AskAuth, Authorize, writeVars, LinkSendsWrites
  <2> QED
    BY <2>1, InvParts, InvNext
<1>2. CASE RestoreState
  <2>1. /\ link # "up" /\ link' = "up" /\ w' = Restore(w) /\ last' = last /\ applied' = applied
        /\ w.raised = "no"
    BY <1>2 DEF RestoreState, ComeUp, Running
  <2>2. LinkSendsWrites = FALSE /\ LinkSendsWrites' = TRUE
    BY <2>1 DEF LinkSendsWrites
  <2>3. Good(w, FALSE, last, applied)
    BY <2>2, InvParts
  <2>4. Good(Restore(w), TRUE, last, applied) /\ Restore(w).raised = "no"
    BY <2>1, <2>3, RestoreStep
  <2> QED
    BY <2>1, <2>2, <2>4, InvNext
<1> QED
  BY <1>1, <1>2

\* It goes down.
LEMMA DisconnectGood ==
    ASSUME RepoInv, Disconnect
    PROVE  RepoInv'
<1>1. /\ link' = "down" /\ w.raised = "no" /\ Unheard
      /\ \E goOn \in MayGoOn, order \in InAnyOrder(SentTransactions(w)) :
             HandlerLeaves(CancelSent([w EXCEPT !.wire = <<>>], order, goOn))
  BY DEF Disconnect, GoDown, Running
<1>2. PICK took \in SUBSET DOMAIN w.wire :
          /\ IF took = {} THEN UNCHANGED last
             ELSE \E k \in took : (\A m \in took : m <= k) /\ last' = w.wire[k].put
          /\ applied' = [x \in Txs |->
                            applied[x] + Cardinality({k \in took : x \in w.wire[k].txs})]
  BY <1>1 DEF Unheard
<1>3. TakenUnheard(w, last, applied, took, last', applied')
  BY <1>2 DEF TakenUnheard
<1>4. PICK goOn \in MayGoOn, order \in InAnyOrder(SentTransactions(w)) :
          HandlerLeaves(CancelSent([w EXCEPT !.wire = <<>>], order, goOn))
  BY <1>1
<1> DEFINE r == CancelSent([w EXCEPT !.wire = <<>>], order, goOn)
<1>5. Good(r, FALSE, last', applied') /\ r.raised = "no"
  BY <1>1, <1>3, InvParts, DisconnectStep
<1>6. HandlerLeaves(r)
  BY <1>4
<1> HIDE DEF r
<1>7. w' = r
  BY <1>5, <1>6, Leaves
<1>8. LinkSendsWrites' = FALSE
  BY <1>1 DEF LinkSendsWrites
<1> QED
  BY <1>1, <1>5, <1>7, <1>8, InvNext

\* A set.
LEMMA SetGood ==
    ASSUME RepoInv, SetValue
    PROVE  RepoInv'
<1>1. UNCHANGED <<linkVars, last, applied>> /\ w.raised = "no"
  BY DEF SetValue, Running
<1> DEFINE up == LinkSendsWrites
<1>2. PICK goOn \in MayGoOn :
          HandlerLeaves(RerunTransactions(AbortTransactions(Setting(w, up), "set"), goOn, up))
  BY DEF SetValue, Setting
<1> DEFINE r == RerunTransactions(AbortTransactions(Setting(w, up), "set"), goOn, up)
<1>3. r.count + Cardinality(Started(r)) <= MaxWork
  BY <1>2 DEF HandlerLeaves
<1>4. Good(r, up, last, applied) /\ r.raised = "no"
  <2> HIDE DEF up
  <2>1. Good(w, up, last, applied)
    BY InvParts DEF up
  <2> QED
    BY <1>1, <1>3, <2>1, SetStep
<1>5. HandlerLeaves(r)
  BY <1>2
<1> HIDE DEF r
<1>6. w' = r
  BY <1>4, <1>5, Leaves
<1> QED
  BY <1>1, <1>4, <1>6, SameLink

\* A transaction.
LEMMA StartGood ==
    ASSUME RepoInv, NEW x \in Txs, StartTransaction(x)
    PROVE  RepoInv'
<1>1. UNCHANGED <<linkVars, last, applied>> /\ w.raised = "no" /\ w.tx[x].status = "none"
  BY DEF StartTransaction, Running
<1>2. CASE HandlerLeaves(End(w, {x}, "error"))
  <2> DEFINE r == End(w, {x}, "error")
  <2>1. Good(r, LinkSendsWrites, last, applied) /\ r.raised = "no"
    BY <1>1, InvParts, RefuseStep
  <2>2. HandlerLeaves(r)
    BY <1>2
  <2> HIDE DEF r
  <2> QED
    BY <1>1, <2>1, <2>2, Leaves, SameLink
<1>3. CASE HandlerLeaves(SendAllReady(Starting(w, x), LinkSendsWrites))
  <2> DEFINE r == SendAllReady(Starting(w, x), LinkSendsWrites)
  <2>1. Good(r, LinkSendsWrites, last, applied) /\ r.raised = "no"
    BY <1>1, InvParts, StartStep
  <2>2. HandlerLeaves(r)
    BY <1>3
  <2> HIDE DEF r
  <2> QED
    BY <1>1, <2>1, <2>2, Leaves, SameLink
<1> QED
  BY <1>2, <1>3 DEF StartTransaction, Starting

\* The answer of a listen, which may be the last that is awaited.
LEMMA ListenGood ==
    ASSUME RepoInv, ListenAnswered
    PROVE  RepoInv'
<1>1. UNCHANGED <<linkVars, last, applied>> /\ w.raised = "no"
  BY DEF ListenAnswered, Running
<1>2. PICK events \in BOOLEAN, goOn \in MayGoOn :
          IF unacked = 1 THEN HandlerLeaves(AckPuts(w, goOn, events, LinkSendsWrites))
          ELSE UNCHANGED w
  BY DEF ListenAnswered
<1> DEFINE r == AckPuts(w, goOn, events, LinkSendsWrites)
<1>3. Good(r, LinkSendsWrites, last, applied) /\ r.raised = "no"
  BY <1>1, InvParts, AckStep
<1>4. w' = r \/ w' = w
  <2>1. HandlerLeaves(r) \/ w' = w
    BY <1>2
  <2> HIDE DEF r
  <2> QED
    BY <1>3, <2>1, Leaves
<1> HIDE DEF r
<1> QED
  BY <1>1, <1>3, <1>4, InvParts, SameLink

\* New data at the path.
LEMMA UpdateGood ==
    ASSUME RepoInv, DataUpdate
    PROVE  RepoInv'
<1>1. UNCHANGED <<linkVars, last, applied>> /\ w.raised = "no"
  BY DEF DataUpdate, Running
<1>2. PICK goOn \in MayGoOn : HandlerLeaves(RerunTransactions(w, goOn, LinkSendsWrites))
  BY DEF DataUpdate
<1> DEFINE r == RerunTransactions(w, goOn, LinkSendsWrites)
<1>3. Good(r, LinkSendsWrites, last, applied) /\ r.raised = "no"
  BY <1>1, InvParts, RerunStep
<1>4. HandlerLeaves(r)
  BY <1>2
<1> HIDE DEF r
<1> QED
  BY <1>1, <1>3, <1>4, Leaves, SameLink

\* The answer of a put: unasked for, heard, or held.
LEMMA AnswerGood ==
    ASSUME RepoInv, AnswerPut
    PROVE  RepoInv'
<1>1. UNCHANGED linkVars /\ w.raised = "no" /\ w.wire # <<>>
  BY DEF AnswerPut, Running
<1>2. PICK status \in {"ok", "denied", "datastale"}, goOn \in MayGoOn, events \in BOOLEAN :
          /\ Take(status, Head(w.wire).put, Head(w.wire).txs)
          /\ PutAnswered(HeardOf(w), AnswerOf(w, status), goOn, events)
  BY DEF AnswerPut, HeardOf, AnswerOf
<1> DEFINE up == LinkSendsWrites
           put == Head(w.wire).put
           h == HeardOf(w)
           f == ForgotOf(w)
           a == AnswerOf(w, status)
           c == Callback(f, a, goOn, events, up)
           k == [f EXCEPT !.held = Append(@, a)]
           last1 == LastAfter(w, last, status)
           applied1 == AppliedAfter(w, applied, status)
<1>3. last' = last1 /\ applied' = applied1
  BY <1>2 DEF Take, LastAfter, AppliedAfter
<1>4. Good(w, up, last, applied)
  BY InvParts
<1>5. /\ link' \in {"down", "authorizing", "up"} /\ LinkSendsWrites' = up
  BY <1>1, InvParts DEF linkVars, LinkSendsWrites
<1>6. IF put \notin DOMAIN w.puts THEN w' = h
      ELSE IF unacked = 0 THEN HandlerLeaves(c) ELSE w' = k
  BY <1>2 DEF PutAnswered, ForgotOf, AnswerOf
<1>7. CASE put \notin DOMAIN w.puts
  <2>1. Good(h, up, last1, applied1) /\ h.raised = "no"
    BY <1>1, <1>4, <1>7, UnaskedStep
  <2>2. w' = h
    BY <1>6, <1>7
  <2> HIDE DEF h, up, last1, applied1
  <2> QED
    BY <1>3, <1>5, <2>1, <2>2, InvNext
<1>8. CASE put \in DOMAIN w.puts /\ unacked = 0
  <2>1. Good(c, up, last1, applied1) /\ c.raised = "no"
    BY <1>1, <1>4, <1>8, AnswerStep
  <2>2. HandlerLeaves(c)
    BY <1>6, <1>8
  <2> HIDE DEF c, up, last1, applied1
  <2>3. w' = c
    BY <2>1, <2>2, Leaves
  <2> QED
    BY <1>3, <1>5, <2>1, <2>3, InvNext
<1>9. CASE put \in DOMAIN w.puts /\ unacked # 0
  <2>1. Good(k, up, last1, applied1) /\ k.raised = "no"
    BY <1>1, <1>4, <1>9, HoldStep
  <2>2. w' = k
    BY <1>6, <1>9
  <2> HIDE DEF k, up, last1, applied1
  <2> QED
    BY <1>3, <1>5, <2>1, <2>2, InvNext
<1> QED
  BY <1>7, <1>8, <1>9

\* A purge.
LEMMA PurgeGood ==
    ASSUME RepoInv, PurgeOutstandingWrites
    PROVE  RepoInv'
<1>1. UNCHANGED <<linkVars, last, applied>> /\ w.raised = "no"
  BY DEF PurgeOutstandingWrites, Running
<1> DEFINE up == LinkSendsWrites
           q(goOn, events) ==
               CancelAll(AckPuts(RollBack(w), goOn, events, up), goOn, events, up)
           raised(z) == IF w.held = <<>> \/ z = "no" THEN z ELSE "purge"
<1>2. PICK goOn \in MayGoOn, events \in BOOLEAN :
          HandlerLeaves([q(goOn, events) EXCEPT !.raised = raised(@)])
  BY DEF PurgeOutstandingWrites
<1> DEFINE r == q(goOn, events)
<1>3. Purged(w, r, up, last, applied)
  BY <1>1, InvParts, PurgeStep
<1>4. HandlerLeaves([r EXCEPT !.raised = raised(r.raised)])
  BY <1>2
<1> HIDE DEF r
<1>5. CASE r.raised = "no"
  <2>1. Good(r, up, last, applied) /\ raised(r.raised) = r.raised
    BY <1>3, <1>5 DEF Purged
  <2> DEFINE s == [r EXCEPT !.raised = r.raised]
  <2>2. Good(s, up, last, applied) /\ s.raised = "no"
    BY <1>5, <2>1, RaiseStep
  <2>3. HandlerLeaves(s)
    BY <1>4, <2>1
  <2> HIDE DEF s
  <2> QED
    BY <1>1, <2>2, <2>3, Leaves, SameLink
<1>6. CASE r.raised # "no"
  <2>1. raised(r.raised) = "purge"
    BY <1>3, <1>6 DEF Purged
  <2> DEFINE s == [w EXCEPT !.raised = "purge"]
  <2>2. Good(s, up, last, applied) /\ s.raised = "purge"
    BY InvParts, RaiseStep
  <2> DEFINE t == [r EXCEPT !.raised = "purge"]
  <2>3. t.raised = "purge" /\ HandlerLeaves(t)
    <3>1. r = [f \in WriteFields |-> r[f]]
      BY <1>3, <1>6 DEF Purged
    <3>2. t.raised = "purge"
      BY <3>1 DEF WriteFields
    <3> QED
      BY <1>4, <2>1, <3>2
  <2> HIDE DEF t
  <2>4. w' = s
    BY <2>3 DEF HandlerLeaves
  <2> HIDE DEF s
  <2> QED
    BY <1>1, <2>2, <2>4, SameLink
<1> QED
  BY <1>5, <1>6

\* Every step keeps the invariant.
LEMMA NextGood ==
    ASSUME RepoInv, [RepoNext]_repoVars
    PROVE  RepoInv'
<1>1. CASE AskAuth \/ RestoreState
  BY <1>1, LinkGood
<1>2. CASE Disconnect
  BY <1>2, DisconnectGood
<1>3. CASE SetValue
  BY <1>3, SetGood
<1>4. CASE AnswerPut
  BY <1>4, AnswerGood
<1>5. CASE PurgeOutstandingWrites
  BY <1>5, PurgeGood
<1>6. CASE DataUpdate
  BY <1>6, UpdateGood
<1>7. CASE \E x \in Txs : StartTransaction(x)
  BY <1>7, StartGood
<1>8. CASE Observe
  BY <1>8, StutterGood DEF Observe
<1>9. CASE \E x \in watchers : Unwatch(x)
  BY <1>9, StutterGood DEF Unwatch
<1>10. CASE ListenAnswered
  BY <1>10, ListenGood
<1>11. CASE ListenRevoked
  BY <1>11, StutterGood DEF ListenRevoked
<1>12. CASE UNCHANGED repoVars
  BY <1>12, StutterGood DEF repoVars
<1> QED
  BY <1>1, <1>2, <1>3, <1>4, <1>5, <1>6, <1>7, <1>8, <1>9, <1>10, <1>11, <1>12 DEF RepoNext

-----------------------------------------------------------------------------
(* Between two handlers the writes are Good: every put, every answer that is  *)
(* held, every transaction in the queue and every id in FWriteTree belongs to *)
(* one call, and the server, the wire and the blocks agree on what it took.   *)
THEOREM RepoInvariant == RepoSpec => []RepoInv
<1> QED
  BY InitGood, NextGood, PTL DEF RepoSpec

\* What the properties need of the invariant.
LEMMA GoodSays ==
    ASSUME RepoInv
    PROVE  /\ Shape(w) /\ w.raised \in {"no", "purge"}
           /\ LET c == View(w, LinkSendsWrites, last, applied)
              IN  /\ Apart(w, c) /\ SetsSound(w, c) /\ TxSound(w, c) /\ Delivered(w, c)
                  /\ c.hand = {w.held[k] : k \in DOMAIN w.held}
                  /\ c.last = last /\ c.applied = applied
BY DEF RepoInv, Good, Sound, View, Held

\* The invariant says it of the writes and the answers that are held.
LEMMA EndsAreOnce ==
    ASSUME RepoInv
    PROVE  WritesEndOnce
<1> DEFINE c == View(w, LinkSendsWrites, last, applied)
<1>1. /\ Shape(w) /\ w.raised \in {"no", "purge"}
      /\ Apart(w, c) /\ SetsSound(w, c) /\ TxSound(w, c)
      /\ c.hand = {w.held[k] : k \in DOMAIN w.held}
  BY GoodSays
<1> HIDE DEF c
<1>2. w.raised # "ack"
  BY <1>1
<1>3. DOMAIN w.told = Txs \cup 1 .. MaxWork /\ w.writes \subseteq Txs \cup 1 .. w.count
      /\ w.count \in Nat
  BY <1>1 DEF Shape
<1>4. ASSUME NEW x \in Txs, w.told[x] # "none"
      PROVE  w.told[x] # "twice" /\ x \notin w.writes
  BY <1>1, <1>4 DEF TxSound
<1>5. ASSUME NEW i \in 1 .. MaxWork, w.told[i] # "none"
      PROVE  w.told[i] # "twice" /\ i \notin w.writes
  <2>1. i \in Nat
    BY RepoAssumption
  <2> QED
    BY <1>1, <1>5, <2>1 DEF SetsSound
<1>6. ASSUME NEW i \in w.writes \ Txs
      PROVE  (i \in DOMAIN w.puts) # (\E k \in DOMAIN w.held : w.held[k].put = i)
  <2>1. i \in w.writes \cap Nat
    BY <1>3
  <2>2. i \in DOMAIN w.puts \/ \E a \in c.hand : a.put = i
    BY <1>1, <2>1 DEF SetsSound
  <2>3. \A a \in c.hand : a.put \notin DOMAIN w.puts
    BY <1>1 DEF Apart
  <2>4. (\E a \in c.hand : a.put = i) <=> \E k \in DOMAIN w.held : w.held[k].put = i
    BY <1>1
  <2> QED
    BY <2>2, <2>3, <2>4
<1> QED
  BY <1>2, <1>3, <1>4, <1>5, <1>6 DEF WritesEndOnce

(* Every set and every transaction has one end, and no write is acked that    *)
(* FWriteTree does not have but in a purge: whatever is restored, canceled,   *)
(* held back or run again, for every number of writes.                        *)
THEOREM SetsEndOnce == RepoSpec => []WritesEndOnce
<1> QED
  BY RepoInvariant, EndsAreOnce, PTL

(* The server takes a transaction at most once, and one reported as committed *)
(* was taken, whichever puts it had taken of the connections that were lost.  *)
THEOREM ServerTakesOnce == RepoSpec => []TransactionsApplyOnce
<1>1. RepoInv => TransactionsApplyOnce
  <2> SUFFICES ASSUME RepoInv PROVE TransactionsApplyOnce
    OBVIOUS
  <2> DEFINE c == View(w, LinkSendsWrites, last, applied)
  <2>1. Delivered(w, c) /\ c.applied = applied
    BY GoodSays
  <2> HIDE DEF c
  <2>2. \A x \in Txs : applied[x] \in {0, 1} /\ (w.told[x] = "ok" => applied[x] = 1)
    BY <2>1 DEF Delivered
  <2> QED
    BY <2>2 DEF TransactionsApplyOnce
<1> QED
  BY <1>1, RepoInvariant, PTL

(* A write that was told of success is not overwritten by an older one: what  *)
(* is sent again on a new connection goes out in the order of the calls.      *)
THEOREM SuccessIsFinal == RepoSpec => []AcksAreFinal
<1>1. RepoInv => AcksAreFinal
  <2> SUFFICES ASSUME RepoInv PROVE AcksAreFinal
    OBVIOUS
  <2> DEFINE c == View(w, LinkSendsWrites, last, applied)
  <2>1. Delivered(w, c) /\ c.last = last
    BY GoodSays
  <2>2. c \in Contexts
    BY InvParts, GoodParts DEF Good, Sound
  <2> HIDE DEF c
  <2>3. last \in Nat
    BY <2>1, <2>2 DEF Contexts
  <2>4. ASSUME NEW i \in 1 .. MaxWork, w.told[i] = "ok"
        PROVE  last >= i
    <3>1. i <= last
      BY <2>1, <2>4 DEF Delivered, Final
    <3> QED
      BY <2>3, <3>1, RepoAssumption
  <2> QED
    BY <2>4 DEF AcksAreFinal
<1> QED
  BY <1>1, RepoInvariant, PTL
=============================================================================

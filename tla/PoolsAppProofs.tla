--------------------------- MODULE PoolsAppProofs ---------------------------
(***************************************************************************)
(* What AuthSession guarantees for every set of requests and every bound,  *)
(* and what PoolsApp guarantees for every number of homes and whatever     *)
(* cells are registered with the menu.                                     *)
(***************************************************************************)
EXTENDS PoolsApp, SequenceTheorems, FiniteSetTheorems, TLAPS

-----------------------------------------------------------------------------
(* The engine. *)

\* The queue of handlers, element by element.
LEMMA QueueElements ==
    ASSUME TypeOK
    PROVE  /\ Len(mainQueue) \in Nat
           /\ DOMAIN mainQueue = 1 .. Len(mainQueue)
           /\ \A i \in 1 .. Len(mainQueue) :
                 /\ mainQueue[i] \in Reports
                 /\ mainQueue[i].req \in Requests
<1>1. Len(mainQueue) \in Nat /\ DOMAIN mainQueue = 1 .. Len(mainQueue)
  BY LenProperties DEF TypeOK
<1>2. \A i \in 1 .. Len(mainQueue) : mainQueue[i] \in Reports
  BY ElementOfSeq DEF TypeOK
<1>3. \A m \in Reports : m.req \in Requests
  BY DEF Reports
<1>. QED  BY <1>1, <1>2, <1>3

\* What a completion handler is handed: the queue stays one of reports.
LEMMA ReportType ==
    ASSUME TypeOK, NEW r \in Requests, NEW got \in Results, Report(r, got)
    PROVE  /\ phase' \in [Requests -> Phases]
           /\ mainQueue' \in Seq(Reports)
           /\ Len(mainQueue') = Len(mainQueue) + 1
           /\ \A i \in 1 .. Len(mainQueue) : mainQueue'[i] = mainQueue[i]
           /\ mainQueue'[Len(mainQueue) + 1].req = r
           /\ mainQueue'[Len(mainQueue) + 1].got = got
<1>1. phase' \in [Requests -> Phases]
  BY DEF Report, TypeOK, Phases
<1>2. [req |-> r, got |-> got] \in Reports
  BY DEF Reports
<1>3. /\ mainQueue' \in Seq(Reports)
      /\ Len(mainQueue') = Len(mainQueue) + 1
      /\ \A i \in 1 .. Len(mainQueue) : mainQueue'[i] = mainQueue[i]
      /\ mainQueue'[Len(mainQueue) + 1] = [req |-> r, got |-> got]
  BY <1>2, AppendProperties DEF Report, TypeOK
<1>4. /\ mainQueue'[Len(mainQueue) + 1].req = r
      /\ mainQueue'[Len(mainQueue) + 1].got = got
  BY <1>3
<1>. QED  BY <1>1, <1>3, <1>4, Zenon

\* Delivering the oldest handler leaves the others in their order.
LEMMA DeliverType ==
    ASSUME TypeOK, Deliver
    PROVE  /\ Head(mainQueue) \in Reports
           /\ Head(mainQueue) = mainQueue[1]
           /\ phase' \in [Requests -> Phases]
           /\ mainQueue' \in Seq(Reports)
           /\ Len(mainQueue) \in Nat /\ Len(mainQueue) >= 1
           /\ Len(mainQueue') = Len(mainQueue) - 1
           /\ \A i \in 1 .. Len(mainQueue') : mainQueue'[i] = mainQueue[i + 1]
<1>1. /\ Head(mainQueue) \in Reports
      /\ Tail(mainQueue) \in Seq(Reports)
      /\ Len(mainQueue) >= 1
      /\ Len(Tail(mainQueue)) = Len(mainQueue) - 1
      /\ \A i \in 1 .. Len(Tail(mainQueue)) : Tail(mainQueue)[i] = mainQueue[i + 1]
  BY HeadTailProperties, EmptySeq DEF TypeOK, Deliver
<1>2. Head(mainQueue).req \in Requests
  BY <1>1 DEF Reports
<1>3. phase' \in [Requests -> Phases]
  BY <1>2 DEF TypeOK, Deliver, Phases
<1>. QED  BY <1>1, <1>3, HeadTailProperties DEF Deliver, TypeOK

\* Type correctness of the authentication layer.
THEOREM TypeCorrect == Spec => []TypeOK
<1>1. Init => TypeOK
  BY DEF Init, TypeOK, Phases
<1>2. ASSUME TypeOK, [Next]_authVars PROVE TypeOK'
  <2>1. ASSUME NEW r \in Requests, Ask(r) PROVE TypeOK'
    BY <1>2, <2>1 DEF TypeOK, Ask, Phases
  <2>2. ASSUME NEW r \in Requests, Begin(r) PROVE TypeOK'
    <3>1. CASE r \in Guest /\ user \in Guest
      <4>1. user \in Results
        BY <3>1 DEF Results, Requests
      <4>2. Report(r, user)
        BY <2>2, <3>1 DEF Begin
      <4>. QED  BY <1>2, <2>2, <3>1, <4>1, <4>2, ReportType DEF TypeOK, Begin, UpdateCurrentUser
    <3>2. CASE ~(r \in Guest /\ user \in Guest)
      BY <1>2, <2>2, <3>2 DEF TypeOK, Begin, Phases
    <3>. QED  BY <3>1, <3>2
  <2>3. ASSUME NEW r \in Requests, TokensArrive(r) PROVE TypeOK'
    BY <1>2, <2>3 DEF TypeOK, TokensArrive, Phases
  <2>4. ASSUME NEW r \in Requests, RequestFails(r) PROVE TypeOK'
    BY <1>2, <2>4, ReportType DEF TypeOK, RequestFails, Results
  <2>5. ASSUME NEW r \in Requests, AccountArrives(r) PROVE TypeOK'
    <3>1. CASE UpdateCurrentUser(r) /\ Report(r, r)
      BY <1>2, <2>5, <3>1, ReportType DEF TypeOK, AccountArrives, UpdateCurrentUser, Results
    <3>2. CASE UpdateRefused(r) /\ Report(r, Failed)
      BY <1>2, <2>5, <3>2, ReportType DEF TypeOK, AccountArrives, UpdateRefused, Results
    <3>. QED  BY <2>5, <3>1, <3>2 DEF AccountArrives
  <2>6. ASSUME NEW r \in Requests, AccountFails(r) PROVE TypeOK'
    <3>1. CASE UpdateCurrentUser(None) /\ Report(r, None)
      BY <1>2, <2>6, <3>1, ReportType DEF TypeOK, AccountFails, UpdateCurrentUser, Results
    <3>2. CASE UNCHANGED <<user, disk>> /\ Report(r, Failed)
      BY <1>2, <2>6, <3>2, ReportType DEF TypeOK, AccountFails, Results
    <3>. QED  BY <2>6, <3>1, <3>2 DEF AccountFails, UpdateRefused
  <2>7. ASSUME Deliver PROVE TypeOK'
    BY <1>2, <2>7, DeliverType DEF TypeOK, Deliver
  <2>8. ASSUME NEW ok \in BOOLEAN, SignOut(ok) PROVE TypeOK'
    BY <1>2, <2>8 DEF TypeOK, SignOut, UpdateCurrentUser, UpdateRefused
  <2>9. ASSUME Relaunch PROVE TypeOK'
    BY <1>2, <2>9 DEF TypeOK, Relaunch, Phases
  <2>10. CASE UNCHANGED authVars
    BY <1>2, <2>10 DEF TypeOK, authVars
  <2>. QED
    BY <1>2, <2>1, <2>2, <2>3, <2>4, <2>5, <2>6, <2>7, <2>8, <2>9, <2>10 DEF Next, Progress
<1>. QED  BY <1>1, <1>2, PTL DEF Spec

-----------------------------------------------------------------------------
(***************************************************************************)
(* Memory and keychain.  A step either leaves both alone, or is a success  *)
(* of updateCurrentUser, or reads the keychain at launch.                  *)
(***************************************************************************)
Coherent == SessionIsDurable /\ SignedOutIsForgotten

LEMMA UpdateKeepsCoherent ==
    ASSUME Coherent, NEW u, UpdateCurrentUser(u), restored' = restored
    PROVE  Coherent'
  BY DEF Coherent, SessionIsDurable, SignedOutIsForgotten, UpdateCurrentUser

LEMMA UnchangedKeepsCoherent ==
    ASSUME Coherent, UNCHANGED <<user, disk, restored>>
    PROVE  Coherent'
  BY DEF Coherent, SessionIsDurable, SignedOutIsForgotten

LEMMA StepKeepsCoherent ==
    ASSUME Coherent, [Next]_authVars
    PROVE  Coherent'
<1>1. ASSUME NEW r \in Requests, Begin(r) PROVE Coherent'
  BY <1>1, UpdateKeepsCoherent, UnchangedKeepsCoherent DEF Begin
<1>2. ASSUME NEW r \in Requests, AccountArrives(r) PROVE Coherent'
  BY <1>2, UpdateKeepsCoherent, UnchangedKeepsCoherent DEF AccountArrives, UpdateRefused
<1>3. ASSUME NEW r \in Requests, AccountFails(r) PROVE Coherent'
  BY <1>3, UpdateKeepsCoherent, UnchangedKeepsCoherent DEF AccountFails, UpdateRefused
<1>4. ASSUME NEW ok \in BOOLEAN, SignOut(ok) PROVE Coherent'
  BY <1>4, UpdateKeepsCoherent, UnchangedKeepsCoherent DEF SignOut, UpdateRefused
<1>5. ASSUME Relaunch PROVE Coherent'
  BY <1>5 DEF Relaunch, Coherent, SessionIsDurable, SignedOutIsForgotten
<1>6. ASSUME NEW r \in Requests, Ask(r) \/ TokensArrive(r) \/ RequestFails(r) PROVE Coherent'
  BY <1>6, UnchangedKeepsCoherent DEF Ask, TokensArrive, RequestFails
<1>7. ASSUME Deliver PROVE Coherent'
  BY <1>7, UnchangedKeepsCoherent DEF Deliver
<1>8. CASE UNCHANGED authVars
  BY <1>8, UnchangedKeepsCoherent DEF authVars
<1>. QED
  BY <1>1, <1>2, <1>3, <1>4, <1>5, <1>6, <1>7, <1>8 DEF Next, Progress

\* A kill at any moment brings back the user who was signed in.
THEOREM SessionDurable == Spec => []SessionIsDurable
<1>1. Init => Coherent
  BY DEF Init, Coherent, SessionIsDurable, SignedOutIsForgotten
<1>2. Coherent => SessionIsDurable
  BY DEF Coherent
<1>. QED  BY <1>1, <1>2, StepKeepsCoherent, PTL DEF Spec

\* After a launch that could read the keychain, a sign-out leaves nothing there
\* for the next launch to find.
THEOREM SignOutForgets == Spec => []SignedOutIsForgotten
<1>1. Init => Coherent
  BY DEF Init, Coherent, SessionIsDurable, SignedOutIsForgotten
<1>2. Coherent => SignedOutIsForgotten
  BY DEF Coherent
<1>. QED  BY <1>1, <1>2, StepKeepsCoherent, PTL DEF Spec

-----------------------------------------------------------------------------
(***************************************************************************)
(* The queue of completion handlers                                        *)
(***************************************************************************)

\* A request that was not waiting for its handler gets one.
LEMMA ReportKeepsOnce ==
    ASSUME TypeOK, HandlerCalledOnce,
           NEW r \in Requests, phase[r] # "reported",
           NEW got \in Results, Report(r, got)
    PROVE  HandlerCalledOnce'
<1>. DEFINE n == Len(mainQueue)
<1>1. /\ n \in Nat /\ DOMAIN mainQueue = 1 .. n
      /\ \A i \in 1 .. n : mainQueue[i] \in Reports
  BY QueueElements
<1>2. /\ mainQueue' \in Seq(Reports)
      /\ Len(mainQueue') = n + 1
      /\ \A i \in 1 .. n : mainQueue'[i] = mainQueue[i]
      /\ mainQueue'[n + 1].req = r
  BY ReportType
<1>3. DOMAIN mainQueue' = 1 .. (n + 1)
  BY <1>2, LenProperties
<1>4. \A i \in 1 .. n : mainQueue[i].req \in Requests /\ mainQueue[i].req # r
  BY <1>1 DEF HandlerCalledOnce, Reports
<1>5. \A q \in Requests : phase'[q] = IF q = r THEN "reported" ELSE phase[q]
  BY DEF Report, TypeOK
<1>6. \A i \in 1 .. (n + 1) : phase'[mainQueue'[i].req] = "reported"
  BY <1>1, <1>2, <1>4, <1>5 DEF HandlerCalledOnce
<1>7. ASSUME NEW i \in 1 .. (n + 1), NEW j \in 1 .. (n + 1),
             mainQueue'[i].req = mainQueue'[j].req
      PROVE  i = j
  <2>1. CASE i \in 1 .. n /\ j \in 1 .. n
    BY <1>1, <1>2, <1>7, <2>1 DEF HandlerCalledOnce
  <2>2. CASE i = n + 1 \/ j = n + 1
    BY <1>1, <1>2, <1>4, <1>7, <2>2
  <2>. QED  BY <1>1, <2>1, <2>2
<1>. QED  BY <1>3, <1>6, <1>7 DEF HandlerCalledOnce

LEMMA DeliverKeepsOnce ==
    ASSUME TypeOK, HandlerCalledOnce, Deliver
    PROVE  HandlerCalledOnce'
<1>. DEFINE n == Len(mainQueue)
            r == Head(mainQueue).req
<1>1. /\ n \in Nat /\ n >= 1 /\ DOMAIN mainQueue = 1 .. n
      /\ \A i \in 1 .. n : mainQueue[i] \in Reports
  BY DeliverType, QueueElements
<1>2. /\ r = mainQueue[1].req
      /\ mainQueue' \in Seq(Reports)
      /\ Len(mainQueue') = n - 1
      /\ \A i \in 1 .. (n - 1) : mainQueue'[i] = mainQueue[i + 1]
  BY DeliverType
<1>3. DOMAIN mainQueue' = 1 .. (n - 1)
  BY <1>2, LenProperties
<1>4. \A i \in 2 .. n : mainQueue[i].req \in Requests /\ mainQueue[i].req # r
  BY <1>1, <1>2 DEF HandlerCalledOnce, Reports
<1>5. \A q \in Requests : q # r => phase'[q] = phase[q]
  BY DEF Deliver, TypeOK
<1>6. \A i \in 1 .. (n - 1) : phase'[mainQueue'[i].req] = "reported"
  <2>1. TAKE i \in 1 .. (n - 1)
  <2>2. i + 1 \in 2 .. n /\ mainQueue'[i] = mainQueue[i + 1]
    BY <1>1, <1>2
  <2>3. phase[mainQueue[i + 1].req] = "reported"
    BY <1>1, <2>2 DEF HandlerCalledOnce
  <2>. QED  BY <1>4, <1>5, <2>2, <2>3
<1>7. ASSUME NEW i \in 1 .. (n - 1), NEW j \in 1 .. (n - 1),
             mainQueue'[i].req = mainQueue'[j].req
      PROVE  i = j
  <2>1. i + 1 \in 1 .. n /\ j + 1 \in 1 .. n
    BY <1>1
  <2>2. mainQueue[i + 1].req = mainQueue[j + 1].req
    BY <1>2, <1>7
  <2>3. i + 1 = j + 1
    BY <1>1, <2>1, <2>2 DEF HandlerCalledOnce
  <2>. QED  BY <2>3
<1>. QED  BY <1>3, <1>6, <1>7 DEF HandlerCalledOnce

\* The handlers in the queue wait for nothing else, so a step that changes no
\* reported request and no handler disturbs nothing.
LEMMA OthersKeepOnce ==
    ASSUME TypeOK, HandlerCalledOnce, UNCHANGED mainQueue,
           \A q \in Requests : phase[q] = "reported" => phase'[q] = "reported"
    PROVE  HandlerCalledOnce'
<1>1. \A i \in DOMAIN mainQueue : mainQueue[i].req \in Requests
  BY QueueElements
<1>. QED  BY <1>1 DEF HandlerCalledOnce

LEMMA StepKeepsOnce ==
    ASSUME TypeOK, HandlerCalledOnce, [Next]_authVars
    PROVE  HandlerCalledOnce'
<1>1. ASSUME NEW r \in Requests, Ask(r) PROVE HandlerCalledOnce'
  <2>1. \A q \in Requests : phase[q] = "reported" => phase'[q] = "reported"
    BY <1>1 DEF Ask, TypeOK
  <2>. QED  BY <1>1, <2>1, OthersKeepOnce DEF Ask
<1>2. ASSUME NEW r \in Requests, Begin(r) PROVE HandlerCalledOnce'
  <2>1. CASE r \in Guest /\ user \in Guest
    <3>1. user \in Results /\ phase[r] # "reported" /\ Report(r, user)
      BY <1>2, <2>1 DEF Begin, Results, Requests
    <3>. QED  BY <3>1, ReportKeepsOnce
  <2>2. CASE ~(r \in Guest /\ user \in Guest)
    <3>1. \A q \in Requests : phase[q] = "reported" => phase'[q] = "reported"
      BY <1>2, <2>2 DEF Begin, TypeOK
    <3>. QED  BY <1>2, <2>2, <3>1, OthersKeepOnce DEF Begin
  <2>. QED  BY <2>1, <2>2
<1>3. ASSUME NEW r \in Requests, TokensArrive(r) PROVE HandlerCalledOnce'
  <2>1. \A q \in Requests : phase[q] = "reported" => phase'[q] = "reported"
    BY <1>3 DEF TokensArrive, TypeOK
  <2>. QED  BY <1>3, <2>1, OthersKeepOnce DEF TokensArrive
<1>4. ASSUME NEW r \in Requests, RequestFails(r) PROVE HandlerCalledOnce'
  BY <1>4, ReportKeepsOnce DEF RequestFails, Results
<1>5. ASSUME NEW r \in Requests, AccountArrives(r) PROVE HandlerCalledOnce'
  <2>1. phase[r] # "reported" /\ \E got \in Results : Report(r, got)
    BY <1>5 DEF AccountArrives, Results
  <2>. QED  BY <2>1, ReportKeepsOnce
<1>6. ASSUME NEW r \in Requests, AccountFails(r) PROVE HandlerCalledOnce'
  <2>1. phase[r] # "reported" /\ \E got \in Results : Report(r, got)
    BY <1>6 DEF AccountFails, Results
  <2>. QED  BY <2>1, ReportKeepsOnce
<1>7. ASSUME Deliver PROVE HandlerCalledOnce'
  BY <1>7, DeliverKeepsOnce
<1>8. ASSUME NEW ok \in BOOLEAN, SignOut(ok) PROVE HandlerCalledOnce'
  BY <1>8, OthersKeepOnce DEF SignOut
<1>9. ASSUME Relaunch PROVE HandlerCalledOnce'
  BY <1>9 DEF Relaunch, HandlerCalledOnce
<1>10. CASE UNCHANGED authVars
  BY <1>10, OthersKeepOnce DEF authVars
<1>. QED
  BY <1>1, <1>2, <1>3, <1>4, <1>5, <1>6, <1>7, <1>8, <1>9, <1>10 DEF Next, Progress

\* No completion handler runs twice for one call.
THEOREM CalledOnce == Spec => []HandlerCalledOnce
<1>1. Init => HandlerCalledOnce
  BY DEF Init, HandlerCalledOnce
<1>. QED  BY <1>1, StepKeepsOnce, TypeCorrect, PTL DEF Spec

-----------------------------------------------------------------------------
\* A reported error leaves the session as it was, for every interleaving.
THEOREM ErrorsKeepSession == Spec => FailureKeepsSession
<1>. DEFINE ReportsError ==
               /\ Len(mainQueue') > Len(mainQueue)
               /\ mainQueue'[Len(mainQueue')].got = Failed
<1>1. ASSUME TypeOK, [Next]_authVars, ReportsError
      PROVE  UNCHANGED <<user, disk>>
  <2>1. ASSUME UNCHANGED mainQueue PROVE FALSE
    BY <1>1, <2>1, LenProperties DEF TypeOK
  <2>2. ASSUME Deliver PROVE FALSE
    BY <1>1, <2>2, DeliverType
  <2>3. ASSUME Relaunch PROVE FALSE
    BY <1>1, <2>3, LenProperties, EmptySeq DEF TypeOK, Relaunch
  <2>4. ASSUME NEW r \in Requests, NEW got \in Results, Report(r, got) PROVE got = Failed
    BY <1>1, <2>4, ReportType
  <2>5. ASSUME NEW r \in Requests, AccountArrives(r) PROVE UNCHANGED <<user, disk>>
    BY <2>4, <2>5, NamesAssumption DEF AccountArrives, UpdateRefused, Results
  <2>6. ASSUME NEW r \in Requests, AccountFails(r) PROVE UNCHANGED <<user, disk>>
    BY <2>4, <2>6, NamesAssumption DEF AccountFails, UpdateRefused, Results
  <2>7. ASSUME NEW r \in Requests, Begin(r) PROVE UNCHANGED <<user, disk>>
    BY <2>7 DEF Begin, UpdateCurrentUser
  <2>8. ASSUME NEW r \in Requests, RequestFails(r) PROVE UNCHANGED <<user, disk>>
    BY <2>8 DEF RequestFails
  <2>. QED
    BY <1>1, <2>1, <2>2, <2>3, <2>5, <2>6, <2>7, <2>8
    DEF Next, Progress, Ask, TokensArrive, SignOut, authVars
<1>. QED  BY <1>1, TypeCorrect, PTL DEF Spec, FailureKeepsSession

-----------------------------------------------------------------------------
(***************************************************************************)
(* Refinement                                                              *)
(***************************************************************************)
PromiseStep == [Promise!Next]_(Promise!vars)

\* What a report does to the set of pending sign-ins.
LEMMA ReportEndsPending ==
    ASSUME TypeOK, NEW r \in Requests, NEW got, Report(r, got)
    PROVE  Pending' = Pending \ {r}
  BY DEF TypeOK, Report, Pending, Phases

LEMMA EndIsPromised ==
    ASSUME TypeOK, NEW r \in Requests, r \in Pending, Pending' = Pending \ {r},
           \/ UNCHANGED <<user, disk>>
           \/ user' = r /\ disk' = r
           \/ /\ r \in Guest \cup SignUp
              /\ user' = None
              /\ disk' = IF user = None THEN disk ELSE None
    PROVE  PromiseStep
  BY DEF PromiseStep, Promise!Next, Promise!End, Promise!Forget

LEMMA StepKeepsPromise ==
    ASSUME TypeOK, SessionIsDurable, HandlerCalledOnce, [Next]_authVars
    PROVE  PromiseStep
<1>1. ASSUME NEW r \in Requests, Ask(r) PROVE PromiseStep
  <2>1. r \notin Pending /\ Pending' = Pending \cup {r}
    BY <1>1 DEF TypeOK, Ask, Pending, Phases
  <2>. QED  BY <1>1, <2>1 DEF PromiseStep, Promise!Next, Promise!Want, Ask
<1>2. ASSUME NEW r \in Requests, Begin(r) PROVE PromiseStep
  <2>1. r \in Pending
    BY <1>2 DEF Begin, Pending
  <2>2. CASE r \in Guest /\ user \in Guest
    BY <1>2, <2>1, <2>2, ReportEndsPending, EndIsPromised DEF Begin, UpdateCurrentUser
  <2>3. CASE ~(r \in Guest /\ user \in Guest)
    <3>1. Pending' = Pending
      BY <1>2, <2>3 DEF TypeOK, Begin, Pending, Phases
    <3>. QED  BY <1>2, <2>3, <3>1 DEF Begin, PromiseStep, Promise!vars
  <2>. QED  BY <2>2, <2>3
<1>3. ASSUME NEW r \in Requests, TokensArrive(r) PROVE PromiseStep
  <2>1. Pending' = Pending
    BY <1>3 DEF TypeOK, TokensArrive, Pending, Phases
  <2>. QED  BY <1>3, <2>1 DEF TokensArrive, PromiseStep, Promise!vars
<1>4. ASSUME NEW r \in Requests, RequestFails(r) PROVE PromiseStep
  <2>1. r \in Pending
    BY <1>4 DEF RequestFails, Pending
  <2>. QED  BY <1>4, <2>1, ReportEndsPending, EndIsPromised DEF RequestFails
<1>5. ASSUME NEW r \in Requests, AccountArrives(r) PROVE PromiseStep
  <2>1. r \in Pending
    BY <1>5 DEF AccountArrives, Pending
  <2>2. CASE UpdateCurrentUser(r) /\ Report(r, r)
    <3>1. user' = r /\ disk' = r
      BY <2>2, NamesAssumption DEF UpdateCurrentUser, SessionIsDurable
    <3>. QED  BY <2>1, <2>2, <3>1, ReportEndsPending, EndIsPromised
  <2>3. CASE UpdateRefused(r) /\ Report(r, Failed)
    BY <2>1, <2>3, ReportEndsPending, EndIsPromised DEF UpdateRefused
  <2>. QED  BY <1>5, <2>2, <2>3 DEF AccountArrives
<1>6. ASSUME NEW r \in Requests, AccountFails(r) PROVE PromiseStep
  <2>1. r \in Pending
    BY <1>6 DEF AccountFails, Pending
  <2>2. CASE r \in Guest \cup SignUp /\ UpdateCurrentUser(None) /\ Report(r, None)
    <3>1. user' = None /\ disk' = IF user = None THEN disk ELSE None
      BY <2>2 DEF UpdateCurrentUser
    <3>. QED  BY <2>1, <2>2, <3>1, ReportEndsPending, EndIsPromised
  <2>3. CASE UNCHANGED <<user, disk>> /\ Report(r, Failed)
    BY <2>1, <2>3, ReportEndsPending, EndIsPromised
  <2>. QED  BY <1>6, <2>2, <2>3 DEF AccountFails, UpdateRefused
<1>7. ASSUME Deliver PROVE PromiseStep
  <2>1. Head(mainQueue) = mainQueue[1] /\ 1 \in DOMAIN mainQueue
    BY <1>7, DeliverType, QueueElements
  <2>2. phase[Head(mainQueue).req] = "reported"
    BY <2>1 DEF HandlerCalledOnce
  <2>3. Pending' = Pending
    BY <1>7, <2>2 DEF TypeOK, Deliver, Pending, Phases
  <2>. QED  BY <1>7, <2>3 DEF Deliver, PromiseStep, Promise!vars
<1>8. ASSUME NEW ok \in BOOLEAN, SignOut(ok) PROVE PromiseStep
  <2>1. Pending' = Pending
    BY <1>8 DEF SignOut, Pending
  <2>2. CASE UpdateCurrentUser(None)
    BY <2>1, <2>2
    DEF UpdateCurrentUser, PromiseStep, Promise!Next, Promise!SignOut, Promise!Forget
  <2>3. CASE UpdateRefused(None)
    BY <2>1, <2>3 DEF UpdateRefused, PromiseStep, Promise!vars
  <2>. QED  BY <1>8, <2>2, <2>3 DEF SignOut
<1>9. ASSUME Relaunch PROVE PromiseStep
  <2>1. Pending' = {}
    BY <1>9 DEF Relaunch, Pending
  <2>. QED  BY <1>9, <2>1 DEF Relaunch, PromiseStep, Promise!Next, Promise!Restart
<1>10. CASE UNCHANGED authVars
  BY <1>10 DEF authVars, Pending, PromiseStep, Promise!vars
<1>. QED
  BY <1>1, <1>2, <1>3, <1>4, <1>5, <1>6, <1>7, <1>8, <1>9, <1>10 DEF Next, Progress

\* FIRAuth implements the durable session the rest of the app counts on.
THEOREM PromiseKept == Spec => KeepsPromise
<1>1. Init => Promise!Init
  BY DEF Init, Promise!Init, Pending
<1>. QED
  BY <1>1, StepKeepsPromise, TypeCorrect, SessionDurable, CalledOnce, PTL
  DEF Spec, KeepsPromise, Promise!Spec, PromiseStep

-----------------------------------------------------------------------------
(***************************************************************************)
(* The handlers on their way and the session there is                      *)
(***************************************************************************)

\* A success report that comes with its own session is the latest.
LEMMA SuccessIsLatest ==
    ASSUME TypeOK, NEW r \in Requests, NEW got \in Results \ {Failed},
           Report(r, got), user' = got
    PROVE  LatestReportIsCurrent'
<1>. DEFINE n == Len(mainQueue)
<1>1. n \in Nat /\ DOMAIN mainQueue' = 1 .. (n + 1)
  BY QueueElements, ReportType, LenProperties
<1>2. n + 1 \in Succeeded' /\ mainQueue'[n + 1].got = got
  BY <1>1, ReportType DEF Succeeded
<1>3. \A i \in Succeeded' : (\A j \in Succeeded' : j <= i) => i = n + 1
  BY <1>1, <1>2 DEF Succeeded
<1>. QED  BY <1>2, <1>3 DEF LatestReportIsCurrent

\* An error report changes neither the session nor the successes before it.
LEMMA ErrorIsNotLatest ==
    ASSUME TypeOK, LatestReportIsCurrent, NEW r \in Requests, Report(r, Failed),
           user' = user
    PROVE  LatestReportIsCurrent'
<1>. DEFINE n == Len(mainQueue)
<1>1. n \in Nat /\ DOMAIN mainQueue = 1 .. n
  BY QueueElements
<1>2. /\ DOMAIN mainQueue' = 1 .. (n + 1)
      /\ mainQueue'[n + 1].got = Failed
      /\ \A i \in 1 .. n : mainQueue'[i] = mainQueue[i]
  BY <1>1, ReportType, LenProperties DEF Results
<1>3. Succeeded' = Succeeded
  BY <1>1, <1>2 DEF Succeeded
<1>4. \A i \in Succeeded : mainQueue'[i] = mainQueue[i]
  BY <1>1, <1>2 DEF Succeeded
<1>. QED  BY <1>3, <1>4 DEF LatestReportIsCurrent

LEMMA DeliverKeepsLatest ==
    ASSUME TypeOK, LatestReportIsCurrent, Deliver
    PROVE  LatestReportIsCurrent'
<1>. DEFINE n == Len(mainQueue)
<1>1. n \in Nat /\ n >= 1 /\ DOMAIN mainQueue = 1 .. n
  BY DeliverType, QueueElements
<1>2. /\ DOMAIN mainQueue' = 1 .. (n - 1)
      /\ \A i \in 1 .. (n - 1) : mainQueue'[i] = mainQueue[i + 1]
  BY <1>1, DeliverType, LenProperties
<1>3. \A i \in Succeeded' : i \in 1 .. (n - 1) /\ i + 1 \in Succeeded
  BY <1>1, <1>2 DEF Succeeded
<1>4. \A j \in Succeeded : j \in 1 .. n /\ (j # 1 => j - 1 \in Succeeded')
  <2>1. TAKE j \in Succeeded
  <2>2. j \in 1 .. n /\ mainQueue[j].got # Failed
    BY <1>1 DEF Succeeded
  <2>3. ASSUME j # 1 PROVE j - 1 \in Succeeded'
    <3>1. j - 1 \in 1 .. (n - 1) /\ (j - 1) + 1 = j
      BY <1>1, <2>2, <2>3
    <3>. QED  BY <1>2, <2>2, <3>1 DEF Succeeded
  <2>. QED  BY <2>2, <2>3
<1>5. ASSUME NEW i \in Succeeded', \A j \in Succeeded' : j <= i
      PROVE  user' \in {mainQueue'[i].got, None}
  <2>1. \A j \in Succeeded : j <= i + 1
    BY <1>1, <1>3, <1>4, <1>5
  <2>2. user \in {mainQueue[i + 1].got, None}
    BY <1>3, <2>1 DEF LatestReportIsCurrent
  <2>. QED  BY <1>2, <1>3, <2>2 DEF Deliver
<1>. QED  BY <1>5 DEF LatestReportIsCurrent

\* The main thread is told of the sessions in the order they were made.
THEOREM ReportsFollowSession == Spec => []LatestReportIsCurrent
<1>1. Init => LatestReportIsCurrent
  BY DEF Init, LatestReportIsCurrent, Succeeded
<1>2. ASSUME TypeOK, LatestReportIsCurrent, [Next]_authVars
      PROVE  LatestReportIsCurrent'
  <2>1. ASSUME UNCHANGED mainQueue, user' \in {user, None} PROVE LatestReportIsCurrent'
    BY <1>2, <2>1 DEF LatestReportIsCurrent, Succeeded
  <2>2. ASSUME NEW r \in Requests, Begin(r) PROVE LatestReportIsCurrent'
    <3>1. CASE r \in Guest /\ user \in Guest
      <4>1. user \in Results \ {Failed}
        BY <3>1, NamesAssumption DEF Results, Requests
      <4>. QED  BY <1>2, <2>2, <3>1, <4>1, SuccessIsLatest DEF Begin, UpdateCurrentUser
    <3>2. CASE ~(r \in Guest /\ user \in Guest)
      BY <2>1, <2>2, <3>2 DEF Begin
    <3>. QED  BY <3>1, <3>2
  <2>3. ASSUME NEW r \in Requests, RequestFails(r) PROVE LatestReportIsCurrent'
    BY <1>2, <2>3, ErrorIsNotLatest DEF RequestFails
  <2>4. ASSUME NEW r \in Requests, AccountArrives(r) PROVE LatestReportIsCurrent'
    <3>1. CASE UpdateCurrentUser(r) /\ Report(r, r)
      BY <1>2, <3>1, NamesAssumption, SuccessIsLatest DEF UpdateCurrentUser, Results
    <3>2. CASE UpdateRefused(r) /\ Report(r, Failed)
      BY <1>2, <3>2, ErrorIsNotLatest DEF UpdateRefused
    <3>. QED  BY <2>4, <3>1, <3>2 DEF AccountArrives
  <2>5. ASSUME NEW r \in Requests, AccountFails(r) PROVE LatestReportIsCurrent'
    <3>1. CASE UpdateCurrentUser(None) /\ Report(r, None)
      BY <1>2, <3>1, NamesAssumption, SuccessIsLatest DEF UpdateCurrentUser, Results
    <3>2. CASE UNCHANGED <<user, disk>> /\ Report(r, Failed)
      BY <1>2, <3>2, ErrorIsNotLatest
    <3>. QED  BY <2>5, <3>1, <3>2 DEF AccountFails, UpdateRefused
  <2>6. ASSUME Deliver PROVE LatestReportIsCurrent'
    BY <1>2, <2>6, DeliverKeepsLatest
  <2>7. ASSUME Relaunch PROVE LatestReportIsCurrent'
    BY <2>7 DEF Relaunch, LatestReportIsCurrent, Succeeded
  <2>. QED
    BY <1>2, <2>1, <2>2, <2>3, <2>4, <2>5, <2>6, <2>7
    DEF Next, Progress, Ask, TokensArrive, SignOut, UpdateCurrentUser, UpdateRefused, authVars
<1>. QED  BY <1>1, <1>2, TypeCorrect, PTL DEF Spec

-----------------------------------------------------------------------------
USE HomesAssumption

(***************************************************************************)
(* The app drives the authentication layer only through its operations, so *)
(* what is proved of AuthSession holds under every screen.                 *)
(***************************************************************************)
LEMMA TapsUseAuth ==
    ASSUME NEW i \in Homes, NEW r \in Requests,
           TapGuest(i, r) \/ SubmitForm(i, r)
    PROVE  Next
  BY DEF TapGuest, SubmitForm, Submit, Next

LEMMA AnswersUseAuth ==
    ASSUME NEW r \in Requests,
           FacebookSheetEnds(r) \/ GraphAnswers(r) \/ GoogleSheetEnds(r) \/ AuthProgress(r)
    PROVE  [Next]_authVars
<1>1. CASE FacebookSheetEnds(r)
  BY <1>1 DEF FacebookSheetEnds
<1>2. CASE GraphAnswers(r)
  BY <1>2 DEF GraphAnswers, Next
<1>3. CASE GoogleSheetEnds(r)
  BY <1>3 DEF GoogleSheetEnds, Next
<1>4. CASE AuthProgress(r)
  BY <1>4 DEF AuthProgress, Next
<1>. QED  BY <1>1, <1>2, <1>3, <1>4

LEMMA StepUsesAuth ==
    ASSUME [AppNext]_vars
    PROVE  [Next]_authVars
<1>1. CASE Appears
  BY <1>1 DEF Appears, HomeAppears, LoginAppears, MenuAppears
<1>2. ASSUME NEW i \in Homes, NEW r \in Requests, TapGuest(i, r) \/ SubmitForm(i, r)
      PROVE  [Next]_authVars
  BY <1>2, TapsUseAuth
<1>3. ASSUME NEW i \in Homes, NEW num \in {1, 2}, TapSignUpOrLogin(i, num)
      PROVE  [Next]_authVars
  BY <1>3 DEF TapSignUpOrLogin
<1>4. ASSUME NEW i \in Homes, TapBack(i) \/ TapFacebook(i) \/ TapGoogle(i)
      PROVE  [Next]_authVars
  BY <1>4 DEF TapBack, TapFacebook, TapGoogle
<1>5. CASE TapLogout
  BY <1>5 DEF TapLogout, Next
<1>6. CASE TapItem
  BY <1>6 DEF TapItem
<1>7. ASSUME NEW r \in Requests,
             FacebookSheetEnds(r) \/ GraphAnswers(r) \/ GoogleSheetEnds(r) \/ AuthProgress(r)
      PROVE  [Next]_authVars
  BY <1>7, AnswersUseAuth
<1>8. CASE DeliverReport
  BY <1>8 DEF DeliverReport, Next
<1>9. CASE AppRelaunch
  BY <1>9 DEF AppRelaunch, Next
<1>10. CASE UNCHANGED vars
  BY <1>10 DEF vars
<1>. QED
  BY <1>1, <1>2, <1>3, <1>4, <1>5, <1>6, <1>7, <1>8, <1>9, <1>10 DEF AppNext

\* Every behaviour of the app is one of the authentication layer.
THEOREM AppUsesAuth == AppSpec => Spec
<1>1. AppInit => Init
  BY DEF AppInit
<1>. QED  BY <1>1, StepUsesAuth, PTL DEF AppSpec, Spec

\* Hence a kill or a crash of the app, on any screen and in the middle of any
\* tap or answer, never loses who is signed in, and never keeps a session the
\* app does not have.
THEOREM AppSessionDurable == AppSpec => []SessionIsDurable
  BY AppUsesAuth, SessionDurable, PTL

\* And the app sees a durable session.
THEOREM AppPromiseKept == AppSpec => KeepsPromise
  BY AppUsesAuth, PromiseKept, PTL

-----------------------------------------------------------------------------
(***************************************************************************)
(* Sequences of screens                                                    *)
(***************************************************************************)
StackType == stack \in Seq(Screens) /\ stack # <<>>

LEMMA StackElements ==
    ASSUME StackType
    PROVE  /\ Len(stack) \in Nat /\ Len(stack) >= 1
           /\ DOMAIN stack = 1 .. Len(stack)
           /\ \A j \in 1 .. Len(stack) : stack[j] \in Screens
           /\ Top \in Screens
<1>1. Len(stack) \in Nat /\ Len(stack) >= 1 /\ DOMAIN stack = 1 .. Len(stack)
  BY EmptySeq, LenProperties DEF StackType
<1>2. \A j \in 1 .. Len(stack) : stack[j] \in Screens
  BY ElementOfSeq DEF StackType
<1>. QED  BY <1>1, <1>2 DEF Top

LEMMA PushType ==
    ASSUME StackType, NEW vc \in Screens, Push(vc)
    PROVE  /\ StackType'
           /\ Len(stack') = Len(stack) + 1
           /\ DOMAIN stack' = 1 .. (Len(stack) + 1)
           /\ \A j \in 1 .. Len(stack) : stack'[j] = stack[j]
           /\ stack'[Len(stack) + 1] = vc
           /\ Top' = vc
<1>1. /\ stack' \in Seq(Screens)
      /\ Len(stack') = Len(stack) + 1
      /\ \A j \in 1 .. Len(stack) : stack'[j] = stack[j]
      /\ stack'[Len(stack) + 1] = vc
  BY AppendProperties DEF StackType, Push
<1>2. stack' # <<>>
  <2>1. Len(stack') # 0
    BY <1>1, StackElements
  <2>2. Len(<<>>) = 0
    BY EmptySeq
  <2>. QED  BY <2>1, <2>2
<1>3. DOMAIN stack' = 1 .. (Len(stack) + 1)
  BY <1>1, LenProperties
<1>. QED  BY <1>1, <1>2, <1>3 DEF StackType, Top

LEMMA PopType ==
    ASSUME StackType, Len(stack) > 1, stack' = SubSeq(stack, 1, Len(stack) - 1)
    PROVE  /\ StackType'
           /\ Len(stack') = Len(stack) - 1
           /\ DOMAIN stack' = 1 .. (Len(stack) - 1)
           /\ \A j \in 1 .. (Len(stack) - 1) : stack'[j] = stack[j]
<1>. DEFINE n == Len(stack) - 1
<1>1. Len(stack) \in Nat /\ n \in Int /\ 1 <= n
  BY StackElements
<1>2. \A j \in 1 .. n : stack[j] \in Screens
  BY <1>1, StackElements
<1>3. /\ SubSeq(stack, 1, n) \in Seq(Screens)
      /\ Len(SubSeq(stack, 1, n)) = IF 1 <= n THEN n - 1 + 1 ELSE 0
      /\ \A j \in 1 .. n - 1 + 1 : SubSeq(stack, 1, n)[j] = stack[1 + j - 1]
  BY <1>1, <1>2, SubSeqProperties
<1>4. stack' \in Seq(Screens) /\ Len(stack') = n /\ \A j \in 1 .. n : stack'[j] = stack[j]
  BY <1>1, <1>3
<1>5. stack' # <<>>
  <2>1. Len(stack') # 0
    BY <1>1, <1>4
  <2>2. Len(<<>>) = 0
    BY EmptySeq
  <2>. QED  BY <2>1, <2>2
<1>6. DOMAIN stack' = 1 .. n
  BY <1>4, LenProperties
<1>. QED  BY <1>4, <1>5, <1>6 DEF StackType

\* The root of the stack never goes away, so that back always finds a screen.
NavType ==
    /\ StackType
    /\ stack[1] = Home(1)
    /\ homes \in Homes
    /\ appearing \in BOOLEAN

LEMMA PushKeepsNavType ==
    ASSUME NavType, NEW vc \in Screens, Push(vc), homes' \in Homes
    PROVE  NavType'
<1>1. StackType' /\ stack'[1] = stack[1]
  BY PushType, StackElements DEF NavType
<1>. QED  BY <1>1 DEF NavType, Push

LEMMA PopKeepsNavType ==
    ASSUME NavType, NEW i \in Homes, TapBack(i)
    PROVE  NavType' /\ Len(stack) > 1
<1>1. Len(stack) \in Nat /\ Len(stack) >= 1
  BY StackElements DEF NavType
<1>2. Top # stack[1]
  BY DEF TapBack, Touchable, NavType, Home, Login
<1>3. Len(stack) > 1
  BY <1>1, <1>2 DEF Top
<1>4. StackType' /\ stack'[1] = stack[1]
  BY <1>1, <1>3, PopType DEF NavType, TapBack
<1>. QED  BY <1>3, <1>4 DEF NavType, TapBack

\* A login screen on the stack belongs to one of the homes.
LEMMA LoginHasHome ==
    ASSUME StackType, NEW i, OnStack(Login(i))
    PROVE  i \in Homes
<1>1. PICK j \in DOMAIN stack : stack[j] = Login(i)
  BY DEF OnStack
<1>2. Login(i) \in Screens
  BY <1>1, StackElements
<1>3. Login(i).kind = "login" /\ Login(i).home = i
  BY DEF Login
<1>. QED  BY <1>2, <1>3 DEF Screens, Home, Login, LoginMenu, NewMenu

-----------------------------------------------------------------------------
(***************************************************************************)
(* The stack                                                               *)
(***************************************************************************)

\* StackDiscipline is inductive once the homes on the stack are known to be
\* among those made: the home a logout pushes is then a new one.
HomesCounted ==
    \A j \in DOMAIN stack : stack[j].kind = "home" => stack[j].home <= homes

StackInv == NavType /\ StackDiscipline /\ HomesCounted

\* What a controller needs below it and around it to be pushed.
MayPush(vc) ==
    /\ vc # NewMenu => ~OnStack(vc)
    /\ vc.kind = "login" => Top = Home(vc.home)
    /\ vc.kind = "loginMenu" => OnStack(Login(vc.home))
    /\ vc.kind = "home" => IsMenu(Top) /\ vc.home <= homes'

LEMMA PushKeepsStackInv ==
    ASSUME StackInv, NEW vc \in Screens, Push(vc), MayPush(vc),
           homes' \in Homes, homes' >= homes
    PROVE  StackInv'
<1>. DEFINE n == Len(stack)
<1>0. StackType
  BY DEF StackInv, NavType
<1>1. NavType'
  BY PushKeepsNavType DEF StackInv
<1>2. n \in Nat /\ n >= 1 /\ DOMAIN stack = 1 .. n /\ DOMAIN stack' = 1 .. (n + 1)
  BY <1>0, StackElements, PushType
<1>3. /\ \A j \in 1 .. n : stack'[j] = stack[j]
      /\ stack'[n + 1] = vc
      /\ stack[n] = Top
  BY <1>0, PushType DEF Top
<1>4. \A j \in 1 .. (n + 1) : j \in 1 .. n \/ j = n + 1
  BY <1>2
<1>5. stack'[1] = Home(1)
  BY <1>2, <1>3 DEF StackInv, StackDiscipline
<1>6. ASSUME NEW j \in 1 .. (n + 1), NEW k \in 1 .. (n + 1), j # k,
             stack'[j] = stack'[k], stack'[j] # NewMenu
      PROVE  FALSE
  <2>1. \A l \in 1 .. n : stack[l] = vc => vc = NewMenu
    BY <1>2 DEF MayPush, OnStack
  <2>2. CASE j \in 1 .. n /\ k \in 1 .. n
    BY <1>2, <1>3, <1>6, <2>2 DEF StackInv, StackDiscipline
  <2>3. CASE j = n + 1 /\ k \in 1 .. n
    BY <1>3, <1>6, <2>1, <2>3
  <2>4. CASE j \in 1 .. n /\ k = n + 1
    BY <1>3, <1>6, <2>1, <2>4
  <2>. QED  BY <1>4, <1>6, <2>2, <2>3, <2>4
<1>7. ASSUME NEW j \in 1 .. (n + 1), stack'[j].kind = "login"
      PROVE  j > 1 /\ stack'[j - 1] = Home(stack'[j].home)
  <2>1. CASE j \in 1 .. n
    <3>1. j > 1 /\ stack[j - 1] = Home(stack[j].home)
      BY <1>2, <1>3, <1>7, <2>1 DEF StackInv, StackDiscipline
    <3>. QED  BY <1>2, <1>3, <2>1, <3>1
  <2>2. CASE j = n + 1
    BY <1>2, <1>3, <1>7, <2>2 DEF MayPush
  <2>. QED  BY <1>4, <2>1, <2>2
<1>8. ASSUME NEW j \in 1 .. (n + 1), stack'[j].kind = "loginMenu"
      PROVE  \E k \in 1 .. (j - 1) : stack'[k] = Login(stack'[j].home)
  <2>1. CASE j \in 1 .. n
    <3>1. PICK k \in 1 .. (j - 1) : stack[k] = Login(stack[j].home)
      BY <1>2, <1>3, <1>8, <2>1 DEF StackInv, StackDiscipline
    <3>. QED  BY <1>2, <1>3, <2>1, <3>1
  <2>2. CASE j = n + 1
    <3>1. PICK k \in 1 .. n : stack[k] = Login(vc.home)
      BY <1>2, <1>3, <1>8, <2>2 DEF MayPush, OnStack
    <3>. QED  BY <1>2, <1>3, <2>2, <3>1
  <2>. QED  BY <1>4, <2>1, <2>2
<1>9. ASSUME NEW j \in 1 .. (n + 1), stack'[j].kind = "home", j > 1
      PROVE  IsMenu(stack'[j - 1])
  <2>1. CASE j \in 1 .. n
    <3>1. IsMenu(stack[j - 1])
      BY <1>2, <1>3, <1>9, <2>1 DEF StackInv, StackDiscipline
    <3>. QED  BY <1>2, <1>3, <1>9, <2>1, <3>1
  <2>2. CASE j = n + 1
    BY <1>2, <1>3, <1>9, <2>2 DEF MayPush
  <2>. QED  BY <1>4, <2>1, <2>2
<1>10. HomesCounted'
  <2>1. ASSUME NEW j \in 1 .. (n + 1), stack'[j].kind = "home"
        PROVE  stack'[j].home <= homes'
    <3>1. CASE j = n + 1
      BY <1>3, <2>1, <3>1 DEF MayPush
    <3>2. CASE j \in 1 .. n
      <4>1. stack[j].home <= homes
        BY <1>2, <1>3, <2>1, <3>2 DEF StackInv, HomesCounted
      <4>2. stack[j].home \in Homes
        BY <1>0, <1>3, <2>1, <3>2, StackElements
        DEF Screens, Home, Login, LoginMenu, NewMenu
      <4>. QED  BY <1>3, <3>2, <4>1, <4>2 DEF StackInv, NavType, Homes
    <3>. QED  BY <1>4, <3>1, <3>2
  <2>. QED  BY <1>2, <2>1 DEF HomesCounted
<1>11. StackDiscipline'
  BY <1>2, <1>5, <1>6, <1>7, <1>8, <1>9 DEF StackDiscipline
<1>. QED  BY <1>1, <1>10, <1>11 DEF StackInv

LEMMA PopKeepsStackInv ==
    ASSUME StackInv, NEW i \in Homes, TapBack(i)
    PROVE  StackInv' /\ Top' = Home(i)
<1>. DEFINE n == Len(stack)
<1>1. NavType' /\ n > 1 /\ StackType
  BY PopKeepsNavType DEF StackInv, NavType
<1>2. n \in Nat /\ DOMAIN stack = 1 .. n
  BY <1>1, StackElements
<1>3. /\ Len(stack') = n - 1
      /\ DOMAIN stack' = 1 .. (n - 1)
      /\ \A j \in 1 .. (n - 1) : stack'[j] = stack[j]
  BY <1>1, PopType DEF TapBack
<1>4. HomesCounted'
  BY <1>2, <1>3 DEF StackInv, HomesCounted, TapBack
<1>5. ASSUME NEW j \in 1 .. (n - 1), stack'[j].kind = "loginMenu"
      PROVE  \E k \in 1 .. (j - 1) : stack'[k] = Login(stack'[j].home)
  <2>1. PICK k \in 1 .. (j - 1) : stack[k] = Login(stack[j].home)
    BY <1>2, <1>3, <1>5 DEF StackInv, StackDiscipline
  <2>. QED  BY <1>2, <1>3, <2>1
<1>6. ASSUME NEW j \in 1 .. (n - 1), stack'[j].kind = "login"
      PROVE  j > 1 /\ stack'[j - 1] = Home(stack'[j].home)
  <2>1. j > 1 /\ stack[j - 1] = Home(stack[j].home)
    BY <1>2, <1>3, <1>6 DEF StackInv, StackDiscipline
  <2>. QED  BY <1>2, <1>3, <2>1
<1>7. ASSUME NEW j \in 1 .. (n - 1), stack'[j].kind = "home", j > 1
      PROVE  IsMenu(stack'[j - 1])
  <2>1. IsMenu(stack[j - 1])
    BY <1>2, <1>3, <1>7 DEF StackInv, StackDiscipline
  <2>. QED  BY <1>2, <1>3, <1>7, <2>1
<1>8. \A j, k \in 1 .. (n - 1) : j # k /\ stack'[j] = stack'[k] => stack'[j] = NewMenu
  BY <1>2, <1>3 DEF StackInv, StackDiscipline
<1>9. StackDiscipline'
  BY <1>1, <1>3, <1>5, <1>6, <1>7, <1>8 DEF StackDiscipline, NavType
<1>10. Top' = Home(i)
  <2>1. stack[n] = Login(i)
    BY DEF TapBack, Touchable, Top
  <2>2. stack[n - 1] = Home(i)
    BY <1>1, <1>2, <2>1 DEF StackInv, StackDiscipline, Login
  <2>. QED  BY <1>1, <1>2, <1>3, <2>2 DEF Top
<1>. QED  BY <1>1, <1>4, <1>9, <1>10 DEF StackInv

LEMMA SameStackKeepsStackInv ==
    ASSUME StackInv, UNCHANGED <<stack, homes>>, appearing' \in BOOLEAN
    PROVE  StackInv'
  BY DEF StackInv, NavType, StackType, StackDiscipline, HomesCounted

LEMMA FreshStackInv ==
    ASSUME stack = <<Home(1)>>, homes = 1, appearing = TRUE
    PROVE  StackInv
<1>1. Home(1) \in Screens /\ 1 \in Homes
  BY DEF Screens, Homes
<1>2. /\ <<Home(1)>> \in Seq(Screens) /\ <<Home(1)>> # <<>>
      /\ <<Home(1)>>[1] = Home(1) /\ DOMAIN <<Home(1)>> = 1 .. 1
  BY <1>1
<1>. QED
  BY <1>1, <1>2
  DEF StackInv, NavType, StackType, StackDiscipline, HomesCounted, Home

\* The screens a completion handler or an appearance pushes.
LEMMA MenuMayBePushed ==
    ASSUME NEW i \in Homes
    PROVE  /\ NewMenu \in Screens /\ MayPush(NewMenu)
           /\ LoginMenu(i) \in Screens
           /\ OnStack(Login(i)) /\ ~OnStack(LoginMenu(i)) => MayPush(LoginMenu(i))
  BY DEF Screens, MayPush, NewMenu, LoginMenu

LEMMA LoginMayBePushed ==
    ASSUME StackInv, NEW i \in Homes, Top = Home(i)
    PROVE  Login(i) \in Screens /\ MayPush(Login(i))
<1>. DEFINE n == Len(stack)
<1>1. n \in Nat /\ n >= 1 /\ DOMAIN stack = 1 .. n
  BY StackElements DEF StackInv, NavType
<1>2. Login(i) \in Screens
  BY DEF Screens
<1>3. ASSUME NEW j \in 1 .. n, stack[j] = Login(i)
      PROVE  FALSE
  <2>1. j > 1 /\ stack[j - 1] = Home(i)
    BY <1>1, <1>3 DEF StackInv, StackDiscipline, Login
  <2>2. stack[n] = Home(i) /\ Home(i) # NewMenu
    BY DEF Top, Home, NewMenu
  <2>. QED  BY <1>1, <2>1, <2>2 DEF StackInv, StackDiscipline
<1>. QED  BY <1>1, <1>2, <1>3 DEF MayPush, OnStack, Login

LEMMA DeliverKeepsStackInv ==
    ASSUME StackInv, DeliverReport
    PROVE  StackInv'
<1>. DEFINE i == origin[Head(mainQueue).req]
<1>1. CASE UNCHANGED navVars
  BY <1>1, SameStackKeepsStackInv DEF navVars, StackInv, NavType
<1>2. CASE Push(NewMenu) /\ UNCHANGED homes
  BY <1>2, PushKeepsStackInv, MenuMayBePushed DEF StackInv, NavType, Homes
<1>3. CASE OnStack(Login(i)) /\ ~OnStack(LoginMenu(i)) /\ Push(LoginMenu(i)) /\ UNCHANGED homes
  <2>1. i \in Homes
    BY <1>3, LoginHasHome DEF StackInv, NavType
  <2>2. LoginMenu(i) \in Screens /\ MayPush(LoginMenu(i))
    BY <1>3, <2>1, MenuMayBePushed
  <2>. QED  BY <1>3, <2>2, PushKeepsStackInv DEF StackInv, NavType, Homes
<1>. QED  BY <1>1, <1>2, <1>3 DEF DeliverReport, ShowLoginMenu, Raise

LEMMA LogoutKeepsStackInv ==
    ASSUME StackInv, TapLogout
    PROVE  StackInv'
<1>. DEFINE next == Home(homes')
<1>1. CASE homes' = homes + 1 /\ Push(next)
  <2>1. homes \in Nat /\ homes' \in Homes /\ homes' >= homes
    BY <1>1 DEF TapLogout, StackInv, NavType, Homes
  <2>2. next \in Screens
    BY <2>1 DEF Screens
  <2>3. ~OnStack(next)
    <3>1. next.kind = "home" /\ next.home = homes + 1
      BY <1>1 DEF Home
    <3>. QED  BY <2>1, <3>1 DEF OnStack, StackInv, HomesCounted
  <2>4. MayPush(next)
    <3>1. next.kind = "home" /\ next.home = homes'
      BY DEF Home
    <3>2. next.home <= homes'
      BY <2>1, <3>1 DEF Homes
    <3>3. IsMenu(Top)
      BY DEF TapLogout
    <3>. QED  BY <2>3, <3>1, <3>2, <3>3 DEF MayPush
  <2>. QED  BY <1>1, <2>1, <2>2, <2>4, PushKeepsStackInv
<1>2. CASE UNCHANGED navVars
  BY <1>2, SameStackKeepsStackInv DEF navVars, StackInv, NavType
<1>. QED  BY <1>1, <1>2 DEF TapLogout

LEMMA StepKeepsStackInv ==
    ASSUME StackInv, [AppNext]_vars
    PROVE  StackInv'
<1>0. ASSUME UNCHANGED navVars PROVE StackInv'
  BY <1>0, SameStackKeepsStackInv DEF navVars, StackInv, NavType
<1>1. CASE HomeAppears
  <2>1. CASE Push(NewMenu)
    <3>1. 1 \in Homes
      BY DEF Homes
    <3>. QED
      BY <1>1, <2>1, <3>1, PushKeepsStackInv, MenuMayBePushed
      DEF HomeAppears, StackInv, NavType, Homes
  <2>2. CASE appearing' = FALSE /\ UNCHANGED stack
    BY <1>1, <2>2, SameStackKeepsStackInv DEF HomeAppears
  <2>. QED  BY <1>1, <2>1, <2>2 DEF HomeAppears
<1>2. CASE LoginAppears \/ MenuAppears
  BY <1>0, <1>2, SameStackKeepsStackInv DEF LoginAppears, MenuAppears, Raise
<1>3. ASSUME NEW i \in Homes, NEW r \in Requests, TapGuest(i, r) \/ SubmitForm(i, r)
      PROVE  StackInv'
  BY <1>0, <1>3 DEF TapGuest, SubmitForm, Submit
<1>4. ASSUME NEW i \in Homes, NEW num \in {1, 2}, TapSignUpOrLogin(i, num)
      PROVE  StackInv'
  <2>1. Top = Home(i) /\ Push(Login(i)) /\ homes' = homes
    BY <1>4 DEF TapSignUpOrLogin, Touchable
  <2>. QED
    BY <2>1, LoginMayBePushed, PushKeepsStackInv DEF StackInv, NavType, Homes
<1>5. ASSUME NEW i \in Homes, TapBack(i) PROVE StackInv'
  BY <1>5, PopKeepsStackInv
<1>6. ASSUME NEW i \in Homes, TapFacebook(i) \/ TapGoogle(i) PROVE StackInv'
  BY <1>0, <1>6 DEF TapFacebook, TapGoogle
<1>7. CASE TapLogout
  BY <1>7, LogoutKeepsStackInv
<1>8. CASE TapItem
  BY <1>0, <1>8 DEF TapItem, Raise
<1>9. ASSUME NEW r \in Requests,
             FacebookSheetEnds(r) \/ GraphAnswers(r) \/ GoogleSheetEnds(r) \/ AuthProgress(r)
      PROVE  StackInv'
  BY <1>0, <1>9 DEF FacebookSheetEnds, GraphAnswers, GoogleSheetEnds, AuthProgress, uiVars
<1>10. CASE DeliverReport
  BY <1>10, DeliverKeepsStackInv
<1>11. CASE AppRelaunch
  <2>1. (stack = <<Home(1)>> /\ homes = 1 /\ appearing = TRUE)'
    BY <1>11 DEF AppRelaunch
  <2>2. (stack = <<Home(1)>> /\ homes = 1 /\ appearing = TRUE => StackInv)'
    BY FreshStackInv, PTL
  <2>. QED  BY <2>1, <2>2
<1>12. CASE UNCHANGED vars
  BY <1>0, <1>12 DEF vars, uiVars
<1>. QED
  BY <1>1, <1>2, <1>3, <1>4, <1>5, <1>6, <1>7, <1>8, <1>9, <1>10, <1>11, <1>12
  DEF AppNext, Appears

LEMMA StackInvHolds == AppSpec => []StackInv
<1>1. AppInit => StackInv
  BY FreshStackInv DEF AppInit
<1>. QED  BY <1>1, StepKeepsStackInv, PTL DEF AppSpec

\* No controller is on the stack twice and each one lies on the one it was
\* opened from, however many sign-ins, logouts and homes there are.
THEOREM StackIsDisciplined == AppSpec => []StackDiscipline
<1>1. StackInv => StackDiscipline
  BY DEF StackInv
<1>. QED  BY <1>1, StackInvHolds, PTL

-----------------------------------------------------------------------------
(***************************************************************************)
(* Type correctness                                                        *)
(***************************************************************************)

\* The variables beside the stack.
ScreenType ==
    /\ loginVsSignup \in 0 .. 2
    /\ form \in [Homes -> 0 .. 2]
    /\ origin \in [Requests -> 0 .. MaxHomes]
    /\ fbToken \in BOOLEAN
    /\ sheet \in Sheets
    /\ graph \subseteq Facebook
    /\ crash \in Crashes

LEMMA StepKeepsScreenType ==
    ASSUME ScreenType, [AppNext]_vars
    PROVE  ScreenType'
<1>. USE DEF ScreenType
<1>0. \A i \in Homes : i \in 0 .. MaxHomes
  BY DEF Homes
<1>1. CASE Appears
  BY <1>1 DEF Appears, HomeAppears, LoginAppears, MenuAppears, Raise, Crashes, fbVars
<1>2. ASSUME NEW i \in Homes, NEW r \in Requests, TapGuest(i, r) \/ SubmitForm(i, r)
      PROVE  ScreenType'
  BY <1>0, <1>2 DEF TapGuest, SubmitForm, Submit, fbVars
<1>3. ASSUME NEW i \in Homes, NEW num \in {1, 2}, TapSignUpOrLogin(i, num)
      PROVE  ScreenType'
  BY <1>3 DEF TapSignUpOrLogin, fbVars
<1>4. ASSUME NEW i \in Homes, TapBack(i) \/ TapFacebook(i) \/ TapGoogle(i)
      PROVE  ScreenType'
  <2>1. CASE TapBack(i)
    BY <2>1 DEF TapBack, fbVars
  <2>2. CASE TapFacebook(i) \/ TapGoogle(i)
    <3>1. fbToken' \in BOOLEAN
      BY <2>2 DEF TapFacebook, TapGoogle
    <3>2. \A sdk \in {"facebook", "google"} : [sdk |-> sdk, home |-> i] \in Sheets
      BY DEF Sheets
    <3>3. sheet' \in Sheets
      BY <2>2, <3>2 DEF TapFacebook, TapGoogle
    <3>4. UNCHANGED <<loginVsSignup, form, origin, graph, crash>>
      BY <2>2 DEF TapFacebook, TapGoogle
    <3>. QED  BY <3>1, <3>3, <3>4
  <2>. QED  BY <1>4, <2>1, <2>2
<1>5. CASE TapLogout \/ TapItem
  <2>1. CASE TapLogout
    <3>1. fbToken' \in BOOLEAN
      BY <2>1 DEF TapLogout
    <3>2. UNCHANGED <<loginVsSignup, form, origin, sheet, graph, crash>>
      BY <2>1 DEF TapLogout
    <3>. QED  BY <3>1, <3>2
  <2>2. CASE TapItem
    BY <2>2 DEF TapItem, Raise, Crashes, fbVars
  <2>. QED  BY <1>5, <2>1, <2>2
<1>6. ASSUME NEW r \in Requests, FacebookSheetEnds(r)
      PROVE  ScreenType'
  <2>1. sheet.home \in Homes
    BY <1>6 DEF FacebookSheetEnds, Sheets, NoSheet
  <2>2. sheet' \in Sheets
    BY <1>6 DEF FacebookSheetEnds, Sheets
  <2>. QED  BY <1>0, <1>6, <2>1, <2>2 DEF FacebookSheetEnds
<1>7. ASSUME NEW r \in Requests, GraphAnswers(r) \/ GoogleSheetEnds(r) \/ AuthProgress(r)
      PROVE  ScreenType'
  BY <1>7 DEF GraphAnswers, GoogleSheetEnds, AuthProgress, uiVars, fbVars, Sheets
<1>8. CASE DeliverReport
  <2>1. crash' \in Crashes
    BY <1>8 DEF DeliverReport, ShowLoginMenu, Raise, Crashes
  <2>2. origin' \in [Requests -> 0 .. MaxHomes]
    <3>1. origin' = [origin EXCEPT ![Head(mainQueue).req] = 0]
      BY <1>8 DEF DeliverReport
    <3>2. 0 \in 0 .. MaxHomes
      OBVIOUS
    <3>. QED  BY <3>1, <3>2
  <2>3. UNCHANGED <<loginVsSignup, form, fbToken, sheet, graph>>
    BY <1>8 DEF DeliverReport, fbVars
  <2>. QED  BY <2>1, <2>2, <2>3
<1>9. CASE AppRelaunch
  BY <1>9 DEF AppRelaunch, NoForm, NoOrigin, Sheets, Crashes
<1>10. CASE UNCHANGED vars
  BY <1>10 DEF vars, uiVars, fbVars
<1>. QED
  BY <1>1, <1>2, <1>3, <1>4, <1>5, <1>6, <1>7, <1>8, <1>9, <1>10 DEF AppNext

\* Type correctness of the whole app, the layer below included.
THEOREM AppTypeCorrect == AppSpec => []AppTypeOK
<1>1. AppInit => ScreenType
  <2>1. NoForm \in [Homes -> 0 .. 2] /\ NoOrigin \in [Requests -> 0 .. MaxHomes]
    BY DEF NoForm, NoOrigin
  <2>2. "none" \in Crashes /\ NoSheet \in Sheets /\ 0 \in 0 .. 2
    BY DEF Crashes, Sheets
  <2>. QED  BY <2>1, <2>2, Zenon DEF AppInit, ScreenType
<1>2. TypeOK /\ StackInv /\ ScreenType => AppTypeOK
  BY DEF StackInv, NavType, StackType, ScreenType, AppTypeOK
<1>. QED
  BY <1>1, <1>2, StepKeepsScreenType, StackInvHolds, AppUsesAuth, TypeCorrect, PTL
  DEF AppSpec

-----------------------------------------------------------------------------
(***************************************************************************)
(* Leaving a menu                                                          *)
(***************************************************************************)
LeavesMenu == IsMenu(Top) /\ ~IsMenu(Top') /\ Len(stack') > 1

LEMMA SameStackStays ==
    ASSUME UNCHANGED stack
    PROVE  ~LeavesMenu
  BY DEF LeavesMenu, Top

LEMMA MenuPushStays ==
    ASSUME NavType, NEW vc \in Screens, IsMenu(vc), Push(vc)
    PROVE  ~LeavesMenu
<1>1. Top' = vc
  BY PushType DEF NavType
<1>. QED  BY <1>1 DEF LeavesMenu

\* Only handleLogout, and only when signOut returned, takes the user off a
\* menu, whatever completion handlers arrive there.
THEOREM LogoutIsComplete == AppSpec => LeavingMenuSignsOut
<1>. DEFINE SignedOut == user' = None /\ ~fbToken'
<1>1. ASSUME NavType, [AppNext]_vars PROVE LeavesMenu => SignedOut
  <2>. USE <1>1
  <2>1. CASE HomeAppears \/ LoginAppears
    BY <2>1 DEF HomeAppears, LoginAppears, LeavesMenu, IsMenu
  <2>2. CASE MenuAppears \/ TapItem
    BY <2>2, SameStackStays DEF MenuAppears, TapItem, Raise, navVars
  <2>3. ASSUME NEW i \in Homes, NEW r \in Requests, TapGuest(i, r) \/ SubmitForm(i, r)
        PROVE  ~LeavesMenu
    BY <2>3, SameStackStays DEF TapGuest, SubmitForm, Submit, navVars
  <2>4. ASSUME NEW i \in Homes, NEW num \in {1, 2},
               TapSignUpOrLogin(i, num) \/ TapBack(i) \/ TapFacebook(i) \/ TapGoogle(i)
        PROVE  ~LeavesMenu
    BY <2>4 DEF TapSignUpOrLogin, TapBack, TapFacebook, TapGoogle, Touchable, Home, Login,
                LeavesMenu, IsMenu
  <2>5. CASE TapLogout
    <3>1. CASE SignOut(TRUE) /\ fbToken' = FALSE
      BY <3>1 DEF SignOut, UpdateCurrentUser
    <3>2. CASE UNCHANGED navVars
      BY <3>2, SameStackStays DEF navVars
    <3>. QED  BY <2>5, <3>1, <3>2 DEF TapLogout
  <2>6. ASSUME NEW r \in Requests,
               FacebookSheetEnds(r) \/ GraphAnswers(r) \/ GoogleSheetEnds(r) \/ AuthProgress(r)
        PROVE  ~LeavesMenu
    BY <2>6, SameStackStays DEF FacebookSheetEnds, GraphAnswers, GoogleSheetEnds,
                                AuthProgress, uiVars, navVars
  <2>7. CASE DeliverReport
    <3>. DEFINE i == origin[Head(mainQueue).req]
    <3>1. CASE UNCHANGED navVars
      BY <3>1, SameStackStays DEF navVars
    <3>2. CASE Push(NewMenu)
      <4>1. NewMenu \in Screens /\ IsMenu(NewMenu)
        BY DEF Screens, IsMenu, NewMenu
      <4>. QED  BY <3>2, <4>1, MenuPushStays
    <3>3. CASE OnStack(Login(i)) /\ Push(LoginMenu(i))
      <4>1. i \in Homes
        BY <3>3, LoginHasHome DEF NavType
      <4>2. LoginMenu(i) \in Screens /\ IsMenu(LoginMenu(i))
        BY <4>1 DEF Screens, IsMenu, LoginMenu
      <4>. QED  BY <3>3, <4>2, MenuPushStays
    <3>. QED  BY <2>7, <3>1, <3>2, <3>3 DEF DeliverReport, ShowLoginMenu, Raise
  <2>8. CASE AppRelaunch
    <3>1. Len(stack') = 1
      BY <2>8 DEF AppRelaunch
    <3>. QED  BY <3>1 DEF LeavesMenu
  <2>9. CASE UNCHANGED vars
    BY <2>9, SameStackStays DEF vars, uiVars, navVars
  <2>. QED
    BY <2>1, <2>2, <2>3, <2>4, <2>5, <2>6, <2>7, <2>8, <2>9 DEF AppNext, Appears
<1>2. ASSUME StackInv, [AppNext]_vars
      PROVE  [IsMenu(Top) /\ ~IsMenu(Top') /\ Len(stack') > 1 => SignedOut]_vars
  BY <1>1, <1>2 DEF LeavesMenu, StackInv
<1>. QED  BY <1>2, StackInvHolds, PTL DEF AppSpec, LeavingMenuSignsOut

-----------------------------------------------------------------------------
(***************************************************************************)
(* The form                                                                *)
(***************************************************************************)

\* While a login screen is on top the global holds what opened it, and once it
\* has appeared it shows that form.
FormInv ==
    Top.kind = "login" =>
        /\ loginVsSignup \in {1, 2}
        /\ ~appearing => form[Top.home] = loginVsSignup

LEMMA NoLoginOnTop ==
    ASSUME Top'.kind # "login"
    PROVE  FormInv'
  BY DEF FormInv

LEMMA PushShowsNoLogin ==
    ASSUME StackInv, NEW vc \in Screens, vc.kind # "login", Push(vc)
    PROVE  FormInv'
  BY PushType, NoLoginOnTop DEF StackInv, NavType

LEMMA DeliverKeepsForm ==
    ASSUME StackInv, FormInv, DeliverReport
    PROVE  FormInv'
<1>. DEFINE i == origin[Head(mainQueue).req]
<1>0. UNCHANGED <<loginVsSignup, form>>
  BY DEF DeliverReport
<1>1. CASE UNCHANGED navVars
  BY <1>0, <1>1 DEF FormInv, navVars, Top
<1>2. CASE Push(NewMenu)
  BY <1>2, PushShowsNoLogin DEF Screens, NewMenu
<1>3. CASE OnStack(Login(i)) /\ Push(LoginMenu(i))
  <2>1. i \in Homes
    BY <1>3, LoginHasHome DEF StackInv, NavType
  <2>2. LoginMenu(i) \in Screens /\ LoginMenu(i).kind # "login"
    BY <2>1 DEF Screens, LoginMenu
  <2>. QED  BY <1>3, <2>2, PushShowsNoLogin
<1>. QED  BY <1>1, <1>2, <1>3 DEF DeliverReport, ShowLoginMenu, Raise

LEMMA StepKeepsForm ==
    ASSUME StackInv, ScreenType, FormInv, [AppNext]_vars
    PROVE  FormInv'
<1>0. ASSUME UNCHANGED <<navVars, loginVsSignup, form>> PROVE FormInv'
  BY <1>0 DEF FormInv, navVars, Top
<1>1. CASE HomeAppears
  <2>1. CASE Push(NewMenu)
    BY <2>1, PushShowsNoLogin DEF Screens, NewMenu
  <2>2. CASE UNCHANGED stack
    BY <1>1, <2>2, NoLoginOnTop DEF HomeAppears, Top
  <2>. QED  BY <1>1, <2>1, <2>2 DEF HomeAppears
<1>2. CASE LoginAppears
  <2>1. Top' = Top /\ loginVsSignup' = loginVsSignup /\ loginVsSignup \in {1, 2}
    BY <1>2 DEF LoginAppears, FormInv, Top
  <2>2. Top.home \in Homes
    BY <1>2, StackElements
    DEF LoginAppears, StackInv, NavType, Screens, Home, Login, LoginMenu, NewMenu
  <2>3. form'[Top.home] = loginVsSignup
    BY <1>2, <2>1, <2>2 DEF LoginAppears, ScreenType
  <2>. QED  BY <2>1, <2>3 DEF FormInv
<1>3. CASE MenuAppears
  BY <1>3, NoLoginOnTop DEF MenuAppears, Raise, navVars, Top, IsMenu
<1>4. ASSUME NEW i \in Homes, NEW r \in Requests, TapGuest(i, r) \/ SubmitForm(i, r)
      PROVE  FormInv'
  BY <1>0, <1>4 DEF TapGuest, SubmitForm, Submit
<1>5. ASSUME NEW i \in Homes, NEW num \in {1, 2}, TapSignUpOrLogin(i, num)
      PROVE  FormInv'
  BY <1>5 DEF TapSignUpOrLogin, Push, FormInv
<1>6. ASSUME NEW i \in Homes, TapBack(i) PROVE FormInv'
  BY <1>6, PopKeepsStackInv, NoLoginOnTop DEF Home
<1>7. ASSUME NEW i \in Homes, TapFacebook(i) \/ TapGoogle(i) PROVE FormInv'
  BY <1>0, <1>7 DEF TapFacebook, TapGoogle
<1>8. CASE TapLogout
  <2>1. CASE homes' = homes + 1 /\ Push(Home(homes'))
    <3>1. homes' \in Homes
      BY <1>8, <2>1 DEF TapLogout, StackInv, NavType, Homes
    <3>2. Home(homes') \in Screens /\ Home(homes').kind # "login"
      BY <3>1 DEF Screens, Home
    <3>. QED  BY <2>1, <3>2, PushShowsNoLogin
  <2>. QED  BY <1>0, <1>8, <2>1 DEF TapLogout
<1>9. CASE TapItem
  BY <1>0, <1>9 DEF TapItem, Raise
<1>10. ASSUME NEW r \in Requests,
              FacebookSheetEnds(r) \/ GraphAnswers(r) \/ GoogleSheetEnds(r) \/ AuthProgress(r)
       PROVE  FormInv'
  BY <1>0, <1>10 DEF FacebookSheetEnds, GraphAnswers, GoogleSheetEnds, AuthProgress, uiVars
<1>11. CASE DeliverReport
  BY <1>11, DeliverKeepsForm
<1>12. CASE AppRelaunch
  BY <1>12, NoLoginOnTop DEF AppRelaunch, Top, Home
<1>13. CASE UNCHANGED vars
  BY <1>0, <1>13 DEF vars, uiVars
<1>. QED
  BY <1>1, <1>2, <1>3, <1>4, <1>5, <1>6, <1>7, <1>8, <1>9, <1>10, <1>11, <1>12, <1>13
  DEF AppNext, Appears

LEMMA ScreenTypeHolds == AppSpec => []ScreenType
<1>1. AppTypeOK => ScreenType
  BY DEF AppTypeOK, ScreenType
<1>. QED  BY <1>1, AppTypeCorrect, PTL

\* The user always gets the form asked for, on whichever home's login screen,
\* after any backs, logouts and answers.
THEOREM FormIsTheOneAsked == AppSpec => []FormMatchesButton
<1>1. AppInit => FormInv
  BY DEF AppInit, FormInv, Top, Home
<1>2. FormInv => FormMatchesButton
  BY DEF FormInv, FormMatchesButton
<1>. QED
  BY <1>1, <1>2, StepKeepsForm, StackInvHolds, ScreenTypeHolds, PTL DEF AppSpec
-----------------------------------------------------------------------------
(***************************************************************************)
(* Answers on their way                                                    *)
(***************************************************************************)

\* A new handler goes behind those that wait.
LEMMA ReportKeepsQueue ==
    ASSUME TypeOK, NEW r \in Requests, NEW got \in Results, Report(r, got)
    PROVE  /\ Len(mainQueue) \in Nat
           /\ DOMAIN mainQueue = 1 .. Len(mainQueue)
           /\ DOMAIN mainQueue' = 1 .. (Len(mainQueue) + 1)
           /\ \A i \in DOMAIN mainQueue : mainQueue'[i] = mainQueue[i]
           /\ mainQueue'[Len(mainQueue) + 1].req = r
           /\ mainQueue'[Len(mainQueue) + 1].got = got
<1>1. mainQueue' \in Seq(Reports) /\ Len(mainQueue') = Len(mainQueue) + 1
  BY ReportType
<1>2. DOMAIN mainQueue' = 1 .. (Len(mainQueue) + 1)
  BY <1>1, LenProperties
<1>. QED  BY <1>2, QueueElements, ReportType

\* The handlers behind the one delivered move up.
LEMMA DeliverMovesQueue ==
    ASSUME TypeOK, Deliver
    PROVE  /\ Head(mainQueue) = mainQueue[1]
           /\ Head(mainQueue).req \in Requests
           /\ Head(mainQueue).got \in Results
           /\ DOMAIN mainQueue = 1 .. Len(mainQueue)
           /\ Len(mainQueue) \in Nat /\ Len(mainQueue) >= 1
           /\ DOMAIN mainQueue' = 1 .. (Len(mainQueue) - 1)
           /\ \A i \in 1 .. (Len(mainQueue) - 1) : mainQueue'[i] = mainQueue[i + 1]
<1>1. mainQueue' \in Seq(Reports) /\ Len(mainQueue') = Len(mainQueue) - 1
  BY DeliverType
<1>2. DOMAIN mainQueue' = 1 .. (Len(mainQueue) - 1)
  BY <1>1, LenProperties
<1>3. Head(mainQueue).req \in Requests /\ Head(mainQueue).got \in Results
  BY DeliverType DEF Reports
<1>. QED  BY <1>1, <1>2, <1>3, DeliverType, QueueElements

\* What a request that moves on by itself does to the session and the queue.
LEMMA ProgressEffect ==
    ASSUME NEW r \in Requests, Progress(r)
    PROVE  \/ UNCHANGED <<user, mainQueue>>
           \/ UNCHANGED user /\ user # None /\ Report(r, user) /\ r \in Guest /\ user \in Guest
           \/ UNCHANGED user /\ Report(r, Failed)
           \/ user' = r /\ Report(r, r)
           \/ user' = None /\ Report(r, None)
<1>1. CASE Begin(r)
  BY <1>1, NamesAssumption DEF Begin, UpdateCurrentUser, Requests
<1>2. CASE TokensArrive(r) \/ RequestFails(r)
  BY <1>2 DEF TokensArrive, RequestFails
<1>3. CASE AccountArrives(r)
  BY <1>3 DEF AccountArrives, UpdateCurrentUser, UpdateRefused
<1>4. CASE AccountFails(r)
  BY <1>4 DEF AccountFails, UpdateCurrentUser, UpdateRefused
<1>. QED  BY <1>1, <1>2, <1>3, <1>4 DEF Progress

-----------------------------------------------------------------------------
(***************************************************************************)
(* A guest behind the home screen                                          *)
(***************************************************************************)

\* When a guest is signed in behind a home screen that has appeared already,
\* the handler that opens a menu is on its way.
GuestAnswerDue ==
    Running /\ Top.kind = "home" /\ ~appearing /\ user \in Guest
    => \E i \in DOMAIN mainQueue :
          mainQueue[i].req \in Guest /\ mainQueue[i].got # Failed

LEMMA AppearingKeepsGuestDue ==
    ASSUME appearing' = TRUE
    PROVE  GuestAnswerDue'
  BY DEF GuestAnswerDue

LEMMA SameScreenKeepsGuestDue ==
    ASSUME GuestAnswerDue, UNCHANGED <<user, mainQueue, navVars, crash>>
    PROVE  GuestAnswerDue'
  BY DEF GuestAnswerDue, navVars, Running, Top

LEMMA ProgressKeepsGuestDue ==
    ASSUME TypeOK, GuestAnswerDue, NEW r \in Requests, AuthProgress(r)
    PROVE  GuestAnswerDue'
<1>. DEFINE n == Len(mainQueue)
<1>0. UNCHANGED <<navVars, crash>> /\ Progress(r)
  BY DEF AuthProgress, uiVars
<1>1. Running' = Running /\ Top' = Top /\ appearing' = appearing
  BY <1>0 DEF navVars, Running, Top
<1>2. CASE UNCHANGED <<user, mainQueue>>
  BY <1>0, <1>2, SameScreenKeepsGuestDue
<1>3. CASE UNCHANGED user /\ \E got \in Results : Report(r, got)
  <2>1. PICK got \in Results : Report(r, got)
    BY <1>3
  <2>2. /\ n \in Nat /\ DOMAIN mainQueue = 1 .. n /\ DOMAIN mainQueue' = 1 .. (n + 1)
        /\ \A i \in DOMAIN mainQueue : mainQueue'[i] = mainQueue[i]
    BY <2>1, ReportKeepsQueue
  <2>3. \A i \in DOMAIN mainQueue : i \in DOMAIN mainQueue'
    BY <2>2
  <2>. QED  BY <1>1, <1>3, <2>2, <2>3 DEF GuestAnswerDue
<1>4. CASE user' = r /\ Report(r, r)
  <2>1. r \in Results /\ r # Failed
    BY NamesAssumption DEF Results
  <2>2. /\ n \in Nat /\ DOMAIN mainQueue' = 1 .. (n + 1)
        /\ mainQueue'[n + 1].req = r /\ mainQueue'[n + 1].got = r
    BY <1>4, <2>1, ReportKeepsQueue
  <2>3. n + 1 \in DOMAIN mainQueue'
    BY <2>2
  <2>. QED  BY <1>4, <2>1, <2>2, <2>3 DEF GuestAnswerDue
<1>5. CASE user' = None
  <2>1. user' \notin Guest
    BY <1>5, NamesAssumption DEF Requests
  <2>. QED  BY <2>1 DEF GuestAnswerDue
<1>6. user \in Results /\ Failed \in Results
  BY DEF TypeOK, Results
<1>. QED  BY <1>0, <1>2, <1>3, <1>4, <1>5, <1>6, ProgressEffect

LEMMA DeliverKeepsGuestDue ==
    ASSUME TypeOK, GuestAnswerDue, DeliverReport
    PROVE  GuestAnswerDue'
<1>. DEFINE n == Len(mainQueue)
            r == Head(mainQueue).req
            i0 == origin[r]
<1>1. Deliver
  BY DEF DeliverReport
<1>2. CASE Push(NewMenu) \/ Push(LoginMenu(i0))
  BY <1>2, AppearingKeepsGuestDue DEF Push
<1>3. CASE UNCHANGED navVars /\ ~(r \in Guest /\ Head(mainQueue).got # Failed)
  <2>1. SUFFICES ASSUME Running', Top'.kind = "home", ~appearing', user' \in Guest
                 PROVE  \E i \in DOMAIN mainQueue' :
                           mainQueue'[i].req \in Guest /\ mainQueue'[i].got # Failed
    BY DEF GuestAnswerDue
  <2>2. CASE crash = "none"
    <3>1. PICK i \in DOMAIN mainQueue :
                  mainQueue[i].req \in Guest /\ mainQueue[i].got # Failed
      BY <1>1, <1>3, <2>1, <2>2 DEF GuestAnswerDue, Running, navVars, Top, Deliver
    <3>2. i # 1
      BY <1>1, <1>3, <3>1, DeliverMovesQueue
    <3>3. i - 1 \in 1 .. (n - 1) /\ (i - 1) + 1 = i
      BY <1>1, <3>1, <3>2, DeliverMovesQueue
    <3>4. i - 1 \in DOMAIN mainQueue' /\ mainQueue'[i - 1] = mainQueue[i]
      BY <1>1, <3>3, DeliverMovesQueue
    <3>. QED  BY <3>1, <3>4
  <2>3. CASE crash # "none"
    BY <2>3 DEF DeliverReport, Running
  <2>. QED  BY <2>2, <2>3
<1>4. r \in Guest => r \notin SignUp \cup Email \cup Facebook /\ r \notin Google
  BY KindsAssumption
<1>. QED  BY <1>2, <1>3, <1>4 DEF DeliverReport, ShowLoginMenu, Raise

LEMMA StepKeepsGuestDue ==
    ASSUME TypeOK, StackInv, GuestAnswerDue, [AppNext]_vars
    PROVE  GuestAnswerDue'
<1>1. CASE HomeAppears
  <2>1. CASE appearing' = FALSE /\ UNCHANGED stack /\ user = None
    <3>1. user' \notin Guest
      BY <1>1, <2>1, NamesAssumption DEF HomeAppears, authVars, Requests
    <3>. QED  BY <3>1 DEF GuestAnswerDue
  <2>. QED  BY <1>1, <2>1, AppearingKeepsGuestDue DEF HomeAppears, Push
<1>2. CASE LoginAppears \/ MenuAppears \/ TapItem
  <2>1. UNCHANGED stack /\ Top.kind # "home"
    BY <1>2 DEF LoginAppears, MenuAppears, TapItem, IsMenu, Raise, navVars
  <2>. QED  BY <2>1 DEF GuestAnswerDue, Top
<1>3. ASSUME NEW i \in Homes, NEW r \in Requests, TapGuest(i, r) \/ SubmitForm(i, r)
      PROVE  GuestAnswerDue'
  BY <1>3, SameScreenKeepsGuestDue DEF TapGuest, SubmitForm, Submit, Ask
<1>4. ASSUME NEW i \in Homes, NEW num \in {1, 2}, TapSignUpOrLogin(i, num) \/ TapBack(i)
      PROVE  GuestAnswerDue'
  BY <1>4, AppearingKeepsGuestDue DEF TapSignUpOrLogin, TapBack, Push
<1>5. ASSUME NEW i \in Homes, TapFacebook(i) \/ TapGoogle(i)
      PROVE  GuestAnswerDue'
  BY <1>5, SameScreenKeepsGuestDue DEF TapFacebook, TapGoogle, authVars
<1>6. CASE TapLogout
  <2>1. CASE Push(Home(homes'))
    BY <2>1, AppearingKeepsGuestDue DEF Push
  <2>2. CASE SignOut(FALSE) /\ UNCHANGED navVars
    BY <1>6, <2>2, SameScreenKeepsGuestDue DEF TapLogout, SignOut, UpdateRefused
  <2>. QED  BY <1>6, <2>1, <2>2 DEF TapLogout
<1>7. ASSUME NEW r \in Requests, FacebookSheetEnds(r) \/ GraphAnswers(r) \/ GoogleSheetEnds(r)
      PROVE  GuestAnswerDue'
  BY <1>7, SameScreenKeepsGuestDue
  DEF FacebookSheetEnds, GraphAnswers, GoogleSheetEnds, Ask, authVars
<1>8. ASSUME NEW r \in Requests, AuthProgress(r) PROVE GuestAnswerDue'
  BY <1>8, ProgressKeepsGuestDue
<1>9. CASE DeliverReport
  BY <1>9, DeliverKeepsGuestDue
<1>10. CASE AppRelaunch
  BY <1>10, AppearingKeepsGuestDue DEF AppRelaunch
<1>11. CASE UNCHANGED vars
  BY <1>11, SameScreenKeepsGuestDue DEF vars, authVars, uiVars
<1>. QED
  BY <1>1, <1>2, <1>3, <1>4, <1>5, <1>6, <1>7, <1>8, <1>9, <1>10, <1>11
  DEF AppNext, Appears

\* A handler on the main queue is due.
LEMMA QueuedIsInFlight ==
    ASSUME TypeOK, HandlerCalledOnce, NEW i \in DOMAIN mainQueue
    PROVE  mainQueue[i].req \in InFlight
  BY QueueElements DEF HandlerCalledOnce, InFlight

\* No guest stays signed in behind the home screen, with any number of guest
\* sign-ins, logouts and answers in any order.
THEOREM NoGuestBehindHome == AppSpec => []GuestSeesMenu
<1>1. AppInit => GuestAnswerDue
  BY DEF AppInit, GuestAnswerDue
<1>2. TypeOK /\ HandlerCalledOnce /\ GuestAnswerDue => GuestSeesMenu
  BY QueuedIsInFlight DEF GuestAnswerDue, GuestSeesMenu, Quiet
<1>. QED
  BY <1>1, <1>2, StepKeepsGuestDue, StackInvHolds, AppUsesAuth, TypeCorrect, CalledOnce, PTL
  DEF AppSpec
-----------------------------------------------------------------------------
(***************************************************************************)
(* Menus and sessions                                                      *)
(***************************************************************************)

\* Screens that issue requests, and sheets, belong to homes made already.
OriginsMade ==
    /\ \A r \in Requests : origin[r] <= homes
    /\ sheet.home <= homes

LEMMA TouchedHomeMade ==
    ASSUME StackInv, NEW i \in Homes, Top = Home(i) \/ Top = Login(i)
    PROVE  i <= homes
<1>. DEFINE n == Len(stack)
<1>1. n \in Nat /\ n >= 1 /\ DOMAIN stack = 1 .. n
  BY StackElements DEF StackInv, NavType
<1>2. \A j \in 1 .. n : stack[j] = Home(i) => i <= homes
  BY <1>1 DEF StackInv, HomesCounted, Home
<1>3. CASE Top = Login(i)
  <2>1. n > 1 /\ stack[n - 1] = Home(i)
    BY <1>1, <1>3 DEF StackInv, StackDiscipline, Top, Login
  <2>. QED  BY <1>1, <1>2, <2>1
<1>. QED  BY <1>1, <1>2, <1>3 DEF Top

\* What a step does to the origins: the number of homes does not fall while the
\* process lives, and an origin is kept, reset, or set to a home that is there.
LEMMA StepKeepsOrigins ==
    ASSUME TypeOK, StackInv, ScreenType, OriginsMade, [AppNext]_vars
    PROVE  OriginsMade'
<1>0. homes \in Nat /\ homes >= 1
  BY DEF StackInv, NavType, Homes
<1>1. ASSUME UNCHANGED <<origin, sheet, homes>> PROVE OriginsMade'
  BY <1>1 DEF OriginsMade
<1>2. CASE Appears \/ TapItem
  BY <1>1, <1>2
  DEF Appears, HomeAppears, LoginAppears, MenuAppears, TapItem, Raise, fbVars, navVars
<1>3. ASSUME NEW i \in Homes, NEW r \in Requests, TapGuest(i, r) \/ SubmitForm(i, r)
      PROVE  OriginsMade'
  <2>1. i <= homes
    BY <1>3, TouchedHomeMade DEF TapGuest, SubmitForm, Touchable
  <2>2. UNCHANGED <<homes, sheet>> /\ origin' = [origin EXCEPT ![r] = i]
    BY <1>3 DEF TapGuest, SubmitForm, Submit, navVars, fbVars
  <2>. QED  BY <2>1, <2>2 DEF OriginsMade, ScreenType
<1>4. ASSUME NEW i \in Homes, NEW num \in {1, 2}, TapSignUpOrLogin(i, num) \/ TapBack(i)
      PROVE  OriginsMade'
  BY <1>1, <1>4 DEF TapSignUpOrLogin, TapBack, fbVars
<1>5. ASSUME NEW i \in Homes, TapFacebook(i) \/ TapGoogle(i)
      PROVE  OriginsMade'
  <2>1. i <= homes
    BY <1>5, TouchedHomeMade DEF TapFacebook, TapGoogle, Touchable
  <2>2. UNCHANGED <<homes, origin>> /\ (sheet' = sheet \/ sheet'.home = i)
    BY <1>5 DEF TapFacebook, TapGoogle, navVars
  <2>. QED  BY <2>1, <2>2 DEF OriginsMade
<1>6. CASE TapLogout
  <2>1. UNCHANGED <<origin, sheet>> /\ (homes' = homes + 1 \/ homes' = homes)
    BY <1>6 DEF TapLogout, navVars
  <2>2. \A r \in Requests : origin[r] \in Nat
    BY HomesAssumption DEF ScreenType
  <2>3. sheet.home \in Nat
    BY HomesAssumption DEF ScreenType, Sheets, NoSheet, Homes
  <2>. QED  BY <1>0, <2>1, <2>2, <2>3 DEF OriginsMade
<1>7. ASSUME NEW r \in Requests, FacebookSheetEnds(r)
      PROVE  OriginsMade'
  <2>1. sheet'.home = 0 /\ homes' = homes
    BY <1>7 DEF FacebookSheetEnds, NoSheet, navVars
  <2>2. origin' = [origin EXCEPT ![r] = sheet.home] \/ origin' = origin
    BY <1>7 DEF FacebookSheetEnds
  <2>. QED  BY <1>0, <2>1, <2>2 DEF OriginsMade, ScreenType
<1>8. ASSUME NEW r \in Requests, GraphAnswers(r)
      PROVE  OriginsMade'
  BY <1>0, <1>8 DEF GraphAnswers, navVars, OriginsMade, ScreenType
<1>9. ASSUME NEW r \in Requests, GoogleSheetEnds(r) \/ AuthProgress(r)
      PROVE  OriginsMade'
  BY <1>0, <1>9
  DEF GoogleSheetEnds, AuthProgress, NoSheet, navVars, uiVars, fbVars, OriginsMade
<1>10. CASE DeliverReport
  <2>1. Head(mainQueue).req \in Requests
    BY <1>10, DeliverMovesQueue DEF DeliverReport
  <2>2. UNCHANGED <<homes, sheet>>
    BY <1>10 DEF DeliverReport, ShowLoginMenu, Raise, navVars, fbVars
  <2>3. origin' = [origin EXCEPT ![Head(mainQueue).req] = 0]
    BY <1>10 DEF DeliverReport
  <2>. QED  BY <1>0, <2>1, <2>2, <2>3 DEF OriginsMade, ScreenType
<1>11. CASE AppRelaunch
  BY <1>11 DEF AppRelaunch, NoOrigin, NoSheet, OriginsMade
<1>12. CASE UNCHANGED vars
  BY <1>1, <1>12 DEF vars, uiVars, fbVars, navVars
<1>. QED
  BY <1>2, <1>3, <1>4, <1>5, <1>6, <1>7, <1>8, <1>9, <1>10, <1>11, <1>12 DEF AppNext

\* While nobody is signed in, each user a waiting handler names was signed out
\* by a handler behind it or by a logout, which made a new home.
SignedOutSince ==
    user = None =>
        \A i \in DOMAIN mainQueue : mainQueue[i].got \in Requests =>
            \/ \E k \in DOMAIN mainQueue : k > i /\ mainQueue[k].got = None
            \/ homes > origin[mainQueue[i].req]

LEMMA SameQueueKeepsSignedOut ==
    ASSUME SignedOutSince, UNCHANGED <<user, mainQueue, homes>>, homes \in Homes,
           \A i \in DOMAIN mainQueue :
              origin'[mainQueue[i].req] \in {0, origin[mainQueue[i].req]}
    PROVE  SignedOutSince'
  BY DEF SignedOutSince, Homes

\* A request that is not waiting for its handler may get another origin.
LEMMA NewOriginKeepsSignedOut ==
    ASSUME TypeOK, HandlerCalledOnce, ScreenType, SignedOutSince,
           UNCHANGED <<user, mainQueue, homes>>, homes \in Homes,
           NEW r \in Requests, phase[r] # "reported",
           NEW i, origin' = [origin EXCEPT ![r] = i]
    PROVE  SignedOutSince'
<1>1. \A j \in DOMAIN mainQueue : mainQueue[j].req \in Requests /\ mainQueue[j].req # r
  BY QueueElements DEF HandlerCalledOnce
<1>2. \A j \in DOMAIN mainQueue : origin'[mainQueue[j].req] = origin[mainQueue[j].req]
  BY <1>1 DEF ScreenType
<1>. QED  BY <1>2, SameQueueKeepsSignedOut

LEMMA ProgressKeepsSignedOut ==
    ASSUME TypeOK, StackInv, SignedOutSince, NEW r \in Requests, AuthProgress(r)
    PROVE  SignedOutSince'
<1>. DEFINE n == Len(mainQueue)
<1>0. UNCHANGED <<homes, origin>> /\ Progress(r)
  BY DEF AuthProgress, uiVars, navVars
<1>1. CASE UNCHANGED <<user, mainQueue>>
  BY <1>0, <1>1 DEF SignedOutSince
<1>2. CASE user' # None
  BY <1>2 DEF SignedOutSince
<1>3. CASE UNCHANGED user /\ Report(r, Failed)
  <2>1. Failed \in Results /\ Failed \notin Requests
    BY NamesAssumption DEF Results
  <2>2. /\ n \in Nat /\ DOMAIN mainQueue = 1 .. n /\ DOMAIN mainQueue' = 1 .. (n + 1)
        /\ \A i \in DOMAIN mainQueue : mainQueue'[i] = mainQueue[i]
        /\ mainQueue'[n + 1].got = Failed
    BY <1>3, <2>1, ReportKeepsQueue
  <2>3. \A i \in DOMAIN mainQueue' : i \in DOMAIN mainQueue \/ i = n + 1
    BY <2>2
  <2>4. \A i \in DOMAIN mainQueue : i \in DOMAIN mainQueue'
    BY <2>2
  <2>. QED  BY <1>0, <1>3, <2>1, <2>2, <2>3, <2>4 DEF SignedOutSince
<1>4. CASE user' = None /\ Report(r, None)
  <2>1. None \in Results /\ None \notin Requests
    BY NamesAssumption DEF Results
  <2>2. /\ n \in Nat /\ DOMAIN mainQueue' = 1 .. (n + 1) /\ mainQueue'[n + 1].got = None
    BY <1>4, <2>1, ReportKeepsQueue
  <2>3. ASSUME NEW i \in DOMAIN mainQueue', mainQueue'[i].got \in Requests
        PROVE  \E k \in DOMAIN mainQueue' : k > i /\ mainQueue'[k].got = None
    <3>1. i # n + 1
      BY <2>1, <2>2, <2>3
    <3>2. n + 1 \in DOMAIN mainQueue' /\ n + 1 > i
      BY <2>2, <3>1
    <3>. QED  BY <2>2, <3>2
  <2>. QED  BY <2>3 DEF SignedOutSince
<1>5. r # None
  BY NamesAssumption
<1>. QED  BY <1>0, <1>1, <1>2, <1>3, <1>4, <1>5, ProgressEffect

LEMMA DeliverKeepsSignedOut ==
    ASSUME TypeOK, StackInv, ScreenType, SignedOutSince, DeliverReport
    PROVE  SignedOutSince'
<1>. DEFINE n == Len(mainQueue)
<1>1. Deliver /\ UNCHANGED <<homes, user>>
  BY DEF DeliverReport, Deliver, ShowLoginMenu, Raise, navVars
<1>2. /\ n \in Nat /\ DOMAIN mainQueue = 1 .. n /\ DOMAIN mainQueue' = 1 .. (n - 1)
      /\ \A i \in 1 .. (n - 1) : mainQueue'[i] = mainQueue[i + 1]
      /\ Head(mainQueue).req \in Requests
  BY <1>1, DeliverMovesQueue
<1>3. \A q \in Requests : origin'[q] \in {0, origin[q]}
  BY <1>2 DEF DeliverReport, ScreenType
<1>4. SUFFICES ASSUME user = None,
                      NEW i \in DOMAIN mainQueue', mainQueue'[i].got \in Requests
               PROVE  \/ \E k \in DOMAIN mainQueue' : k > i /\ mainQueue'[k].got = None
                      \/ homes > origin'[mainQueue'[i].req]
  BY <1>1 DEF SignedOutSince
<1>5. i + 1 \in DOMAIN mainQueue /\ mainQueue'[i] = mainQueue[i + 1]
  BY <1>2
<1>6. CASE \E k \in DOMAIN mainQueue : k > i + 1 /\ mainQueue[k].got = None
  <2>1. PICK k \in DOMAIN mainQueue : k > i + 1 /\ mainQueue[k].got = None
    BY <1>6
  <2>2. k - 1 \in 1 .. (n - 1) /\ (k - 1) + 1 = k /\ k - 1 > i
    BY <1>2, <2>1
  <2>. QED  BY <1>2, <2>1, <2>2
<1>7. CASE homes > origin[mainQueue[i + 1].req]
  <2>1. mainQueue[i + 1].req \in Requests
    BY <1>5, QueueElements
  <2>2. homes > 0
    BY DEF StackInv, NavType, Homes
  <2>. QED  BY <1>3, <1>5, <1>7, <2>1, <2>2
<1>. QED  BY <1>4, <1>5, <1>6, <1>7 DEF SignedOutSince

LEMMA StepKeepsSignedOut ==
    ASSUME TypeOK, HandlerCalledOnce, StackInv, ScreenType, OriginsMade, SignedOutSince,
           [AppNext]_vars
    PROVE  SignedOutSince'
<1>0. homes \in Homes
  BY DEF StackInv, NavType
<1>1. ASSUME UNCHANGED <<user, mainQueue, homes, origin>> PROVE SignedOutSince'
  BY <1>1 DEF SignedOutSince
<1>2. CASE Appears \/ TapItem
  BY <1>1, <1>2
  DEF Appears, HomeAppears, LoginAppears, MenuAppears, TapItem, Raise, authVars, navVars
<1>3. ASSUME NEW i \in Homes, NEW r \in Requests, TapGuest(i, r) \/ SubmitForm(i, r)
      PROVE  SignedOutSince'
  BY <1>0, <1>3, NewOriginKeepsSignedOut DEF TapGuest, SubmitForm, Submit, Ask, navVars
<1>4. ASSUME NEW i \in Homes, NEW num \in {1, 2}, TapSignUpOrLogin(i, num) \/ TapBack(i)
      PROVE  SignedOutSince'
  BY <1>1, <1>4 DEF TapSignUpOrLogin, TapBack, authVars
<1>5. ASSUME NEW i \in Homes, TapFacebook(i) \/ TapGoogle(i)
      PROVE  SignedOutSince'
  BY <1>1, <1>5 DEF TapFacebook, TapGoogle, authVars, navVars
<1>6. CASE TapLogout
  <2>1. CASE homes' = homes + 1
    <3>1. UNCHANGED <<mainQueue, origin>>
      BY <1>6 DEF TapLogout, SignOut
    <3>2. \A i \in DOMAIN mainQueue : homes' > origin[mainQueue[i].req]
      <4>1. TAKE i \in DOMAIN mainQueue
      <4>2. mainQueue[i].req \in Requests
        BY QueueElements
      <4>3. origin[mainQueue[i].req] \in 0 .. MaxHomes /\ origin[mainQueue[i].req] <= homes
        BY <4>2 DEF ScreenType, OriginsMade
      <4>. QED  BY <1>0, <2>1, <4>3 DEF Homes
    <3>. QED  BY <3>1, <3>2 DEF SignedOutSince
  <2>2. CASE SignOut(FALSE) /\ UNCHANGED navVars
    BY <1>1, <1>6, <2>2 DEF TapLogout, SignOut, UpdateRefused, navVars
  <2>. QED  BY <1>6, <2>1, <2>2 DEF TapLogout
<1>7. ASSUME NEW r \in Requests, FacebookSheetEnds(r)
      PROVE  SignedOutSince'
  <2>1. phase[r] # "reported" /\ UNCHANGED <<user, mainQueue, homes>>
    BY <1>7 DEF FacebookSheetEnds, InFlight, authVars, navVars
  <2>2. origin' = [origin EXCEPT ![r] = sheet.home] \/ origin' = origin
    BY <1>7 DEF FacebookSheetEnds
  <2>. QED  BY <1>0, <1>1, <2>1, <2>2, NewOriginKeepsSignedOut
<1>8. ASSUME NEW r \in Requests, GraphAnswers(r)
      PROVE  SignedOutSince'
  <2>1. UNCHANGED <<user, mainQueue, homes>>
    BY <1>8 DEF GraphAnswers, Ask, authVars, navVars
  <2>2. \A q \in Requests : origin'[q] \in {0, origin[q]}
    BY <1>8 DEF GraphAnswers, ScreenType
  <2>3. \A i \in DOMAIN mainQueue : mainQueue[i].req \in Requests
    BY QueueElements
  <2>. QED  BY <1>0, <2>1, <2>2, <2>3, SameQueueKeepsSignedOut
<1>9. ASSUME NEW r \in Requests, GoogleSheetEnds(r)
      PROVE  SignedOutSince'
  BY <1>1, <1>9 DEF GoogleSheetEnds, Ask, authVars, navVars
<1>10. ASSUME NEW r \in Requests, AuthProgress(r) PROVE SignedOutSince'
  BY <1>10, ProgressKeepsSignedOut
<1>11. CASE DeliverReport
  BY <1>11, DeliverKeepsSignedOut
<1>12. CASE AppRelaunch
  BY <1>12 DEF AppRelaunch, Relaunch, SignedOutSince
<1>13. CASE UNCHANGED vars
  BY <1>1, <1>13 DEF vars, authVars, uiVars, navVars
<1>. QED
  BY <1>2, <1>3, <1>4, <1>5, <1>6, <1>7, <1>8, <1>9, <1>10, <1>11, <1>12, <1>13
  DEF AppNext

\* A push happens when the home screen appears, when a button of it is tapped, on
\* a logout, or when a handler arrives.
LEMMA MenuPushedBy ==
    ASSUME StackInv, [AppNext]_vars, Len(stack') > Len(stack), IsMenu(Top')
    PROVE  \/ HomeAppears /\ user # None
           \/ DeliverReport /\ Head(mainQueue).got # Failed
<1>0. Len(stack) \in Nat /\ Len(stack) >= 1
  BY StackElements DEF StackInv, NavType
<1>1. stack' # stack
  BY <1>0
<1>2. CASE HomeAppears
  BY <1>1, <1>2 DEF HomeAppears
<1>3. ASSUME NEW i \in Homes, NEW num \in {1, 2}, TapSignUpOrLogin(i, num)
      PROVE  FALSE
  <2>1. Top = Home(i) /\ Push(Login(i))
    BY <1>3 DEF TapSignUpOrLogin, Touchable
  <2>2. Login(i) \in Screens /\ Login(i).kind = "login"
    BY DEF Screens, Login
  <2>. QED  BY <2>1, <2>2, PushType DEF StackInv, NavType, IsMenu
<1>4. ASSUME NEW i \in Homes, TapBack(i) PROVE FALSE
  <2>1. Top' = Home(i)
    BY <1>4, PopKeepsStackInv
  <2>. QED  BY <2>1 DEF IsMenu, Home
<1>5. CASE TapLogout
  <2>1. Push(Home(homes')) /\ homes' = homes + 1 /\ homes < MaxHomes
    BY <1>1, <1>5 DEF TapLogout, navVars
  <2>2. Home(homes') \in Screens /\ Home(homes').kind = "home"
    BY <2>1 DEF StackInv, NavType, Homes, Screens, Home
  <2>. QED  BY <2>1, <2>2, PushType DEF StackInv, NavType, IsMenu
<1>6. CASE AppRelaunch
  BY <1>0, <1>6 DEF AppRelaunch
<1>7. CASE DeliverReport
  BY <1>1, <1>7 DEF DeliverReport, navVars
<1>8. CASE LoginAppears \/ MenuAppears \/ TapItem \/ UNCHANGED vars
  BY <1>1, <1>8
  DEF LoginAppears, MenuAppears, TapItem, Raise, navVars, vars, uiVars
<1>9. ASSUME NEW i \in Homes, NEW r \in Requests, TapGuest(i, r) \/ SubmitForm(i, r)
      PROVE  FALSE
  BY <1>1, <1>9 DEF TapGuest, SubmitForm, Submit, navVars
<1>10. ASSUME NEW i \in Homes, TapFacebook(i) \/ TapGoogle(i) PROVE FALSE
  BY <1>1, <1>10 DEF TapFacebook, TapGoogle, navVars
<1>11. ASSUME NEW r \in Requests,
              FacebookSheetEnds(r) \/ GraphAnswers(r) \/ GoogleSheetEnds(r) \/ AuthProgress(r)
       PROVE  FALSE
  BY <1>1, <1>11
  DEF FacebookSheetEnds, GraphAnswers, GoogleSheetEnds, AuthProgress, navVars, uiVars
<1>. QED
  BY <1>2, <1>3, <1>4, <1>5, <1>6, <1>7, <1>8, <1>9, <1>10, <1>11 DEF AppNext, Appears

\* A menu without a session is only the doing of a sign-in that succeeded with
\* no user, or of a logout that overtook the answer.
THEOREM MenusNeedSessions == AppSpec => MenuNeedsSession
<1>. DEFINE Excused == /\ mainQueue # <<>>
                       /\ \/ \E i \in DOMAIN mainQueue : mainQueue[i].got = None
                          \/ homes > origin[Head(mainQueue).req]
<1>1. AppInit => OriginsMade /\ SignedOutSince
  BY DEF AppInit, Init, OriginsMade, SignedOutSince, NoOrigin, NoSheet
<1>2. ASSUME TypeOK, StackInv, SignedOutSince, [AppNext]_vars,
             Len(stack') > Len(stack), IsMenu(Top'), user = None
      PROVE  Excused
  <2>1. DeliverReport /\ Head(mainQueue).got # Failed
    BY <1>2, MenuPushedBy
  <2>2. Deliver /\ mainQueue # <<>>
    BY <2>1 DEF DeliverReport, Deliver
  <2>3. /\ Head(mainQueue) = mainQueue[1] /\ 1 \in DOMAIN mainQueue
        /\ Head(mainQueue).got \in Results
    BY <1>2, <2>2, DeliverMovesQueue
  <2>4. Head(mainQueue).got = None \/ Head(mainQueue).got \in Requests
    BY <2>1, <2>3 DEF Results
  <2>. QED  BY <1>2, <2>2, <2>3, <2>4 DEF SignedOutSince
<1>3. AppSpec => [](OriginsMade /\ SignedOutSince)
  BY <1>1, StepKeepsOrigins, StepKeepsSignedOut, StackInvHolds, ScreenTypeHolds,
     AppUsesAuth, TypeCorrect, CalledOnce, PTL DEF AppSpec
<1>4. ASSUME TypeOK, StackInv, SignedOutSince, [AppNext]_vars
      PROVE  [Len(stack') > Len(stack) /\ IsMenu(Top') /\ user = None => Excused]_vars
  BY <1>2, <1>4
<1>. QED
  BY <1>3, <1>4, StackInvHolds, AppUsesAuth, TypeCorrect, PTL
  DEF AppSpec, MenuNeedsSession
-----------------------------------------------------------------------------
(***************************************************************************)
(* One menu for each login screen                                          *)
(***************************************************************************)

\* The requests under way whose handlers push the menu of the login screen they
\* came from.
Asking == (InFlight \cup graph) \cap FromLogin

\* No login screen has two sign-ins under way, Facebook's sheet included.
OneSignInPerScreen ==
    /\ \A q, r \in Asking : origin[q] = origin[r] => q = r
    /\ sheet.sdk = "facebook" => \A r \in Asking : origin[r] # sheet.home

\* A sign-in is started on a screen without a menu above it, and nothing but its
\* own answer pushes that menu.
MenuStillToCome ==
    /\ \A r \in Asking : ~OnStack(LoginMenu(origin[r]))
    /\ sheet.sdk = "facebook" => ~OnStack(LoginMenu(sheet.home))

LEMMA LoginRequests ==
    /\ FromLogin \subseteq Requests
    /\ Asking \subseteq FromLogin
  BY DEF FromLogin, Asking, Requests

LEMMA NoMenuOfNoHome ==
    ASSUME StackInv
    PROVE  ~OnStack(LoginMenu(0))
<1>1. \A vc \in Screens : vc.kind = "loginMenu" => vc.home \in Homes
  BY DEF LoginMenu, Screens, Home, Login, NewMenu
<1>2. LoginMenu(0).kind = "loginMenu" /\ LoginMenu(0).home = 0 /\ 0 \notin Homes
  BY DEF LoginMenu, Homes
<1>3. LoginMenu(0) \notin Screens
  BY <1>1, <1>2
<1>. QED  BY <1>3, StackElements DEF OnStack, StackInv, NavType

LEMMA LoginOnTopHasNoMenu ==
    ASSUME StackInv, NEW i \in Homes, Top = Login(i)
    PROVE  ~OnStack(LoginMenu(i))
<1>. DEFINE n == Len(stack)
<1>1. n \in Nat /\ n >= 1 /\ DOMAIN stack = 1 .. n /\ stack[n] = Login(i)
  BY StackElements DEF StackInv, NavType, Top
<1>2. SUFFICES ASSUME NEW j \in 1 .. n, stack[j] = LoginMenu(i)
               PROVE  FALSE
  BY <1>1 DEF OnStack
<1>3. stack[j].kind = "loginMenu" /\ stack[j].home = i
  BY <1>2 DEF LoginMenu
<1>4. PICK k \in 1 .. (j - 1) : stack[k] = Login(i)
  BY <1>1, <1>3 DEF StackInv, StackDiscipline
<1>5. n \in Nat /\ j \in Nat /\ j <= n
  BY <1>1
<1>6. k \in 1 .. n /\ k # n
  BY <1>4, <1>5
<1>7. Login(i) # NewMenu
  BY DEF Login, NewMenu
<1>8. \A a, b \in 1 .. n : a # b /\ stack[a] = stack[b] => stack[a] = NewMenu
  BY <1>1 DEF StackInv, StackDiscipline
<1>9. n \in 1 .. n /\ stack[n] = Login(i)
  BY <1>1
<1>. QED  BY <1>4, <1>6, <1>7, <1>8, <1>9

\* What may come to the stack besides the menu of a login screen hides no menu.
LEMMA PushAddsOne ==
    ASSUME StackInv, NEW vc \in Screens, Push(vc), NEW w, OnStack(w)'
    PROVE  OnStack(w) \/ w = vc
<1>. DEFINE n == Len(stack)
<1>1. n \in Nat /\ DOMAIN stack = 1 .. n
  BY StackElements DEF StackInv, NavType
<1>2. /\ DOMAIN stack' = 1 .. (n + 1)
      /\ \A j \in 1 .. n : stack'[j] = stack[j]
      /\ stack'[n + 1] = vc
  BY PushType DEF StackInv, NavType
<1>3. PICK j \in 1 .. (n + 1) : stack'[j] = w
  BY <1>2 DEF OnStack
<1>. QED  BY <1>1, <1>2, <1>3 DEF OnStack

LEMMA PopAddsNone ==
    ASSUME StackInv, NEW i \in Homes, TapBack(i), NEW w, OnStack(w)'
    PROVE  OnStack(w)
<1>. DEFINE n == Len(stack)
<1>1. StackType /\ n > 1 /\ n \in Nat /\ DOMAIN stack = 1 .. n
  BY PopKeepsNavType, StackElements DEF StackInv, NavType
<1>2. DOMAIN stack' = 1 .. (n - 1) /\ \A j \in 1 .. (n - 1) : stack'[j] = stack[j]
  BY <1>1, PopType DEF TapBack
<1>3. PICK j \in 1 .. (n - 1) : stack'[j] = w
  BY <1>2 DEF OnStack
<1>. QED  BY <1>1, <1>2, <1>3 DEF OnStack

\* A step that starts no sign-in, opens no sheet and pushes no menu of a login
\* screen keeps the menus still to come.
LEMMA OthersKeepMenuStillToCome ==
    ASSUME MenuStillToCome,
           \A i : OnStack(LoginMenu(i))' => OnStack(LoginMenu(i)),
           \A r \in Asking' : r \in Asking /\ origin'[r] = origin[r],
           sheet' = sheet \/ sheet'.sdk # "facebook"
    PROVE  MenuStillToCome'
  BY DEF MenuStillToCome

LEMMA SameStackSameMenus ==
    ASSUME UNCHANGED stack
    PROVE  \A i : OnStack(LoginMenu(i))' => OnStack(LoginMenu(i))
  BY DEF OnStack

LEMMA PushKeepsMenus ==
    ASSUME StackInv, NEW vc \in Screens, Push(vc), vc.kind # "loginMenu"
    PROVE  \A i : OnStack(LoginMenu(i))' => OnStack(LoginMenu(i))
<1>1. \A i : LoginMenu(i) # vc
  BY DEF LoginMenu
<1>. QED  BY <1>1, PushAddsOne

LEMMA SamePhaseSameAsking ==
    ASSUME UNCHANGED <<phase, graph, origin>>
    PROVE  \A r \in Asking' : r \in Asking /\ origin'[r] = origin[r]
  BY DEF Asking, InFlight

\* A request that is under way and makes progress is still under way.
LEMMA ProgressAddsNoRequest ==
    ASSUME TypeOK, NEW r \in Requests, AuthProgress(r)
    PROVE  \A q \in Asking' : q \in Asking /\ origin'[q] = origin[q]
<1>1. phase[r] # "idle"
  BY DEF AuthProgress, Progress, Begin, TokensArrive, RequestFails, AccountArrives,
         AccountFails
<1>2. \A q \in Requests : q # r => phase'[q] = phase[q]
  BY DEF AuthProgress, Progress, Begin, TokensArrive, RequestFails, AccountArrives,
         AccountFails, Report, TypeOK
<1>3. UNCHANGED <<graph, origin>>
  BY DEF AuthProgress, uiVars, fbVars
<1>. QED  BY <1>1, <1>2, <1>3 DEF Asking, InFlight

LEMMA SubmitKeepsMenuStillToCome ==
    ASSUME TypeOK, StackInv, ScreenType, MenuStillToCome,
           NEW i \in Homes, NEW r \in Requests, TapGuest(i, r) \/ SubmitForm(i, r)
    PROVE  MenuStillToCome'
<1>1. Submit(i, r) /\ (r \in Guest \/ Top = Login(i))
  BY DEF TapGuest, SubmitForm, Touchable
<1>2. UNCHANGED <<stack, sheet, graph>>
  BY <1>1 DEF Submit, navVars, fbVars
<1>3. \A q \in Requests : q # r => phase'[q] = phase[q] /\ origin'[q] = origin[q]
  BY <1>1 DEF Submit, Ask, TypeOK, ScreenType
<1>4. origin'[r] = i
  BY <1>1 DEF Submit, ScreenType
<1>5. r \in FromLogin => ~OnStack(LoginMenu(i))
  BY <1>1, LoginOnTopHasNoMenu, KindsAssumption DEF FromLogin
<1>6. \A q \in Asking' : q = r \/ (q \in Asking /\ origin'[q] = origin[q])
  <2>1. TAKE q \in Asking'
  <2>2. q \in FromLogin /\ q \in Requests
    BY LoginRequests DEF Asking
  <2>. QED  BY <1>2, <1>3, <2>1, <2>2 DEF Asking, InFlight
<1>7. Asking' \subseteq FromLogin
  BY DEF Asking
<1>. QED
  BY <1>2, <1>4, <1>5, <1>6, <1>7, SameStackSameMenus DEF MenuStillToCome

LEMMA SheetEndKeepsMenuStillToCome ==
    ASSUME TypeOK, ScreenType, MenuStillToCome, NEW r \in Requests, FacebookSheetEnds(r)
    PROVE  MenuStillToCome'
<1>1. UNCHANGED <<stack, phase>> /\ sheet'.sdk = "none" /\ sheet.sdk = "facebook"
  BY DEF FacebookSheetEnds, NoSheet, authVars, navVars
<1>2. CASE UNCHANGED <<graph, origin>>
  BY <1>1, <1>2, SameStackSameMenus, SamePhaseSameAsking, OthersKeepMenuStillToCome
<1>3. CASE graph' = graph \cup {r} /\ origin' = [origin EXCEPT ![r] = sheet.home]
  <2>1. origin'[r] = sheet.home /\ \A q \in Requests : q # r => origin'[q] = origin[q]
    BY <1>3 DEF ScreenType
  <2>2. \A q \in Asking' : q = r \/ (q \in Asking /\ origin'[q] = origin[q])
    <3>1. \A q \in graph' : q = r \/ q \in graph
      BY <1>3
    <3>2. TAKE q \in Asking'
    <3>3. q \in FromLogin /\ q \in Requests
      BY LoginRequests DEF Asking
    <3>. QED  BY <1>1, <2>1, <3>1, <3>2, <3>3 DEF Asking, InFlight
  <2>3. ~OnStack(LoginMenu(sheet.home))
    BY <1>1 DEF MenuStillToCome
  <2>. QED  BY <1>1, <2>1, <2>2, <2>3, SameStackSameMenus DEF MenuStillToCome
<1>. QED  BY <1>2, <1>3 DEF FacebookSheetEnds

LEMMA GraphAnswerKeepsMenuStillToCome ==
    ASSUME TypeOK, StackInv, ScreenType, MenuStillToCome,
           NEW r \in Requests, GraphAnswers(r)
    PROVE  MenuStillToCome'
<1>1. UNCHANGED <<stack, sheet>> /\ r \in graph /\ graph' = graph \ {r}
  BY DEF GraphAnswers, navVars
<1>2. CASE Ask(r) /\ UNCHANGED origin
  <2>1. \A q \in Requests : q # r => phase'[q] = phase[q]
    BY <1>2 DEF Ask, TypeOK
  <2>2. \A q \in Asking' : q \in Asking /\ origin'[q] = origin[q]
    BY <1>1, <1>2, <2>1 DEF Asking, InFlight
  <2>. QED  BY <1>1, <2>2, SameStackSameMenus, OthersKeepMenuStillToCome
<1>3. CASE origin' = [origin EXCEPT ![r] = 0] /\ UNCHANGED authVars
  <2>1. \A q \in Requests : origin'[q] \in {0, origin[q]}
    BY <1>3 DEF ScreenType
  <2>2. \A q \in Asking' : q \in Asking /\ origin'[q] \in {0, origin[q]}
    BY <1>1, <1>3, <2>1, LoginRequests DEF Asking, InFlight, authVars
  <2>. QED
    BY <1>1, <2>2, NoMenuOfNoHome, SameStackSameMenus DEF MenuStillToCome
<1>. QED  BY <1>2, <1>3 DEF GraphAnswers

LEMMA DeliverKeepsMenuStillToCome ==
    ASSUME TypeOK, HandlerCalledOnce, StackInv, ScreenType,
           MenuStillToCome, OneSignInPerScreen, DeliverReport
    PROVE  /\ MenuStillToCome'
           /\ crash' # "duplicatePush"
<1>. DEFINE r == Head(mainQueue).req
            i == origin[r]
<1>1. Deliver /\ UNCHANGED <<graph, sheet>> /\ crash = "none"
  BY DEF DeliverReport, Running, fbVars
<1>2. r \in Requests /\ r \in InFlight
  <2>1. 1 \in DOMAIN mainQueue /\ r = mainQueue[1].req
    BY <1>1, DeliverMovesQueue
  <2>. QED  BY <2>1, QueuedIsInFlight, QueueElements DEF InFlight
<1>3. \A q \in Requests : origin'[q] = (IF q = r THEN 0 ELSE origin[q])
  BY <1>2 DEF DeliverReport, ScreenType
<1>4. \A q \in Requests : q # r => phase'[q] = phase[q]
  BY <1>1 DEF Deliver, TypeOK
<1>5. \A q \in Asking' : q = r \/ (q \in Asking /\ origin'[q] = origin[q])
  <2>1. TAKE q \in Asking'
  <2>2. q \in FromLogin /\ q \in Requests
    BY LoginRequests DEF Asking
  <2>. QED  BY <1>1, <1>3, <1>4, <2>1, <2>2 DEF Asking, InFlight
<1>6. ~OnStack(LoginMenu(0)) /\ ~OnStack(LoginMenu(0))'
  <2>1. StackInv'
    BY DeliverKeepsStackInv
  <2>2. (StackInv => ~OnStack(LoginMenu(0)))'
    BY NoMenuOfNoHome, PTL
  <2>. QED  BY <2>1, <2>2, NoMenuOfNoHome
<1>7. ASSUME \A j : OnStack(LoginMenu(j))' => OnStack(LoginMenu(j))
      PROVE  MenuStillToCome'
  <2>1. \A q \in Asking' : q = r => origin'[q] = 0
    BY <1>2, <1>3
  <2>. QED  BY <1>1, <1>5, <1>6, <1>7, <2>1 DEF MenuStillToCome
<1>8. CASE UNCHANGED navVars /\ crash' = crash
  BY <1>1, <1>7, <1>8, SameStackSameMenus DEF navVars
<1>9. CASE Push(NewMenu) /\ crash' = crash
  <2>1. NewMenu \in Screens /\ NewMenu.kind # "loginMenu"
    BY DEF Screens, NewMenu
  <2>. QED  BY <1>1, <1>7, <1>9, <2>1, PushKeepsMenus
<1>10. CASE r \in FromLogin /\ ShowLoginMenu(i)
  <2>1. r \in Asking
    BY <1>2, <1>10 DEF Asking
  <2>2. ~OnStack(LoginMenu(i))
    BY <2>1 DEF MenuStillToCome
  <2>3. CASE UNCHANGED navVars /\ crash' = crash
    BY <1>8, <2>3
  <2>4. CASE OnStack(Login(i)) /\ Push(LoginMenu(i)) /\ crash' = crash
    <3>1. i \in Homes
      BY <2>4, LoginHasHome DEF StackInv, NavType
    <3>2. \A w : OnStack(w)' => OnStack(w) \/ w = LoginMenu(i)
      BY <2>4, <3>1, MenuMayBePushed, PushAddsOne
    <3>3. \A j : j # i /\ OnStack(LoginMenu(j))' => OnStack(LoginMenu(j))
      BY <3>2 DEF LoginMenu
    <3>4. \A q \in Asking : q # r => origin[q] # i
      BY <2>1 DEF OneSignInPerScreen
    <3>5. sheet.sdk = "facebook" => sheet.home # i
      BY <2>1 DEF OneSignInPerScreen
    <3>6. \A q \in Asking' :
             origin'[q] = 0 \/ (q \in Asking /\ origin'[q] = origin[q] /\ origin[q] # i)
      BY <1>2, <1>3, <1>5, <3>4
    <3>7. MenuStillToCome'
      BY <1>1, <1>6, <3>3, <3>5, <3>6 DEF MenuStillToCome
    <3>. QED  BY <1>1, <2>4, <3>7
  <2>. QED  BY <1>10, <2>2, <2>3, <2>4 DEF ShowLoginMenu
<1>. QED  BY <1>8, <1>9, <1>10 DEF DeliverReport, FromLogin

\* UIKit is never asked to push a menu that is on the stack already
\* (LoginViewController.swift:300, 336, 445).
NoDuplicatePush == crash # "duplicatePush"

LEMMA StepKeepsMenuStillToCome ==
    ASSUME TypeOK, HandlerCalledOnce, StackInv, ScreenType, NoDuplicatePush,
           MenuStillToCome, OneSignInPerScreen, [AppNext]_vars
    PROVE  MenuStillToCome' /\ NoDuplicatePush'
<1>. USE DEF NoDuplicatePush
<1>0. ASSUME UNCHANGED <<stack, phase, graph, origin, sheet>> PROVE MenuStillToCome'
  BY <1>0, SameStackSameMenus, SamePhaseSameAsking, OthersKeepMenuStillToCome
<1>1. CASE HomeAppears
  <2>1. UNCHANGED <<phase, graph, origin, sheet, crash>>
    BY <1>1 DEF HomeAppears, authVars, fbVars
  <2>2. CASE Push(NewMenu)
    <3>1. NewMenu \in Screens /\ NewMenu.kind # "loginMenu"
      BY DEF Screens, NewMenu
    <3>. QED
      BY <2>1, <2>2, <3>1, PushKeepsMenus, SamePhaseSameAsking, OthersKeepMenuStillToCome
  <2>. QED  BY <1>0, <1>1, <2>1, <2>2 DEF HomeAppears
<1>2. CASE LoginAppears \/ MenuAppears \/ TapItem
  BY <1>0, <1>2 DEF LoginAppears, MenuAppears, TapItem, Raise, authVars, fbVars, navVars
<1>3. ASSUME NEW i \in Homes, NEW r \in Requests, TapGuest(i, r) \/ SubmitForm(i, r)
      PROVE  MenuStillToCome' /\ NoDuplicatePush'
  BY <1>3, SubmitKeepsMenuStillToCome DEF TapGuest, SubmitForm, Submit
<1>4. ASSUME NEW i \in Homes, NEW num \in {1, 2}, TapSignUpOrLogin(i, num)
      PROVE  MenuStillToCome' /\ NoDuplicatePush'
  <2>1. Login(i) \in Screens /\ Login(i).kind # "loginMenu"
    BY DEF Screens, Login
  <2>2. UNCHANGED <<phase, graph, origin, sheet, crash>> /\ Push(Login(i))
    BY <1>4 DEF TapSignUpOrLogin, authVars, fbVars
  <2>. QED
    BY <2>1, <2>2, PushKeepsMenus, SamePhaseSameAsking, OthersKeepMenuStillToCome
<1>5. ASSUME NEW i \in Homes, TapBack(i)
      PROVE  MenuStillToCome' /\ NoDuplicatePush'
  <2>1. UNCHANGED <<phase, graph, origin, sheet, crash>>
    BY <1>5 DEF TapBack, authVars, fbVars
  <2>. QED
    BY <1>5, <2>1, PopAddsNone, SamePhaseSameAsking, OthersKeepMenuStillToCome
<1>6. ASSUME NEW i \in Homes, TapFacebook(i) \/ TapGoogle(i)
      PROVE  MenuStillToCome' /\ NoDuplicatePush'
  <2>1. /\ Top = Login(i) /\ UNCHANGED <<stack, phase, graph, origin, crash>>
        /\ \/ sheet' = sheet
           \/ sheet'.sdk = "facebook" /\ sheet'.home = i
           \/ sheet'.sdk = "google"
    BY <1>6 DEF TapFacebook, TapGoogle, Touchable, authVars, navVars
  <2>2. ~OnStack(LoginMenu(i))
    BY <2>1, LoginOnTopHasNoMenu
  <2>. QED
    BY <2>1, <2>2, SameStackSameMenus, SamePhaseSameAsking DEF MenuStillToCome
<1>7. CASE TapLogout
  <2>1. UNCHANGED <<phase, graph, origin, sheet, crash>>
    BY <1>7 DEF TapLogout, SignOut
  <2>2. CASE homes' = homes + 1 /\ Push(Home(homes'))
    <3>1. homes' \in Homes
      BY <1>7, <2>2 DEF TapLogout, StackInv, NavType, Homes
    <3>2. Home(homes') \in Screens /\ Home(homes').kind # "loginMenu"
      BY <3>1 DEF Screens, Home
    <3>. QED
      BY <2>1, <2>2, <3>2, PushKeepsMenus, SamePhaseSameAsking, OthersKeepMenuStillToCome
  <2>. QED  BY <1>0, <1>7, <2>1, <2>2 DEF TapLogout, navVars
<1>8. ASSUME NEW r \in Requests, FacebookSheetEnds(r)
      PROVE  MenuStillToCome' /\ NoDuplicatePush'
  BY <1>8, SheetEndKeepsMenuStillToCome DEF FacebookSheetEnds
<1>9. ASSUME NEW r \in Requests, GraphAnswers(r)
      PROVE  MenuStillToCome' /\ NoDuplicatePush'
  BY <1>9, GraphAnswerKeepsMenuStillToCome DEF GraphAnswers
<1>10. ASSUME NEW r \in Requests, GoogleSheetEnds(r)
       PROVE  MenuStillToCome' /\ NoDuplicatePush'
  <2>1. /\ UNCHANGED <<stack, graph, origin, crash>> /\ sheet'.sdk # "facebook"
        /\ r \in Google
    BY <1>10 DEF GoogleSheetEnds, navVars, NoSheet
  <2>2. \A q \in Requests : q # r => phase'[q] = phase[q]
    BY <1>10 DEF GoogleSheetEnds, Ask, TypeOK, authVars
  <2>3. r \notin FromLogin
    BY <2>1, KindsAssumption DEF FromLogin
  <2>4. \A q \in Asking' : q \in Asking /\ origin'[q] = origin[q]
    <3>1. TAKE q \in Asking'
    <3>2. q \in FromLogin /\ q \in Requests
      BY LoginRequests DEF Asking
    <3>. QED  BY <2>1, <2>2, <2>3, <3>1, <3>2 DEF Asking, InFlight
  <2>. QED  BY <2>1, <2>4, SameStackSameMenus, OthersKeepMenuStillToCome
<1>11. ASSUME NEW r \in Requests, AuthProgress(r)
       PROVE  MenuStillToCome' /\ NoDuplicatePush'
  <2>1. UNCHANGED <<stack, sheet, crash>>
    BY <1>11 DEF AuthProgress, uiVars, navVars, fbVars
  <2>. QED
    BY <1>11, <2>1, ProgressAddsNoRequest, SameStackSameMenus, OthersKeepMenuStillToCome
<1>12. CASE DeliverReport
  BY <1>12, DeliverKeepsMenuStillToCome
<1>13. CASE AppRelaunch
  <2>1. Asking' = {} /\ sheet'.sdk # "facebook" /\ crash' = "none"
    BY <1>13 DEF AppRelaunch, Relaunch, Asking, InFlight, NoSheet
  <2>. QED  BY <2>1 DEF MenuStillToCome
<1>14. CASE UNCHANGED vars
  BY <1>0, <1>14 DEF vars, authVars, uiVars, navVars, fbVars
<1>. QED
  BY <1>1, <1>2, <1>3, <1>4, <1>5, <1>6, <1>7, <1>8, <1>9, <1>10, <1>11, <1>12, <1>13,
     <1>14, Zenon
  DEF AppNext, Appears

\* UIKit is never asked to push a menu twice as long as no login screen has two
\* sign-ins under way, however many other screens have.
THEOREM OnePushForOneSignIn ==
    AppSpec /\ []OneSignInPerScreen => []NoDuplicatePush
<1>1. AppInit => MenuStillToCome /\ NoDuplicatePush
  BY DEF AppInit, Init, MenuStillToCome, NoDuplicatePush, Asking, InFlight, NoSheet
<1>. QED
  BY <1>1, StepKeepsMenuStillToCome, StackInvHolds, ScreenTypeHolds, AppUsesAuth,
     TypeCorrect, CalledOnce, PTL DEF AppSpec

-----------------------------------------------------------------------------
(***************************************************************************)
(* The menu of a login screen ends its sign-ins                            *)
(***************************************************************************)
FacebookSheet(i) == [sdk |-> "facebook", home |-> i]

\* A step that puts no request of a login screen under way and opens no
\* Facebook sheet.
LEMMA FewerKeepSignIns ==
    ASSUME NEW i \in Homes,
           \A r \in Asking' : r \in Asking /\ origin'[r] \in {0, origin[r]},
           sheet' \in {sheet, NoSheet} \/ sheet' # FacebookSheet(i)
    PROVE  SignInsOf(i)' \subseteq SignInsOf(i)
<1>1. i # 0 /\ NoSheet # FacebookSheet(i)
  BY DEF Homes, NoSheet, FacebookSheet
<1>2. sheet' = FacebookSheet(i) => sheet = FacebookSheet(i)
  BY <1>1
<1>3. SignInsOf(i) = {r \in Asking : origin[r] = i}
                     \cup (IF sheet = FacebookSheet(i) THEN Facebook ELSE {})
  BY DEF SignInsOf, Asking, FacebookSheet
<1>4. SignInsOf(i)' = {r \in Asking' : origin'[r] = i}
                      \cup (IF sheet' = FacebookSheet(i) THEN Facebook ELSE {})
  BY DEF SignInsOf, Asking, FacebookSheet
<1>5. \A r \in Asking' : origin'[r] = i => r \in Asking /\ origin[r] = i
  BY <1>1
<1>. QED  BY <1>2, <1>3, <1>4, <1>5

\* A step that puts one request of another screen under way.
LEMMA OtherSignIn ==
    ASSUME NEW i \in Homes, NEW r \in Requests,
           UNCHANGED sheet, r \notin FromLogin \/ origin'[r] # i,
           \A q \in Asking' : q = r \/ (q \in Asking /\ origin'[q] = origin[q])
    PROVE  SignInsOf(i)' \subseteq SignInsOf(i)
  BY DEF SignInsOf, Asking

LEMMA StepEndsSignIns ==
    ASSUME TypeOK, HandlerCalledOnce, StackInv, ScreenType, [AppNext]_vars,
           NEW i \in Homes, OnStack(LoginMenu(i))
    PROVE  SignInsOf(i)' \subseteq SignInsOf(i)
<1>0. ASSUME UNCHANGED <<phase, graph, origin, sheet>>
      PROVE  SignInsOf(i)' \subseteq SignInsOf(i)
  BY <1>0, SamePhaseSameAsking, FewerKeepSignIns
<1>1. Top # Login(i)
  BY LoginOnTopHasNoMenu
<1>2. CASE Appears \/ TapItem
  BY <1>0, <1>2
  DEF Appears, HomeAppears, LoginAppears, MenuAppears, TapItem, authVars, fbVars
<1>3. ASSUME NEW j \in Homes, NEW r \in Requests, TapGuest(j, r) \/ SubmitForm(j, r)
      PROVE  SignInsOf(i)' \subseteq SignInsOf(i)
  <2>1. Submit(j, r) /\ (r \in Guest \/ Top = Login(j))
    BY <1>3 DEF TapGuest, SubmitForm, Touchable
  <2>2. UNCHANGED <<sheet, graph>> /\ origin'[r] = j
    BY <2>1 DEF Submit, fbVars, ScreenType
  <2>3. \A q \in Requests : q # r => phase'[q] = phase[q] /\ origin'[q] = origin[q]
    BY <2>1 DEF Submit, Ask, TypeOK, ScreenType
  <2>4. \A q \in Asking' : q = r \/ (q \in Asking /\ origin'[q] = origin[q])
    <3>1. TAKE q \in Asking'
    <3>2. q \in FromLogin /\ q \in Requests
      BY LoginRequests DEF Asking
    <3>. QED  BY <2>2, <2>3, <3>1, <3>2 DEF Asking, InFlight
  <2>5. r \notin FromLogin \/ origin'[r] # i
    BY <1>1, <2>1, <2>2, KindsAssumption DEF FromLogin
  <2>. QED  BY <2>2, <2>4, <2>5, OtherSignIn
<1>4. ASSUME NEW j \in Homes, NEW num \in {1, 2}, TapSignUpOrLogin(j, num) \/ TapBack(j)
      PROVE  SignInsOf(i)' \subseteq SignInsOf(i)
  BY <1>0, <1>4 DEF TapSignUpOrLogin, TapBack, authVars, fbVars
<1>5. ASSUME NEW j \in Homes, TapFacebook(j) \/ TapGoogle(j)
      PROVE  SignInsOf(i)' \subseteq SignInsOf(i)
  <2>1. Top = Login(j) /\ UNCHANGED <<phase, graph, origin>>
    BY <1>5 DEF TapFacebook, TapGoogle, Touchable, authVars
  <2>2. j # i
    BY <1>1, <2>1
  <2>3. sheet' = sheet \/ sheet' # FacebookSheet(i)
    BY <1>5, <2>2 DEF TapFacebook, TapGoogle, FacebookSheet
  <2>. QED  BY <2>1, <2>3, SamePhaseSameAsking, FewerKeepSignIns
<1>6. CASE TapLogout
  BY <1>0, <1>6 DEF TapLogout, SignOut
<1>7. ASSUME NEW r \in Requests, FacebookSheetEnds(r)
      PROVE  SignInsOf(i)' \subseteq SignInsOf(i)
  <2>1. UNCHANGED phase /\ sheet' = NoSheet /\ sheet.sdk = "facebook" /\ r \in Facebook
    BY <1>7 DEF FacebookSheetEnds, authVars
  <2>2. CASE UNCHANGED <<graph, origin>>
    BY <2>1, <2>2, SamePhaseSameAsking, FewerKeepSignIns
  <2>3. CASE graph' = graph \cup {r} /\ origin' = [origin EXCEPT ![r] = sheet.home]
    <3>1. origin'[r] = sheet.home /\ \A q \in Requests : q # r => origin'[q] = origin[q]
      BY <2>3 DEF ScreenType
    <3>2. \A q \in Asking' : q = r \/ (q \in Asking /\ origin'[q] = origin[q])
      <4>1. \A q \in graph' : q = r \/ q \in graph
        BY <2>3
      <4>2. TAKE q \in Asking'
      <4>3. q \in FromLogin /\ q \in Requests
        BY LoginRequests DEF Asking
      <4>. QED  BY <2>1, <3>1, <4>1, <4>2, <4>3 DEF Asking, InFlight
    <3>3. origin'[r] = i => r \in SignInsOf(i)
      <4>1. sheet.home = i => sheet = [sdk |-> "facebook", home |-> i]
        BY <2>1 DEF ScreenType, Sheets, NoSheet
      <4>. QED  BY <2>1, <3>1, <4>1 DEF SignInsOf
    <3>4. SignInsOf(i)' = {q \in Asking' : origin'[q] = i}
      <4>1. NoSheet # [sdk |-> "facebook", home |-> i]
        BY DEF NoSheet
      <4>. QED  BY <2>1, <4>1 DEF SignInsOf, Asking
    <3>5. {q \in Asking : origin[q] = i} \subseteq SignInsOf(i)
      BY DEF SignInsOf, Asking
    <3>. QED  BY <3>2, <3>3, <3>4, <3>5
  <2>. QED  BY <1>7, <2>2, <2>3 DEF FacebookSheetEnds
<1>8. ASSUME NEW r \in Requests, GraphAnswers(r)
      PROVE  SignInsOf(i)' \subseteq SignInsOf(i)
  <2>1. UNCHANGED sheet /\ r \in graph /\ graph' = graph \ {r}
    BY <1>8 DEF GraphAnswers
  <2>2. CASE Ask(r) /\ UNCHANGED origin
    <3>1. \A q \in Requests : q # r => phase'[q] = phase[q]
      BY <2>2 DEF Ask, TypeOK
    <3>2. \A q \in Asking' : q \in Asking /\ origin'[q] = origin[q]
      BY <2>1, <2>2, <3>1 DEF Asking, InFlight
    <3>. QED  BY <2>1, <3>2, FewerKeepSignIns
  <2>3. CASE origin' = [origin EXCEPT ![r] = 0] /\ UNCHANGED authVars
    <3>1. \A q \in Requests : origin'[q] \in {0, origin[q]}
      BY <2>3 DEF ScreenType
    <3>2. \A q \in Asking' : q \in Asking /\ origin'[q] \in {0, origin[q]}
      BY <2>1, <2>3, <3>1, LoginRequests DEF Asking, InFlight, authVars
    <3>. QED  BY <2>1, <3>2, FewerKeepSignIns
  <2>. QED  BY <1>8, <2>2, <2>3 DEF GraphAnswers
<1>9. ASSUME NEW r \in Requests, GoogleSheetEnds(r)
      PROVE  SignInsOf(i)' \subseteq SignInsOf(i)
  <2>1. UNCHANGED <<graph, origin>> /\ sheet' = NoSheet /\ r \in Google
    BY <1>9 DEF GoogleSheetEnds
  <2>2. \A q \in Requests : q # r => phase'[q] = phase[q]
    BY <1>9 DEF GoogleSheetEnds, Ask, TypeOK, authVars
  <2>3. r \notin FromLogin
    BY <2>1, KindsAssumption DEF FromLogin
  <2>4. \A q \in Asking' : q \in Asking /\ origin'[q] = origin[q]
    <3>1. TAKE q \in Asking'
    <3>2. q \in FromLogin /\ q \in Requests
      BY LoginRequests DEF Asking
    <3>. QED  BY <2>1, <2>2, <2>3, <3>1, <3>2 DEF Asking, InFlight
  <2>. QED  BY <2>1, <2>4, FewerKeepSignIns
<1>10. ASSUME NEW r \in Requests, AuthProgress(r)
       PROVE  SignInsOf(i)' \subseteq SignInsOf(i)
  <2>1. UNCHANGED sheet
    BY <1>10 DEF AuthProgress, uiVars, fbVars
  <2>. QED  BY <1>10, <2>1, ProgressAddsNoRequest, FewerKeepSignIns
<1>11. CASE DeliverReport
  <2>. DEFINE r == Head(mainQueue).req
  <2>1. Deliver /\ UNCHANGED <<graph, sheet>>
    BY <1>11 DEF DeliverReport, fbVars
  <2>2. r \in Requests /\ r \in InFlight
    <3>1. 1 \in DOMAIN mainQueue /\ r = mainQueue[1].req
      BY <2>1, DeliverMovesQueue
    <3>. QED  BY <3>1, QueuedIsInFlight, QueueElements DEF InFlight
  <2>3. \A q \in Requests : origin'[q] = (IF q = r THEN 0 ELSE origin[q])
    BY <1>11, <2>2 DEF DeliverReport, ScreenType
  <2>4. \A q \in Requests : q # r => phase'[q] = phase[q]
    BY <2>1 DEF Deliver, TypeOK
  <2>5. \A q \in Asking' : q \in Asking /\ origin'[q] \in {0, origin[q]}
    <3>1. TAKE q \in Asking'
    <3>2. q \in FromLogin /\ q \in Requests
      BY LoginRequests DEF Asking
    <3>. QED  BY <2>1, <2>2, <2>3, <2>4, <3>1, <3>2 DEF Asking, InFlight
  <2>. QED  BY <2>1, <2>5, FewerKeepSignIns
<1>12. CASE AppRelaunch
  <2>1. Asking' = {} /\ sheet' = NoSheet
    BY <1>12 DEF AppRelaunch, Relaunch, Asking, InFlight
  <2>. QED  BY <2>1, FewerKeepSignIns
<1>13. CASE UNCHANGED vars
  BY <1>0, <1>13 DEF vars, authVars, uiVars, fbVars
<1>. QED
  BY <1>2, <1>3, <1>4, <1>5, <1>6, <1>7, <1>8, <1>9, <1>10, <1>11, <1>12, <1>13
  DEF AppNext

\* No step starts a sign-in on a login screen whose menu is on the stack, for any
\* number of screens and of sign-ins under way.
THEOREM SignInsEndWithTheMenu == AppSpec => MenuEndsSignIns
<1>1. ASSUME TypeOK, HandlerCalledOnce, StackInv, ScreenType, [AppNext]_vars
      PROVE  [\A i \in Homes :
                OnStack(LoginMenu(i)) => SignInsOf(i)' \subseteq SignInsOf(i)]_vars
  BY <1>1, StepEndsSignIns
<1>. QED
  BY <1>1, StackInvHolds, ScreenTypeHolds, AppUsesAuth, TypeCorrect, CalledOnce, PTL
  DEF AppSpec, MenuEndsSignIns
=============================================================================

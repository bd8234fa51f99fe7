---------------------------- MODULE AuthSession ----------------------------
(***************************************************************************)
(* FIRAuth as the app uses it: the current user in memory, the user saved  *)
(* in the keychain, and the sign-in requests on their way through the      *)
(* serial work queue, the server and the main queue.                       *)
(*                                                                         *)
(* One request is one API call.  The FIRUser object a request creates has  *)
(* the name of the request, so that the pointer comparison user ==         *)
(* _currentUser is equality here.  Blocks of the work queue are atomic     *)
(* steps; between the blocks of one request the blocks of any other, the   *)
(* main thread and a kill of the process may come.                         *)
(***************************************************************************)
EXTENDS Naturals, Sequences, FiniteSets

CONSTANTS
    Guest,        \* requests signInAnonymously()
    SignUp,       \* requests createUser(withEmail:password:)
    Email,        \* requests signIn(withEmail:password:)
    Facebook,     \* requests signInAndRetrieveData(with:), Facebook credential
    Google,       \* requests signInAndRetrieveData(with:), Google credential
    None,         \* nil: no user
    Failed,       \* the completion handler gets an error
    MaxInFlight   \* bound: requests under way at the same time

Requests == Guest \cup SignUp \cup Email \cup Facebook \cup Google

ASSUME KindsAssumption ==
    /\ Guest \cap (SignUp \cup Email \cup Facebook \cup Google) = {}
    /\ SignUp \cap (Email \cup Facebook \cup Google) = {}
    /\ Email \cap (Facebook \cup Google) = {}
    /\ Facebook \cap Google = {}
ASSUME NamesAssumption ==
    /\ None \notin Requests
    /\ Failed \notin Requests
    /\ Failed # None

VARIABLES
    user,       \* FIRAuth._currentUser
    disk,       \* the user archived under kUserKey in the keychain
    restored,   \* the init block's getUser: returned YES at the last launch
    phase,      \* where each request is
    mainQueue   \* completion handlers dispatched to the main queue, in order

authVars == <<user, disk, restored, phase, mainQueue>>

\* idle: no such call.  queued: its first block waits on the work queue.
\* rpc: the identity request is at the server.  info: the tokens are there and
\* getAccountInfo is at the server.  reported: the handler is on the main queue.
Phases == {"idle", "queued", "rpc", "info", "reported"}

\* What a completion handler is called with: a user, a result that holds no
\* user (None), or an error.
Results == Requests \cup {None, Failed}
Reports == [req : Requests, got : Results]

TypeOK ==
    /\ user \in Requests \cup {None}
    /\ disk \in Requests \cup {None}
    /\ restored \in BOOLEAN
    /\ phase \in [Requests -> Phases]
    /\ mainQueue \in Seq(Reports)

Init ==
    /\ user = None
    /\ disk = None
    /\ restored = TRUE
    /\ phase = [r \in Requests |-> "idle"]
    /\ mainQueue = <<>>

-----------------------------------------------------------------------------
InFlight == {r \in Requests : phase[r] # "idle"}

\* The user objects somebody still holds: their names cannot be used again.
Held == {user, disk} \cup {mainQueue[i].got : i \in DOMAIN mainQueue}

\* dispatch_sync on the serial queue returns after every block queued before.
Drained == \A r \in Requests : phase[r] # "queued"

\* Faulty variant: the newest handler overtakes the waiting ones.
ReportFirst(r, got) ==
    /\ phase' = [phase EXCEPT ![r] = "reported"]
    /\ mainQueue' = <<[req |-> r, got |-> got]>> \o mainQueue

\* A decorated callback dispatches the completion handler to the main queue.
Report(r, got) ==
    /\ phase' = [phase EXCEPT ![r] = "reported"]
    /\ mainQueue' = Append(mainQueue, [req |-> r, got |-> got])

\* Faulty variants: savingToDisk:NO, and a nil user that is not removed.
UpdateMemoryOnly(u) == user' = u /\ UNCHANGED disk

UpdateNeverRemoves(u) ==
    /\ user' = u
    /\ disk' = IF u \in {user, None} THEN disk ELSE u

\* updateCurrentUser:u byForce:NO savingToDisk:YES returns YES: nothing to do
\* for the object that is already current, otherwise the keychain first and
\* the memory after it.
UpdateCurrentUser(u) ==
    /\ user' = u
    /\ disk' = IF u = user THEN disk ELSE u

\* It returns NO: the keychain refused to save or to remove.
UpdateRefused(u) ==
    /\ u # user
    /\ UNCHANGED <<user, disk>>

-----------------------------------------------------------------------------
\* A sign-in method is called; its block is dispatched to the work queue.
Ask(r) ==
    /\ phase[r] = "idle"
    /\ r \notin Held
    /\ Cardinality(InFlight) < MaxInFlight
    /\ phase' = [phase EXCEPT ![r] = "queued"]
    /\ UNCHANGED <<user, disk, restored, mainQueue>>

\* The block runs.  A guest sign-in returns the anonymous user there is; every
\* other request goes to the server.
Begin(r) ==
    /\ phase[r] = "queued"
    /\ IF r \in Guest /\ user \in Guest
       THEN UpdateCurrentUser(user) /\ Report(r, user)
       ELSE /\ phase' = [phase EXCEPT ![r] = "rpc"]
            /\ UNCHANGED <<user, disk, mainQueue>>
    /\ UNCHANGED restored

\* The server answers with tokens; the account information is asked for.
TokensArrive(r) ==
    /\ phase[r] = "rpc"
    /\ phase' = [phase EXCEPT ![r] = "info"]
    /\ UNCHANGED <<user, disk, restored, mainQueue>>

\* Faulty variant: the return after the error callback is missing.
RequestFailsAndGoesOn(r) ==
    /\ phase[r] = "rpc"
    /\ phase' = [phase EXCEPT ![r] = "info"]
    /\ mainQueue' = Append(mainQueue, [req |-> r, got |-> Failed])
    /\ UNCHANGED <<user, disk, restored>>

\* The server refuses, wants another credential, or cannot be reached.
RequestFails(r) ==
    /\ phase[r] = "rpc"
    /\ Report(r, Failed)
    /\ UNCHANGED <<user, disk, restored>>

\* The account information arrives: the new user becomes current, unless the
\* keychain refuses it.
AccountArrives(r) ==
    /\ phase[r] = "info"
    /\ \/ UpdateCurrentUser(r) /\ Report(r, r)
       \/ UpdateRefused(r) /\ Report(r, Failed)
    /\ UNCHANGED restored

\* Faulty variant: nobody is told of the failure.
AccountFailsUnreported(r) ==
    /\ phase[r] = "info"
    /\ phase' = [phase EXCEPT ![r] = "reported"]
    /\ UNCHANGED <<user, disk, restored, mainQueue>>

\* getAccountInfo fails.  createUser and signInAnonymously do not look at the
\* error: they go on with a result whose user is nil, and so sign out whoever
\* was signed in and report success.
AccountFails(r) ==
    /\ phase[r] = "info"
    /\ IF r \in Guest \cup SignUp
       THEN \/ UpdateCurrentUser(None) /\ Report(r, None)
            \/ UpdateRefused(None) /\ Report(r, Failed)
       ELSE Report(r, Failed) /\ UNCHANGED <<user, disk>>
    /\ UNCHANGED restored

\* The main queue runs its next completion handler.
Deliver ==
    /\ mainQueue # <<>>
    /\ phase' = [phase EXCEPT ![Head(mainQueue).req] = "idle"]
    /\ mainQueue' = Tail(mainQueue)
    /\ UNCHANGED <<user, disk, restored>>

\* Faulty variant: the memory before the keychain.
SignOutFromMemoryFirst(ok) ==
    /\ Drained
    /\ user' = None
    /\ disk' = IF ok /\ user # None THEN None ELSE disk
    /\ UNCHANGED <<restored, phase, mainQueue>>

\* signOut: returns YES (ok) or throws.
SignOut(ok) ==
    /\ Drained
    /\ IF ok THEN UpdateCurrentUser(None) ELSE UpdateRefused(None)
    /\ UNCHANGED <<restored, phase, mainQueue>>

\* The process dies and is launched again: the init block reads the keychain.
Relaunch ==
    /\ restored' \in BOOLEAN
    /\ user' = IF restored' THEN disk ELSE None
    /\ phase' = [r \in Requests |-> "idle"]
    /\ mainQueue' = <<>>
    /\ UNCHANGED disk

\* What the device and the server do with a request by themselves.
Progress(r) ==
    \/ Begin(r)
    \/ TokensArrive(r)
    \/ RequestFails(r)
    \/ AccountArrives(r)
    \/ AccountFails(r)

Next ==
    \/ \E r \in Requests : Ask(r) \/ Progress(r)
    \/ Deliver
    \/ \E ok \in BOOLEAN : SignOut(ok)
    \/ Relaunch

Spec == Init /\ [][Next]_authVars

-----------------------------------------------------------------------------
(***************************************************************************)
(* Properties                                                              *)
(***************************************************************************)

\* Whoever is signed in is saved: a kill at any moment brings the same user
\* back (FIRAuth.m:1783-1790, the keychain before the memory).
SessionIsDurable == user # None => disk = user

\* When the last launch could read the keychain, nobody signed in means nobody
\* saved: a user who signed out is not back after a restart (FIRAuth.m:1204).
SignedOutIsForgotten == restored /\ user = None => disk = None

\* The last successful completion handler on its way to the main thread names
\* the session there is, unless somebody has signed out since: handlers are not
\* overtaken by the sessions of later requests (FIRAuth.m:1743-1759).
Succeeded == {i \in DOMAIN mainQueue : mainQueue[i].got # Failed}

LatestReportIsCurrent ==
    \A i \in Succeeded :
        (\A j \in Succeeded : j <= i) => user \in {mainQueue[i].got, None}

\* A request has one completion handler on the main queue at most, and only
\* while it waits for nothing else: no path both reports and goes on
\* (FIRAuth.m:831-960, each branch returns after its decorated callback).
HandlerCalledOnce ==
    /\ \A i \in DOMAIN mainQueue : phase[mainQueue[i].req] = "reported"
    /\ \A i, j \in DOMAIN mainQueue :
          mainQueue[i].req = mainQueue[j].req => i = j

\* A sign-in that reports an error has not touched the session, in memory or in
\* the keychain, whichever step failed (FIRAuth.m:1743-1752, 1783-1790).
FailureKeepsSession ==
    [][ (Len(mainQueue') > Len(mainQueue) /\ mainQueue'[Len(mainQueue')].got = Failed)
        => UNCHANGED <<user, disk>> ]_authVars

\* FIRAuth.h:575 says of createUser: "Creates and, on success, signs in a user
\* with the given email address and password."
SignUpSuccessSignsIn ==
    \A i \in DOMAIN mainQueue :
        mainQueue[i].req \in SignUp /\ mainQueue[i].got # Failed
        => mainQueue[i].got \in Requests

\* FIRAuth.h:515 says of signInAnonymously: "If there is already an anonymous
\* user signed in, that user will be returned instead."
AnonymousUserIsReturned ==
    [][ (user \in Guest /\ user' \in Guest) => user' = user ]_authVars

-----------------------------------------------------------------------------
\* The session the keychain holds is the durable one, and a sign-in is pending
\* until its handler is dispatched.
Pending == {r \in Requests : phase[r] \in {"queued", "rpc", "info"}}

Promise == INSTANCE DurableSession
           WITH Creators <- Guest \cup SignUp,
                durable  <- disk,
                current  <- user,
                pending  <- Pending

\* FIRAuth keeps the promise of DurableSession.
KeepsPromise == Promise!Spec
=============================================================================

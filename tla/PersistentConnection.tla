------------------------ MODULE PersistentConnection ------------------------
(***************************************************************************)
(* The life of Firebase's one connection to its database server:           *)
(* FPersistentConnection with the FConnection it holds as `realtime` and   *)
(* the one task of its FIRRetryHelper.  Every handler runs on the shared   *)
(* dispatch queue and is one step; delays are left out, so that a          *)
(* scheduled retry may run at any time.                                    *)
(***************************************************************************)
EXTENDS Naturals, Sequences

CONSTANTS
    MaxAttempts,    \* bound: token fetches of a behaviour
    MaxAuths        \* bound: credentials at the server at one time

VARIABLES
    connectionState,
    interruptReasons,
    retry,      \* scheduledRetry: none, or whether its block forces a refresh
    forceAuthTokenRefresh,
    attempt,    \* currentFetchTokenAttempt
    fetches,    \* the attempts whose token callback has not come
    realtime,   \* the FConnection: none, or its state
    authToken,  \* is there a credential?
    auths,      \* auth requests without answer; restoreStateAfterComplete: "restore"
    restores    \* calls of restoreState on this connection

connVars ==
    <<connectionState, interruptReasons, retry, forceAuthTokenRefresh, attempt, fetches,
      realtime, authToken, auths, restores>>

States  == {"Disconnected", "GettingToken", "Connecting", "Authenticating", "Connected"}
Reasons == {"waiting_for_open", "repo_interrupt", "server_kill"}
Auths   == {"restore", "refresh"}

ConnTypeOK ==
    /\ connectionState \in States
    /\ interruptReasons \subseteq Reasons
    /\ retry \in {"none", "plain", "forced"}
    /\ forceAuthTokenRefresh \in BOOLEAN
    /\ attempt \in Nat
    /\ fetches \subseteq Nat
    /\ realtime \in {"none", "connecting", "connected"}
    /\ authToken \in BOOLEAN
    /\ auths \in Seq(Auths)
    /\ restores \in Nat

ConnInit ==
    /\ connectionState = "Disconnected"
    /\ interruptReasons = {"waiting_for_open"}
    /\ retry = "none"
    /\ forceAuthTokenRefresh = FALSE
    /\ attempt = 0
    /\ fetches = {}
    /\ realtime = "none"
    /\ authToken = FALSE
    /\ auths = <<>>
    /\ restores = 0

Authorizable  == connectionState \in {"Authenticating", "Connected"}    \* -connected
CanSendWrites == connectionState = "Connected"

-----------------------------------------------------------------------------
\* `force` and `reasons` are forceAuthTokenRefresh and interruptReasons at the call.
TryScheduleReconnect(force, reasons) ==
    IF reasons = {}
      THEN /\ retry' = IF force THEN "forced" ELSE "plain"
           /\ forceAuthTokenRefresh' = FALSE
      ELSE /\ UNCHANGED retry
           /\ forceAuthTokenRefresh' = force

\* onDisconnect:withReason:, called by every close of the FConnection.
OnDisconnect(force, reasons) ==
    /\ connectionState' = "Disconnected"
    /\ realtime' = "none"
    /\ auths' = <<>>
    /\ restores' = 0
    /\ TryScheduleReconnect(force, reasons)

InterruptForReason(reason) ==
    /\ interruptReasons' = interruptReasons \cup {reason}
    /\ IF realtime # "none"
         THEN OnDisconnect(forceAuthTokenRefresh, interruptReasons')
         ELSE /\ retry' = "none"
              /\ connectionState' = "Disconnected"
              /\ UNCHANGED <<forceAuthTokenRefresh, realtime, auths, restores>>
    /\ UNCHANGED <<attempt, fetches, authToken>>

ResumeForReason(reason) ==
    /\ interruptReasons' = interruptReasons \ {reason}
    /\ IF connectionState = "Disconnected"
         THEN TryScheduleReconnect(forceAuthTokenRefresh, interruptReasons')
         ELSE UNCHANGED <<retry, forceAuthTokenRefresh>>
    /\ UNCHANGED <<connectionState, attempt, fetches, realtime, authToken, auths, restores>>

Open       == "waiting_for_open" \in interruptReasons /\ ResumeForReason("waiting_for_open")
GoOffline  == InterruptForReason("repo_interrupt")
GoOnline   == ResumeForReason("repo_interrupt")
ServerKill == realtime # "none" /\ InterruptForReason("server_kill")

\* reachabilityCallback, enteringForeground.
Reachable ==
    /\ connectionState = "Disconnected"
    /\ UNCHANGED <<connectionState, interruptReasons, attempt, fetches, realtime, authToken,
                   auths, restores>>
    /\ TryScheduleReconnect(forceAuthTokenRefresh, interruptReasons)

\* The block of the scheduled retry.
RetryFires ==
    /\ retry # "none" /\ attempt < MaxAttempts
    /\ retry' = "none"
    /\ connectionState' = "GettingToken"
    /\ attempt' = attempt + 1
    /\ fetches' = fetches \cup {attempt + 1}
    /\ UNCHANGED <<interruptReasons, forceAuthTokenRefresh, realtime, authToken, auths, restores>>

TokenFails ==
    /\ connectionState' = "Disconnected"
    /\ TryScheduleReconnect(forceAuthTokenRefresh, interruptReasons)
    /\ UNCHANGED <<realtime, authToken>>

\* Interrupted meanwhile, the connection is not opened.
TokenComes(token) ==
    /\ IF connectionState = "GettingToken"
         THEN /\ authToken' = token
              /\ connectionState' = "Connecting"
              /\ realtime' = "connecting"
         ELSE UNCHANGED <<authToken, connectionState, realtime>>
    /\ UNCHANGED <<retry, forceAuthTokenRefresh>>

\* Faulty variant: a late callback is taken for that of the latest attempt.
TokenAnswerOfAny(a, failed, token) ==
    /\ a \in fetches
    /\ fetches' = fetches \ {a}
    /\ UNCHANGED <<interruptReasons, attempt, auths, restores>>
    /\ IF failed THEN TokenFails ELSE TokenComes(token)

\* The callback of fetchTokenForcingRefresh; the token is nil when nobody is signed in.
TokenAnswer(a, failed, token) ==
    /\ a \in fetches
    /\ fetches' = fetches \ {a}
    /\ UNCHANGED <<interruptReasons, attempt, auths, restores>>
    /\ IF a = attempt
         THEN IF failed THEN TokenFails ELSE TokenComes(token)
         ELSE UNCHANGED <<connectionState, retry, forceAuthTokenRefresh, realtime, authToken>>

TokenArrives == \E a \in fetches : \E failed, token \in BOOLEAN : TokenAnswer(a, failed, token)

\* The server's hello: onReady, restoreAuth.
Hello ==
    /\ realtime = "connecting"
    /\ realtime' = "connected"
    /\ IF authToken
         THEN /\ connectionState' = "Authenticating"
              /\ auths' = Append(auths, "restore")
              /\ UNCHANGED restores
         ELSE /\ connectionState' = "Connected"
              /\ restores' = restores + 1
              /\ UNCHANGED auths
    /\ UNCHANGED <<interruptReasons, retry, forceAuthTokenRefresh, attempt, fetches, authToken>>

\* The socket closed, never opened in time, or was reset by the server.
Lost ==
    /\ realtime # "none"
    /\ OnDisconnect(forceAuthTokenRefresh, interruptReasons)
    /\ UNCHANGED <<interruptReasons, attempt, fetches, authToken>>

\* Faulty variant: each accepted credential restores the state.
AuthAcceptedRestores ==
    /\ auths # <<>>
    /\ connectionState' = "Connected"
    /\ auths' = Tail(auths)
    /\ restores' = restores + 1
    /\ UNCHANGED <<interruptReasons, retry, forceAuthTokenRefresh, attempt, fetches, realtime,
                   authToken>>

\* The server answers credentials in the order it got them.
AuthAccepted ==
    /\ auths # <<>>
    /\ connectionState' = "Connected"
    /\ auths' = Tail(auths)
    /\ restores' = IF Head(auths) = "restore" THEN restores + 1 ELSE restores
    /\ UNCHANGED <<interruptReasons, retry, forceAuthTokenRefresh, attempt, fetches, realtime,
                   authToken>>

Refuse ==
    /\ authToken' = FALSE
    /\ OnDisconnect(TRUE, interruptReasons)
    /\ UNCHANGED <<interruptReasons, attempt, fetches>>

AuthRefused == auths # <<>> /\ Refuse
AuthRevoked == realtime = "connected" /\ Refuse     \* onAuthRevokedWithStatus

\* Signed in, refreshed or signed out: FIRAuth tells its listener.
RefreshAuthToken(token) ==
    /\ authToken' = token
    /\ IF Authorizable /\ token
         THEN Len(auths) < MaxAuths /\ auths' = Append(auths, "refresh")
         ELSE UNCHANGED auths
    /\ UNCHANGED <<connectionState, interruptReasons, retry, forceAuthTokenRefresh, attempt,
                   fetches, realtime, restores>>

ConnNext ==
    \/ Open \/ GoOffline \/ GoOnline \/ ServerKill \/ Reachable
    \/ RetryFires \/ TokenArrives \/ Hello \/ Lost
    \/ AuthAccepted \/ AuthRefused \/ AuthRevoked
    \/ \E token \in BOOLEAN : RefreshAuthToken(token)

ConnSpec == ConnInit /\ [][ConnNext]_connVars

-----------------------------------------------------------------------------
(* Whatever order interruptions, resumptions, late tokens, lost sockets and   *)
(* answers come in, the connection is never stranded: in each state exactly   *)
(* that event is under way which leads on from it, and a connection that      *)
(* someone interrupted has no socket and no retry.  The NSAsserts on          *)
(* connectionState (FPersistentConnection.m:392, 399, 417, 432, 493, 814)     *)
(* follow from it.                                                            *)
NeverStranded ==
    /\ connectionState = "Disconnected" /\ interruptReasons = {} => retry # "none"
    /\ retry # "none" => connectionState = "Disconnected" /\ interruptReasons = {}
    /\ connectionState = "GettingToken" => attempt \in fetches /\ interruptReasons = {}
    /\ connectionState = "Connecting" <=> realtime = "connecting"
    /\ Authorizable <=> realtime = "connected"
    /\ realtime # "none" => interruptReasons = {} /\ attempt \notin fetches
    /\ connectionState = "Authenticating" => auths # <<>> /\ Head(auths) = "restore"
    /\ auths # <<>> => realtime = "connected"

LinkState ==
    CASE connectionState = "Authenticating" -> "authorizing"
      [] connectionState = "Connected" -> "up"
      [] OTHER -> "down"

Link == INSTANCE ServerLink WITH link <- LinkState, linkRestores <- restores

(* FRepo's writes and listens may take the connection for a ServerLink: each  *)
(* socket restores the state exactly once, with the step that makes it ready  *)
(* for writes, whatever credentials are sent and answered on it.              *)
KeepsLink == Link!LinkSpec
=============================================================================

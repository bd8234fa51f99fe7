--------------------------- MODULE DurableSession ---------------------------
(***************************************************************************)
(* What the authentication layer promises the rest of the app, without     *)
(* queues, server calls or the keychain.  There is one session on the      *)
(* device.  It changes only because a sign-in somebody asked for ends, or  *)
(* because the user signs out; a restart of the process forgets the        *)
(* sign-ins that were pending and never changes the durable session.       *)
(* AuthSession implements this specification (AuthSession!Promise).        *)
(***************************************************************************)

CONSTANTS
    Requests,   \* sign-in requests; the account one establishes has its name
    Creators,   \* the requests that create an account on the server
    None        \* nobody is signed in

VARIABLES
    durable,    \* the session a restart comes back to
    current,    \* the session the app sees
    pending     \* sign-ins asked for and not ended yet

vars == <<durable, current, pending>>

Init == durable = None /\ current = None /\ pending = {}

Want(r) ==
    /\ r \notin pending
    /\ pending' = pending \cup {r}
    /\ UNCHANGED <<durable, current>>

\* Nobody is signed in any more: what the app does not see it cannot forget.
Forget ==
    /\ current' = None
    /\ durable' = IF current = None THEN durable ELSE None

\* The sign-in r ends: with its own account, without effect, or, when it was
\* to create an account, by signing out whoever was signed in.
End(r) ==
    /\ r \in pending
    /\ pending' = pending \ {r}
    /\ \/ durable' = r /\ current' = r
       \/ UNCHANGED <<durable, current>>
       \/ r \in Creators /\ Forget

SignOut == Forget /\ UNCHANGED pending

\* The process is killed and launched again: the app sees the durable session,
\* or nothing when it cannot be read.
Restart ==
    /\ pending' = {}
    /\ current' \in {durable, None}
    /\ UNCHANGED durable

Next ==
    \/ SignOut
    \/ Restart
    \/ \E r \in Requests : Want(r) \/ End(r)

Spec == Init /\ [][Next]_vars
=============================================================================

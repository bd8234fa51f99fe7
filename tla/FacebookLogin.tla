--------------------------- MODULE FacebookLogin ---------------------------
(***************************************************************************)
(* Facebook's login as the login screens use it: one FBSDKLoginManager for *)
(* each FBSDKLoginButton, and the FBSDKApplicationDelegate they share.     *)
(* Everything here runs on the main thread; the user is in the app, in the *)
(* Facebook app, in the browser or in the page of an authentication        *)
(* session, and each of those may answer late, or never.                   *)
(*                                                                         *)
(* A login is one tap on a button and the handler that came with it.  An   *)
(* attempt is one logInWithBehavior: with the challenge it makes; a login  *)
(* has more than one when the Facebook app cannot be used.  Permissions,   *)
(* logging and profiles are left out: a token that grants nothing is an    *)
(* answer without a token.  The behaviours nobody asks for (system account *)
(* and web dialogue) and systems before iOS 11 are left out.               *)
(***************************************************************************)
EXTENDS Naturals, Sequences, FiniteSets

CONSTANTS Managers, Launcher, MaxTries

nil == 0

\* Launcher is the manager made for a URL that launches the app; it has no button.
ASSUME LoginAssumption == nil \notin Managers \cup {Launcher} /\ Launcher \notin Managers

VARIABLE s      \* the process, the keychain and the pages the user can answer

fbVars == <<s>>

AllManagers == Managers \cup {Launcher}

\* A process that starts, and what is left of the last one: the keychain, pages in
\* other apps, and what does not change.
Launched(left) == [
    manager    |-> [m \in AllManagers |-> [state |-> "idle", handler |-> nil, usedSF |-> FALSE]],
    pending    |-> nil,         \* _pendingURLOpen, a manager
    expecting  |-> FALSE,       \* _expectingBackground
    requesting |-> FALSE,       \* _isRequestingSFAuthenticationSession
    session    |-> nil,         \* _authenticationSession, by its attempt
    closure    |-> nil,         \* _authenticationSessionCompletionHandler, likewise
    active     |-> FALSE,       \* _active
    front      |-> FALSE,       \* the user is in the app
    covered    |-> FALSE,       \* the page of a session covers the app
    opening    |-> {},          \* attempts whose openURL has not ended
    sessions   |-> {},          \* sessions that have not reported
    asking     |-> {},          \* answers waiting for the user's ID
    reauths    |-> {},          \* answers waiting for validateReauthentication
    fallback   |-> {},          \* managers that wait to open the browser
    challenge  |-> left.challenge,  \* the expected challenge, by its attempt
    token      |-> left.token,      \* FBSDKAccessToken.current(), by its attempt
    pages      |-> left.pages,      \* attempts whose page is open in another app
    attempts   |-> left.attempts,   \* each with its login, manager and behaviour
    told       |-> left.told,       \* what handlers were told
    uses       |-> left.uses ]

\* What cachedServerConfiguration and the installed apps make of a login: the way
\* on the web, and the first way to try.  They stay as they are in a behaviour.
Uses == {u \in [web : {"browser", "session"}, first : {"native", "browser", "session"}] :
           u.first \in {"native", u.web}}

FbInit ==
    \E u \in Uses :
        s = Launched([challenge |-> nil, token |-> nil, pages |-> {}, attempts |-> <<>>,
                      told |-> {}, uses |-> u])

-----------------------------------------------------------------------------
Attempts     == DOMAIN s.attempts
CanTry       == Len(s.attempts) < MaxTries
Manager(a)   == s.attempts[a].manager

Nothing       == [token |-> nil, checked |-> FALSE]

\* invokeHandler:error:; a handler is told a token, or nothing.
Tell(p, m, answer) ==
    [p EXCEPT !.manager[m].state = "idle",
              !.manager[m].handler = nil,
              !.told = IF p.manager[m].handler = nil \/ answer = Nothing THEN @
                       ELSE @ \cup {[login   |-> p.manager[m].handler,
                                      token   |-> answer.token,
                                      checked |-> answer.checked]}]

Token(a)      == [token |-> a, checked |-> FALSE]
CheckedFor(a) == [token |-> a, checked |-> TRUE]

\* handleImplicitCancelOfLogIn, when isPerformingLogin.
CancelPerforming(p, m) ==
    IF m # nil /\ p.manager[m].state = "performing" THEN Tell(p, m, Nothing) ELSE p

\* logInWithBehavior: up to the openURL or the start of a session.  A session
\* takes the place of the one there is.
Try(p, m, how) ==
    LET a == Len(p.attempts) + 1
        q == [p EXCEPT !.attempts = Append(@, [login |-> p.manager[m].handler,
                                               manager |-> m, how |-> how]),
                       !.challenge = a,
                       !.manager[m].usedSF = how = "session",
                       !.pending = m,
                       !.expecting = how # "session"]
    IN  IF how = "session"
        THEN [q EXCEPT !.closure = a, !.session = a, !.sessions = @ \cup {a},
                       !.requesting = TRUE, !.covered = TRUE]
        ELSE [q EXCEPT !.opening = @ \cup {a}]

\* Faulty variant: any answer is taken for that of the login under way.
CompleteUnchecked(p, m, a) ==
    IF p.token = nil
    THEN Tell([p EXCEPT !.challenge = nil, !.token = a], m, Token(a))
    ELSE [p EXCEPT !.challenge = nil, !.reauths = @ \cup {[attempt |-> a, manager |-> m]}]

\* completeAuthentication:expectChallenge: with a token and the user's ID.
Complete(p, m, a) ==
    LET q == [p EXCEPT !.challenge = nil]
    IN  IF p.challenge # a THEN Tell(q, m, Nothing)
        ELSE IF p.token = nil THEN Tell([q EXCEPT !.token = a], m, Token(a))
        ELSE [q EXCEPT !.reauths = @ \cup {[attempt |-> a, manager |-> m]}]

\* The same with an error, or without a token.
CompleteWithout(p, m) == Tell([p EXCEPT !.challenge = nil], m, Nothing)

\* What a manager makes of the URL of attempt a: a token with or without the
\* user's ID, no token, or the Facebook app's request to use the browser.
Handle(p, m, a, what) ==
    CASE what = "token"      -> Complete(p, m, a)
      [] what = "noUser"     -> [p EXCEPT !.asking = @ \cup {[attempt |-> a, manager |-> m]}]
      [] what = "refused"    -> CompleteWithout(p, m)
      [] what = "useBrowser" -> [p EXCEPT !.fallback = @ \cup {m}]

\* What the page of attempt a can send back.
Replies(a) == {"token", "noUser", "refused"}
              \cup (IF s.attempts[a].how = "native" THEN {"useBrowser"} ELSE {})

\* FBSDKApplicationDelegate's application:openURL: the session is let go, and the
\* pending manager gets the URL, once.  Attempt nil is any other URL.
OpenURL(p, a, what) ==
    LET m == p.pending
        q == [p EXCEPT !.pending = nil, !.session = nil,
                       !.covered = @ /\ p.session = nil]
    IN  IF m = nil THEN q
        ELSE IF a = nil THEN CancelPerforming(q, m)
        ELSE Handle(q, m, a, what)

\* The completion handler of a session, without an error.
SessionEnds(p, c, a, what) ==
    LET q == [p EXCEPT !.requesting = FALSE, !.manager[p.attempts[c].manager].state = "performing"]
    IN  [OpenURL(q, a, what) EXCEPT !.session = nil, !.closure = nil]

-----------------------------------------------------------------------------
(***************************************************************************)
(* The user in the app                                                     *)
(***************************************************************************)
CanTouch == s.front /\ ~s.covered

\* The button with no token: logInWithReadPermissions.  While a first login has
\* not opened anything the tap is refused; one under way is cancelled.
Tap(m) ==
    /\ CanTouch /\ CanTry
    /\ s.token = nil
    /\ s.manager[m].state = "start" => s.manager[m].usedSF
    /\ LET p == CancelPerforming(s, m)
           started == [p EXCEPT !.manager[m].handler = Len(s.attempts) + 1,
                                !.manager[m].state =
                                    IF s.manager[m].state = "performing" THEN "idle" ELSE "start"]
       IN  s' = Try(started, m, s.uses.first)

\* logOut, from the button with a token and from the menu.
LogOut ==
    /\ CanTouch
    /\ s.token # nil
    /\ s' = [s EXCEPT !.token = nil]

\* A session disappears without a report, as after a locked screen.
SessionLost ==
    /\ s.covered
    /\ s' = [s EXCEPT !.covered = FALSE]

EnterBackground ==
    /\ s.front
    /\ s' = [s EXCEPT !.front = FALSE, !.active = FALSE,
                      !.requesting = FALSE, !.expecting = FALSE]

\* applicationDidBecomeActive:, also after a system prompt, without background.
BecomeActive ==
    LET quiet(p) == ~p.expecting /\ ~p.requesting
        p == [s EXCEPT !.front = TRUE]
        q == IF quiet(p) /\ p.closure # nil THEN SessionEnds(p, p.closure, nil, "none") ELSE p
    IN  s' = IF quiet(p) /\ q.session = nil
             THEN CancelPerforming([q EXCEPT !.active = TRUE], q.pending)
             ELSE q

-----------------------------------------------------------------------------
(***************************************************************************)
(* Answers                                                                 *)
(***************************************************************************)

\* Faulty variant: a browser that did not open is no reason to call the handler.
OpeningEndsSilently(a) ==
    /\ a \in s.opening
    /\ s' = [s EXCEPT !.opening = @ \ {a}]

\* openURL has ended.  When the Facebook app did not open, the browser is tried.
OpeningEnds(a) ==
    /\ a \in s.opening
    /\ LET p == [s EXCEPT !.opening = @ \ {a}]
       IN  \/ s' = [p EXCEPT !.manager[Manager(a)].state = "performing",
                             !.pages = @ \cup {a}]
           \/ /\ s.attempts[a].how = "native" /\ CanTry
              /\ s' = Try(p, Manager(a), s.uses.web)
           \/ s.attempts[a].how = "browser" /\ s' = Tell(p, Manager(a), Nothing)

\* The user answers a page in another app, maybe long after; the URL comes
\* before the app is active.
PageAnswers(a) ==
    /\ a \in s.pages /\ ~s.front
    /\ \E what \in Replies(a) : s' = OpenURL([s EXCEPT !.pages = @ \ {a}], a, what)

\* A URL for somebody else, such as Google's.
OtherURL ==
    /\ s.pending # nil \/ s.session # nil
    /\ s' = OpenURL(s, nil, "none")

\* A session reports the answer of its page, or that it was cancelled; one that
\* was cancelled or let go by the app may still do so.
SessionReports(a) ==
    /\ a \in s.sessions
    /\ LET p == [s EXCEPT !.sessions = @ \ {a}, !.covered = @ /\ s.session # a]
       IN  \/ \E what \in Replies(a) : s' = SessionEnds(p, a, a, what)
           \/ s' = [Tell(p, Manager(a), Nothing) EXCEPT
                        !.requesting = FALSE, !.session = nil, !.closure = nil]

\* FBSDKLoginRequestMeAndPermissions is answered.
UserIsKnown(c) ==
    /\ c \in s.asking
    /\ LET p == [s EXCEPT !.asking = @ \ {c}]
       IN  \/ s' = Complete(p, c.manager, c.attempt)
           \/ s' = CompleteWithout(p, c.manager)

\* The request of validateReauthentication is answered.
ReauthEnds(c) ==
    /\ c \in s.reauths
    /\ LET p == [s EXCEPT !.reauths = @ \ {c}]
       IN  \/ s' = Tell([p EXCEPT !.token = c.attempt], c.manager, CheckedFor(c.attempt))
           \/ s' = Tell(p, c.manager, Nothing)

\* attemptBrowserLogIn:, once the app is active.
UseBrowser(m) ==
    /\ m \in s.fallback /\ s.active /\ CanTry
    /\ s' = Try([s EXCEPT !.fallback = @ \ {m}], m, s.uses.web)

\* The process is killed; it is launched by the user, or by the URL of a page,
\* which a new manager handles without a handler.
LaunchAgain ==
    LET p == Launched(s)
    IN  \/ s' = p
        \/ \E a \in s.pages : \E what \in Replies(a) :
              s' = Handle([p EXCEPT !.pages = @ \ {a}], Launcher, a, what)

-----------------------------------------------------------------------------
FbNext ==
    \/ \E m \in Managers : Tap(m)
    \/ \E m \in AllManagers : UseBrowser(m)
    \/ LogOut \/ SessionLost \/ EnterBackground \/ BecomeActive \/ OtherURL \/ LaunchAgain
    \/ \E a \in Attempts : OpeningEnds(a) \/ PageAnswers(a) \/ SessionReports(a)
    \/ \E c \in s.asking : UserIsKnown(c)
    \/ \E c \in s.reauths : ReauthEnds(c)

FbSpec == FbInit /\ [][FbNext]_fbVars

-----------------------------------------------------------------------------
(***************************************************************************)
(* Properties                                                              *)
(***************************************************************************)

\* A handler is told a token only when its own login asked for it, whatever URLs
\* and reports of earlier logins, of the other button's or of an earlier launch
\* come meanwhile.  A token that replaces another one is checked by the user's ID
\* and not by the challenge (validateReauthentication); those are left out.
OwnAnswer ==
    \A t \in s.told : ~t.checked => s.attempts[t.token].login = t.login

\* A button refuses taps only while an openURL of its manager will still end:
\* whatever was cancelled, killed or answered out of turn, it comes back.
ButtonNeverDead ==
    \A m \in Managers :
        s.manager[m].state = "start" /\ ~s.manager[m].usedSF
        => \E a \in s.opening : Manager(a) = m
=============================================================================

------------------------------ MODULE PoolsApp ------------------------------
(***************************************************************************)
(* The app: its screens on one navigation controller, the taps the screens *)
(* accept, and what the completion handlers of the sign-in calls do to the *)
(* stack when they arrive.  AuthSession is the authentication layer below. *)
(*                                                                         *)
(* Taps, completion handlers and appearance callbacks run on the main      *)
(* thread, one at a time.  Steps of AuthSession!Progress run on the work   *)
(* queue between any two of them.                                          *)
(***************************************************************************)
EXTENDS AuthSession

CONSTANTS
    MaxHomes,      \* bound: HomeController instances one launch creates
    ExtraCells     \* reuse identifiers registered with the menu besides those
                   \* the code registers; {} is the code as it stands

ASSUME HomesAssumption == MaxHomes \in Nat \ {0}

Homes == 1 .. MaxHomes

\* View controllers by identity.  HomeController i owns one LoginViewController
\* and that one owns one MenuCollectionVC; the menus of HomeController are new
\* objects each time, so their identity does not matter.
Home(i)      == [kind |-> "home",      home |-> i]
Login(i)     == [kind |-> "login",     home |-> i]
LoginMenu(i) == [kind |-> "loginMenu", home |-> i]
NewMenu      == [kind |-> "menu",      home |-> 0]

Screens == {Home(i) : i \in Homes} \cup {Login(i) : i \in Homes}
           \cup {LoginMenu(i) : i \in Homes} \cup {NewMenu}

VARIABLES
    stack,          \* navigationController.viewControllers, the top last
    homes,          \* HomeController objects made since launch, none goes away
    appearing,      \* viewWillAppear and layout of the top are still to come
    loginVsSignup,  \* the global of Helpers.swift: 0, 1 sign up, 2 log in
    form,           \* the form each login screen shows, by the same numbers
    origin,         \* the home whose screens issued a request, 0 when none did
    fbToken,        \* FBSDKAccessToken.current() is there
    sheet,          \* the sign-in sheet of an SDK that covers the app
    graph,          \* Facebook logins waiting for the /me graph request
    crash           \* why the process was terminated by an exception

navVars == <<stack, homes, appearing>>
fbVars  == <<fbToken, sheet, graph>>
uiVars  == <<navVars, loginVsSignup, form, origin, fbVars, crash>>
vars    == <<authVars, uiVars>>

NoSheet == [sdk |-> "none", home |-> 0]
Sheets  == {NoSheet} \cup [sdk : {"facebook", "google"}, home : Homes]
Crashes == {"none", "duplicatePush", "unregisteredCell", "noLayout"}

AppTypeOK ==
    /\ TypeOK
    /\ stack \in Seq(Screens) \ {<<>>}
    /\ homes \in Homes
    /\ appearing \in BOOLEAN
    /\ loginVsSignup \in 0 .. 2
    /\ form \in [Homes -> 0 .. 2]
    /\ origin \in [Requests -> 0 .. MaxHomes]
    /\ fbToken \in BOOLEAN
    /\ sheet \in Sheets
    /\ graph \subseteq Facebook
    /\ crash \in Crashes

NoForm   == [i \in Homes |-> 0]
NoOrigin == [r \in Requests |-> 0]

\* A fresh process: one HomeController at the root of the window.
AppInit ==
    /\ Init
    /\ stack = <<Home(1)>>
    /\ homes = 1
    /\ appearing = TRUE
    /\ loginVsSignup = 0
    /\ form = NoForm
    /\ origin = NoOrigin
    /\ fbToken = FALSE
    /\ sheet = NoSheet
    /\ graph = {}
    /\ crash = "none"

-----------------------------------------------------------------------------
Top         == stack[Len(stack)]
OnStack(vc) == \E j \in DOMAIN stack : stack[j] = vc
IsMenu(vc)  == vc.kind \in {"menu", "loginMenu"}
Running     == crash = "none"

\* The user can touch what is on top.
Touchable(vc) == Running /\ ~appearing /\ sheet = NoSheet /\ Top = vc

\* Bound: the user starts no more than MaxInFlight sign-ins at a time.
Busy    == Cardinality(InFlight \cup graph) + (IF sheet = NoSheet THEN 0 ELSE 1)
CanAsk  == Busy < MaxInFlight

Push(vc) ==
    /\ stack' = Append(stack, vc)
    /\ appearing' = TRUE

\* An exception nobody catches ends the process.
Raise(why) ==
    /\ crash' = why
    /\ UNCHANGED navVars

-----------------------------------------------------------------------------
(***************************************************************************)
(* Screens appear                                                          *)
(***************************************************************************)

\* Faulty variant: the home screen does not look for a session.
HomeStays ==
    /\ Running /\ appearing
    /\ Top.kind = "home"
    /\ appearing' = FALSE
    /\ UNCHANGED <<authVars, stack, homes, loginVsSignup, form, origin, fbVars, crash>>

\* HomeController.viewWillAppear: whoever is signed in goes to a new menu.
HomeAppears ==
    /\ Running /\ appearing
    /\ Top.kind = "home"
    /\ Drained
    /\ IF user # None
       THEN Push(NewMenu)
       ELSE appearing' = FALSE /\ UNCHANGED stack
    /\ UNCHANGED <<authVars, homes, loginVsSignup, form, origin, fbVars, crash>>

\* Faulty variant: the form is chosen once, as in viewDidLoad.
LoginAppearsOnce ==
    /\ Running /\ appearing
    /\ Top.kind = "login"
    /\ appearing' = FALSE
    /\ form' = IF form[Top.home] = 0 THEN [form EXCEPT ![Top.home] = loginVsSignup] ELSE form
    /\ UNCHANGED <<authVars, stack, homes, loginVsSignup, origin, fbVars, crash>>

\* LoginViewController.viewWillAppear: handleLoginOrSignUp(num: loginVsSignup).
LoginAppears ==
    /\ Running /\ appearing
    /\ Top.kind = "login"
    /\ appearing' = FALSE
    /\ form' = IF loginVsSignup \in {1, 2}
               THEN [form EXCEPT ![Top.home] = loginVsSignup]
               ELSE form
    /\ UNCHANGED <<authVars, stack, homes, loginVsSignup, origin, fbVars, crash>>

\* The reuse identifiers registered with the menu's collection view: those of
\* DatasourceController.viewDidLoad and of the datasource's cell classes.
RegisteredCells == {"lbta_defaultCellId", "UserCell"} \cup ExtraCells

\* MenuCollectionVC dequeues "cellId" for each of the 15 items; UIKit raises
\* for an identifier nobody registered.
MenuAppears ==
    /\ Running /\ appearing
    /\ IsMenu(Top)
    /\ IF "cellId" \in RegisteredCells
       THEN appearing' = FALSE /\ UNCHANGED <<stack, homes, crash>>
       ELSE Raise("unregisteredCell")
    /\ UNCHANGED <<authVars, loginVsSignup, form, origin, fbVars>>

Appears == HomeAppears \/ LoginAppears \/ MenuAppears

-----------------------------------------------------------------------------
(***************************************************************************)
(* Taps                                                                    *)
(***************************************************************************)

\* A tap that calls a sign-in method for a screen of home i.
Submit(i, r) ==
    /\ CanAsk
    /\ Ask(r)
    /\ r \notin graph
    /\ origin' = [origin EXCEPT ![r] = i]
    /\ UNCHANGED <<navVars, loginVsSignup, form, fbVars, crash>>

TapGuest(i, r) ==
    /\ Touchable(Home(i))
    /\ r \in Guest
    /\ Submit(i, r)

\* tappedSignUpButton and tappedLoginButton: the global is set and the one
\* login screen of this home is pushed.
TapSignUpOrLogin(i, num) ==
    /\ Touchable(Home(i))
    /\ loginVsSignup' = num
    /\ Push(Login(i))
    /\ UNCHANGED <<authVars, homes, form, origin, fbVars, crash>>

\* The back button, on the only screen that shows one.
TapBack(i) ==
    /\ Touchable(Login(i))
    /\ stack' = SubSeq(stack, 1, Len(stack) - 1)
    /\ appearing' = TRUE
    /\ UNCHANGED <<authVars, homes, loginVsSignup, form, origin, fbVars, crash>>

\* Faulty variant: the form takes a touch after the menu has covered it.
SubmitCoveredForm(i, r) ==
    /\ Running /\ sheet = NoSheet
    /\ OnStack(Login(i))
    /\ \/ form[i] = 1 /\ r \in SignUp
       \/ form[i] = 2 /\ r \in Email
    /\ Submit(i, r)

\* handleSignup and handleLogin with fields that pass the checks.
SubmitForm(i, r) ==
    /\ Touchable(Login(i))
    /\ \/ form[i] = 1 /\ r \in SignUp
       \/ form[i] = 2 /\ r \in Email
    /\ Submit(i, r)

\* The Facebook button logs in when there is no access token, and logs out of
\* Facebook, and of nothing else, when there is one.
TapFacebook(i) ==
    /\ Touchable(Login(i))
    /\ IF fbToken
       THEN fbToken' = FALSE /\ UNCHANGED sheet
       ELSE CanAsk /\ sheet' = [sdk |-> "facebook", home |-> i] /\ UNCHANGED fbToken
    /\ UNCHANGED <<authVars, navVars, loginVsSignup, form, origin, graph, crash>>

TapGoogle(i) ==
    /\ Touchable(Login(i))
    /\ CanAsk
    /\ sheet' = [sdk |-> "google", home |-> i]
    /\ UNCHANGED <<authVars, navVars, loginVsSignup, form, origin, fbToken, graph, crash>>

\* Faulty variants: logout shows the home there is instead of a new one, and
\* logout goes on when signOut throws.
LogoutToOldHome ==
    /\ IsMenu(Top) /\ Touchable(Top)
    /\ SignOut(TRUE)
    /\ fbToken' = FALSE
    /\ Push(Home(homes))
    /\ UNCHANGED <<homes, loginVsSignup, form, origin, sheet, graph, crash>>

LogoutIgnoresError ==
    /\ IsMenu(Top) /\ Touchable(Top)
    /\ homes < MaxHomes
    /\ SignOut(TRUE) \/ SignOut(FALSE)
    /\ fbToken' = FALSE
    /\ homes' = homes + 1
    /\ Push(Home(homes'))
    /\ UNCHANGED <<loginVsSignup, form, origin, sheet, graph, crash>>

\* handleLogout: sign out of Firebase, then of Facebook, then show a new home;
\* when the first throws, nothing else happens.
TapLogout ==
    /\ IsMenu(Top) /\ Touchable(Top)
    /\ homes < MaxHomes
    /\ \/ /\ SignOut(TRUE)
          /\ fbToken' = FALSE
          /\ homes' = homes + 1
          /\ Push(Home(homes'))
       \/ /\ SignOut(FALSE)
          /\ UNCHANGED <<fbToken, navVars>>
    /\ UNCHANGED <<loginVsSignup, form, origin, sheet, graph, crash>>

\* didSelectItemAt presents a UICollectionViewController made without a layout;
\* UIKit raises when it loads its view.
TapItem ==
    /\ IsMenu(Top) /\ Touchable(Top)
    /\ Raise("noLayout")
    /\ UNCHANGED <<authVars, loginVsSignup, form, origin, fbVars>>

-----------------------------------------------------------------------------
(***************************************************************************)
(* Answers                                                                 *)
(***************************************************************************)

\* loginButton(_:didCompleteWith:error:): also after an error or a cancel the
\* graph request is sent; without a token Facebook refuses it and nothing else
\* happens.
FacebookSheetEnds(r) ==
    /\ Running
    /\ sheet.sdk = "facebook"
    /\ r \in Facebook \ (InFlight \cup Held \cup graph)
    /\ sheet' = NoSheet
    /\ \/ /\ fbToken' = TRUE
          /\ graph' = graph \cup {r}
          /\ origin' = [origin EXCEPT ![r] = sheet.home]
       \/ UNCHANGED <<fbToken, graph, origin>>
    /\ UNCHANGED <<authVars, navVars, loginVsSignup, form, crash>>

\* The answer to the graph request: an error, or a token that is gone by now,
\* ends the login; otherwise Firebase is asked with the token there is.
GraphAnswers(r) ==
    /\ Running
    /\ r \in graph
    /\ graph' = graph \ {r}
    /\ \/ fbToken /\ Ask(r) /\ UNCHANGED origin
       \/ origin' = [origin EXCEPT ![r] = 0] /\ UNCHANGED authVars
    /\ UNCHANGED <<navVars, loginVsSignup, form, fbToken, sheet, crash>>

\* AppDelegate.sign(_:didSignInFor:withError:).
GoogleSheetEnds(r) ==
    /\ Running
    /\ sheet.sdk = "google"
    /\ r \in Google
    /\ sheet' = NoSheet
    /\ Ask(r) \/ UNCHANGED authVars
    /\ UNCHANGED <<navVars, loginVsSignup, form, origin, fbToken, graph, crash>>

\* What the completion handler of a request of login screen i does when the
\* call succeeded: push the one menu of that screen, if the screen still is on
\* a navigation controller.  UIKit raises for a controller pushed twice.
ShowLoginMenu(i) ==
    \/ ~OnStack(Login(i)) /\ UNCHANGED <<navVars, crash>>
    \/ OnStack(Login(i)) /\ OnStack(LoginMenu(i)) /\ Raise("duplicatePush")
    \/ /\ OnStack(Login(i)) /\ ~OnStack(LoginMenu(i))
       /\ Push(LoginMenu(i))
       /\ UNCHANGED <<homes, crash>>

\* Faulty variants: the guest handler only prints, and the error of a sign-in is
\* not looked at.
DeliverGuestPrints ==
    /\ Running
    /\ Deliver
    /\ LET r == Head(mainQueue).req
       IN  /\ origin' = [origin EXCEPT ![r] = 0]
           /\ IF r \in SignUp \cup Email \cup Facebook /\ Head(mainQueue).got # Failed
              THEN ShowLoginMenu(origin[r])
              ELSE UNCHANGED <<navVars, crash>>
    /\ UNCHANGED <<loginVsSignup, form, fbVars>>

DeliverIgnoresError ==
    /\ Running
    /\ Deliver
    /\ LET r == Head(mainQueue).req
       IN  /\ origin' = [origin EXCEPT ![r] = 0]
           /\ IF r \in Guest
              THEN Push(NewMenu) /\ UNCHANGED <<homes, crash>>
              ELSE ShowLoginMenu(origin[r])
    /\ UNCHANGED <<loginVsSignup, form, fbVars>>

\* The next completion handler runs.  All but Google's, which only prints,
\* navigate whenever there is no error, without a look at what is on top.
DeliverReport ==
    /\ Running
    /\ Deliver
    /\ LET r == Head(mainQueue).req
           succeeded == Head(mainQueue).got # Failed
       IN  /\ origin' = [origin EXCEPT ![r] = 0]
           /\ \/ (~succeeded \/ r \in Google) /\ UNCHANGED <<navVars, crash>>
              \/ succeeded /\ r \in Guest /\ Push(NewMenu) /\ UNCHANGED <<homes, crash>>
              \/ succeeded /\ r \in SignUp \cup Email \cup Facebook
                 /\ ShowLoginMenu(origin[r])
    /\ UNCHANGED <<loginVsSignup, form, fbVars>>

\* The work queue and the server, while the main thread does nothing.
AuthProgress(r) ==
    /\ Running
    /\ Progress(r)
    /\ UNCHANGED uiVars

\* The process is killed, or has crashed, and is launched again.
AppRelaunch ==
    /\ Relaunch
    /\ stack' = <<Home(1)>>
    /\ homes' = 1
    /\ appearing' = TRUE
    /\ loginVsSignup' = 0
    /\ form' = NoForm
    /\ origin' = NoOrigin
    /\ sheet' = NoSheet
    /\ graph' = {}
    /\ crash' = "none"
    /\ UNCHANGED fbToken

-----------------------------------------------------------------------------
AppNext ==
    \/ Appears
    \/ \E i \in Homes :
          \/ \E r \in Requests : TapGuest(i, r) \/ SubmitForm(i, r)
          \/ \E num \in {1, 2} : TapSignUpOrLogin(i, num)
          \/ TapBack(i) \/ TapFacebook(i) \/ TapGoogle(i)
    \/ TapLogout
    \/ TapItem
    \/ \E r \in Requests :
          FacebookSheetEnds(r) \/ GraphAnswers(r) \/ GoogleSheetEnds(r) \/ AuthProgress(r)
    \/ DeliverReport
    \/ AppRelaunch

AppSpec == AppInit /\ [][AppNext]_vars

\* The run loop runs what is due and servers answer or time out; nothing is
\* assumed of the user, of the SDK sheets or of restarts.
AppFairness ==
    /\ WF_vars(Appears)
    /\ WF_vars(DeliverReport)
    /\ \A r \in Requests : WF_vars(AuthProgress(r)) /\ WF_vars(GraphAnswers(r))

FairAppSpec == AppSpec /\ AppFairness

-----------------------------------------------------------------------------
(***************************************************************************)
(* Properties                                                              *)
(***************************************************************************)

\* The stack is what UIKit and the app rely on: no controller is on it twice,
\* a login screen lies on its own home, its menu above it, each home but the
\* first on the menu the user logged out of (HomeController.swift:237-240,
\* LoginViewController.swift:300, MenuCollectionVC.swift:46-47).
StackDiscipline ==
    /\ stack[1] = Home(1)
    /\ \A j, k \in DOMAIN stack :
          j # k /\ stack[j] = stack[k] => stack[j] = NewMenu
    /\ \A j \in DOMAIN stack :
          /\ stack[j].kind = "login" => j > 1 /\ stack[j - 1] = Home(stack[j].home)
          /\ stack[j].kind = "loginMenu" =>
                \E k \in 1 .. (j - 1) : stack[k] = Login(stack[j].home)
          /\ stack[j].kind = "home" /\ j > 1 => IsMenu(stack[j - 1])

\* The login screen shows the form of the button that opened it, each time it
\* is opened, though button and form share only a global
\* (Helpers.swift:11, LoginViewController.swift:167-210).
FormMatchesButton ==
    Running /\ ~appearing /\ Top.kind = "login"
    => loginVsSignup \in {1, 2} /\ form[Top.home] = loginVsSignup

\* Nothing is due any more: only the user can do something.
Quiet == Running /\ ~appearing /\ InFlight = {} /\ graph = {} /\ sheet = NoSheet

\* A guest session never stays behind the home screen: once nothing is due, a
\* guest who is signed in sees a menu or a login screen, whatever was tapped,
\* answered or logged out meanwhile (HomeController.swift:129-139, 208-223).
GuestSeesMenu == Quiet /\ Top.kind = "home" => user \notin Guest

\* A menu goes away only by a logout, and then nobody is signed in, to Firebase
\* or to Facebook: a sign-out that throws leaves the menu where it is
\* (MenuCollectionVC.swift:25, 40-51).
LeavingMenuSignsOut ==
    [][ IsMenu(Top) /\ ~IsMenu(Top') /\ Len(stack') > 1
        => user' = None /\ ~fbToken' ]_vars

\* A menu opens while nobody is signed in only when a sign-in reported success
\* without a user, or when the user logged out between the tap and its answer
\* (HomeController.swift:210-220, LoginViewController.swift:298-300).
MenuNeedsSession ==
    [][ Len(stack') > Len(stack) /\ IsMenu(Top') /\ user = None
        => /\ mainQueue # <<>>
           /\ \/ \E i \in DOMAIN mainQueue : mainQueue[i].got = None
              \/ homes > origin[Head(mainQueue).req] ]_vars

\* The sign-ins of the login screen of home i that are under way: a request
\* whose handler pushes its menu, or the Facebook sheet it opened, which may
\* still start any Facebook login.
FromLogin   == SignUp \cup Email \cup Facebook
SignInsOf(i) ==
    {r \in FromLogin \cap (InFlight \cup graph) : origin[r] = i}
    \cup (IF sheet = [sdk |-> "facebook", home |-> i] THEN Facebook ELSE {})

\* Once its menu has been pushed a login screen starts no further sign-in, by
\* no tap, sheet or late graph answer, and whatever is pushed or logged out above
\* it.  UIKit raises when the one menuView of a screen is pushed twice; so only
\* sign-ins that were under way together before the first push can make it
\* (LoginViewController.swift:22, 300, 336, 445).
MenuEndsSignIns ==
    [][ \A i \in Homes : OnStack(LoginMenu(i)) => SignInsOf(i)' \subseteq SignInsOf(i) ]_vars

\* The menu can be shown: DatasourceController.swift:14 says "In order to
\* render our items in your list, simply provide it with a Datasource object",
\* and MenuCollectionVC does so.
MenuRenders == crash # "unregisteredCell"

\* Every sign-in a screen asked for is answered on the main thread, with a user or
\* an error, unless the app crashed or was killed: each path of FIRAuth.m:485-960
\* ends in a decorated callback, also when the screen has gone.
EveryRequestEnds ==
    \A r \in Requests : phase[r] = "queued" ~> (crash # "none" \/ phase[r] = "idle")

\* A saved session the launch could read ends on a usable menu, once the user
\* stops killing the app (HomeController.swift:129-134).
SessionReachesMenu ==
    <>[][~AppRelaunch]_vars =>
        ((Running /\ Top.kind = "home" /\ appearing /\ user # None)
            ~> (crash # "none" \/ user = None \/ (IsMenu(Top) /\ ~appearing)))
=============================================================================

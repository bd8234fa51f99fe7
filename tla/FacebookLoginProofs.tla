------------------------ MODULE FacebookLoginProofs ------------------------
(***************************************************************************)
(* What Facebook's login promises for any number of managers, taps, late   *)
(* answers and launches.  Every handler of the module is an operator on    *)
(* the record s, and most are built from the same few; so the invariant is *)
(* a predicate on such a record (Sound), there is one lemma for each of    *)
(* those operators, and a step is sound because the operators it applies   *)
(* are.                                                                    *)
(***************************************************************************)
EXTENDS FacebookLogin, TLAPS

\* An answer that waits: its attempt, and the manager that will hear of it.
Asked == [attempt : Nat, manager : AllManagers]

\* A logInWithBehavior: its login, its manager, and where it sends the user.
Attempt == [login : Nat, manager : AllManagers, how : {"native", "browser", "session"}]

\* The process, the keychain and the pages.
Process == [
    manager    : [AllManagers -> [state   : {"idle", "start", "performing"},
                                  handler : Nat, usedSF : BOOLEAN]],
    pending    : AllManagers \cup {nil},
    expecting  : BOOLEAN,
    requesting : BOOLEAN,
    session    : Nat,
    closure    : Nat,
    active     : BOOLEAN,
    front      : BOOLEAN,
    covered    : BOOLEAN,
    opening    : SUBSET Nat,
    sessions   : SUBSET Nat,
    asking     : SUBSET Asked,
    reauths    : SUBSET Asked,
    fallback   : SUBSET AllManagers,
    challenge  : Nat,
    token      : Nat,
    pages      : SUBSET Nat,
    attempts   : Seq(Attempt),
    told       : SUBSET [login : Nat, token : Nat, checked : BOOLEAN],
    uses       : Uses ]

\* What names an attempt names one that was made.
Named(p) ==
    /\ p.opening \subseteq DOMAIN p.attempts
    /\ p.sessions \subseteq DOMAIN p.attempts
    /\ p.pages \subseteq DOMAIN p.attempts
    /\ \A c \in p.asking \cup p.reauths : c.attempt \in DOMAIN p.attempts
    /\ p.challenge \in DOMAIN p.attempts \cup {nil}
    /\ p.closure \in DOMAIN p.attempts \cup {nil}
    /\ \A t \in p.told : t.token \in DOMAIN p.attempts

\* A token that was told without a check is of the login that was told; a manager
\* made for a launch tells nobody.
Told(p) ==
    /\ p.manager[Launcher].handler = nil
    /\ \A t \in p.told : ~t.checked => p.attempts[t.token].login = t.login

\* The manager whose attempt has the challenge is the pending one, if any, and its
\* handler, if any, is that of the attempt; the user's ID is asked for that manager
\* or for a launch.
Expected(p) ==
    p.challenge # nil =>
        LET made == p.attempts[p.challenge]
        IN  /\ p.manager[made.manager].handler \in {nil, made.login}
            /\ p.pending \in {nil, made.manager}
            /\ \A c \in p.asking : c.attempt = p.challenge =>
                                      c.manager \in {made.manager, Launcher}

\* A manager, except out, that refuses taps has an openURL that will still end.
Alive(p, out) ==
    \A m \in AllManagers \ {out} :
        p.manager[m].state = "start" /\ ~p.manager[m].usedSF
        => \E a \in p.opening : p.attempts[a].manager = m

\* A state of the program; out is a manager in the middle of a step, or nil.
Sound(p, out) == p \in Process /\ Named(p) /\ Told(p) /\ Expected(p) /\ Alive(p, out)

\* The inductive invariant.
LoginInv == Sound(s, nil)

-----------------------------------------------------------------------------
\* q is p after a step that makes no attempt.
Keeps(p, q) ==
    /\ q.attempts = p.attempts
    /\ q.opening = p.opening
    /\ \A m \in AllManagers :
          /\ q.manager[m].handler \in {p.manager[m].handler, nil}
          /\ q.manager[m].state = "start" =>
                p.manager[m].state = "start" /\ q.manager[m].usedSF = p.manager[m].usedSF
    /\ q.challenge \in {p.challenge, nil}
    /\ q.pending \in {p.pending, nil}
    /\ \A c \in q.asking \ p.asking :
          c.attempt = p.challenge => c.manager \in {p.attempts[c.attempt].manager, Launcher}
    /\ \A t \in q.told \ p.told : ~t.checked => p.attempts[t.token].login = t.login

\* An attempt has the fields of one, and its number is not nil.
LEMMA AttemptIs ==
    ASSUME NEW p \in Process, NEW a \in DOMAIN p.attempts
    PROVE  /\ p.attempts[a] \in Attempt
           /\ p.attempts[a].manager \in AllManagers
           /\ p.attempts[a].login \in Nat
           /\ p.attempts[a].how \in {"native", "browser", "session"}
           /\ a \in Nat /\ a # nil
<1> DEFINE attempts == p.attempts
<1>1. attempts \in Seq(Attempt)
  BY DEF Process
<1> HIDE DEF attempts
<1>2. attempts[a] \in Attempt /\ a \in Nat /\ a # 0
  BY <1>1, a \in DOMAIN attempts DEF attempts
<1> QED BY <1>2 DEF Attempt, attempts, nil

\* A step that makes no attempt, tells nothing of another login, and only
\* forgets challenges, pending URLs and handlers keeps a record sound.
LEMMA KeptIsSound ==
    ASSUME NEW p, NEW q, NEW out, Sound(p, out), q \in Process, Named(q), Keeps(p, q)
    PROVE  Sound(q, out)
<1>1. p \in Process /\ Named(p) /\ Told(p) /\ Expected(p) /\ Alive(p, out)
  BY DEF Sound
<1>2. Told(q)
  <2>1. Launcher \in AllManagers
    BY DEF AllManagers
  <2>2. q.manager[Launcher].handler = nil
    BY <1>1, <2>1 DEF Keeps, Told
  <2>3. ASSUME NEW t \in q.told, ~t.checked
        PROVE  q.attempts[t.token].login = t.login
    BY <1>1, <2>3 DEF Keeps, Told
  <2> QED BY <2>2, <2>3 DEF Told
<1>3. Expected(q)
  <2> SUFFICES ASSUME q.challenge # nil
               PROVE  LET made == q.attempts[q.challenge]
                      IN  /\ q.manager[made.manager].handler \in {nil, made.login}
                          /\ q.pending \in {nil, made.manager}
                          /\ \A c \in q.asking : c.attempt = q.challenge =>
                                                    c.manager \in {made.manager, Launcher}
    BY DEF Expected
  <2> DEFINE made == p.attempts[p.challenge]
  <2>1. q.challenge = p.challenge /\ p.challenge # nil /\ q.attempts = p.attempts
    BY DEF Keeps
  <2>2. /\ p.manager[made.manager].handler \in {nil, made.login}
        /\ p.pending \in {nil, made.manager}
        /\ \A c \in p.asking : c.attempt = p.challenge =>
                                  c.manager \in {made.manager, Launcher}
    BY <1>1, <2>1 DEF Expected
  <2>3. made.manager \in AllManagers
    <3>1. p.challenge \in DOMAIN p.attempts
      BY <1>1, <2>1 DEF Named
    <3> QED BY <1>1, <3>1, AttemptIs
  <2> HIDE DEF made
  <2>4. q.manager[made.manager].handler \in {nil, made.login}
    BY <2>2, <2>3 DEF Keeps
  <2>5. q.pending \in {nil, made.manager}
    BY <2>2 DEF Keeps
  <2>6. ASSUME NEW c \in q.asking, c.attempt = q.challenge
        PROVE  c.manager \in {made.manager, Launcher}
    <3>1. c.attempt = p.challenge /\ p.attempts[c.attempt] = made
      BY <2>1, <2>6 DEF made
    <3>2. CASE c \in p.asking
      BY <2>2, <3>1, <3>2
    <3>3. CASE c \notin p.asking
      BY <2>6, <3>1, <3>3 DEF Keeps
    <3> QED BY <3>2, <3>3
  <2> QED BY <2>1, <2>4, <2>5, <2>6 DEF made
<1>4. Alive(q, out)
  BY <1>1 DEF Keeps, Alive
<1> QED BY <1>1, <1>2, <1>3, <1>4 DEF Sound

\* What a handler may be told.
MayTell(p, m, answer) ==
    \/ answer = Nothing
    \/ /\ answer \in [token : DOMAIN p.attempts, checked : BOOLEAN]
       /\ ~answer.checked =>
             p.manager[m].handler \in {nil, p.attempts[answer.token].login}

\* invokeHandler:error: of an answer that the handler may be told.
LEMMA TellIsSound ==
    ASSUME NEW p, NEW m \in AllManagers, NEW answer, NEW out \in {nil, m},
           Sound(p, out), MayTell(p, m, answer)
    PROVE  /\ Sound(Tell(p, m, answer), nil)
           /\ Tell(p, m, answer).attempts = p.attempts
<1> DEFINE q == Tell(p, m, answer)
<1>1. p \in Process /\ Named(p) /\ Told(p) /\ Expected(p) /\ Alive(p, out)
  BY DEF Sound
<1>2. \/ answer = Nothing /\ Nothing = [token |-> nil, checked |-> FALSE]
      \/ answer \in [token : DOMAIN p.attempts, checked : BOOLEAN]
  BY DEF MayTell, Nothing
<1>3. DOMAIN p.attempts \subseteq Nat /\ 0 \notin DOMAIN p.attempts
  BY <1>1 DEF Process
<1>4. p.manager \in [AllManagers -> [state   : {"idle", "start", "performing"},
                                     handler : Nat, usedSF : BOOLEAN]]
  BY <1>1 DEF Process
<1>6. q \in Process
  <2> DEFINE manager == [p.manager EXCEPT ![m].state = "idle", ![m].handler = nil]
             told == IF p.manager[m].handler = nil \/ answer = Nothing THEN p.told
                     ELSE p.told \cup {[login   |-> p.manager[m].handler,
                                        token   |-> answer.token,
                                        checked |-> answer.checked]}
  <2>1. manager \in [AllManagers -> [state   : {"idle", "start", "performing"},
                                     handler : Nat, usedSF : BOOLEAN]]
    BY <1>4 DEF nil
  <2>2. p.manager[m].handler \in Nat /\ p.told \subseteq [login : Nat, token : Nat, checked : BOOLEAN]
    BY <1>1 DEF Process
  <2>3. told \subseteq [login : Nat, token : Nat, checked : BOOLEAN]
    BY <1>2, <1>3, <2>2
  <2>4. q = [p EXCEPT !.manager = manager, !.told = told]
    BY <1>1 DEF Process, Tell
  <2> HIDE DEF manager, told, q
  <2> QED BY <1>1, <2>1, <2>3, <2>4 DEF Process
<1>5. /\ q.manager = [p.manager EXCEPT ![m].state = "idle", ![m].handler = nil]
      /\ q.told = IF p.manager[m].handler = nil \/ answer = Nothing THEN p.told
                  ELSE p.told \cup {[login   |-> p.manager[m].handler,
                                     token   |-> answer.token,
                                     checked |-> answer.checked]}
      /\ q.attempts = p.attempts /\ q.opening = p.opening /\ q.sessions = p.sessions
      /\ q.pages = p.pages /\ q.asking = p.asking /\ q.reauths = p.reauths
      /\ q.challenge = p.challenge /\ q.closure = p.closure /\ q.pending = p.pending
  BY <1>1 DEF Process, Tell
<1> HIDE DEF q
<1>7. Named(q)
  BY <1>1, <1>2, <1>5 DEF Named
<1>8. Keeps(p, q)
  <2>1. ASSUME NEW n \in AllManagers
        PROVE  /\ q.manager[n].handler \in {p.manager[n].handler, nil}
               /\ q.manager[n].state = "start" =>
                     /\ n # m
                     /\ p.manager[n].state = "start"
                     /\ q.manager[n].usedSF = p.manager[n].usedSF
    BY <1>4, <1>5
  <2>2. ASSUME NEW t \in q.told \ p.told, ~t.checked
        PROVE  p.attempts[t.token].login = t.login
    BY <1>5, <2>2 DEF MayTell
  <2> QED BY <1>5, <2>1, <2>2 DEF Keeps
<1>9. Sound(q, out)
  BY <1>6, <1>7, <1>8, KeptIsSound
<1>10. Alive(q, nil)
  BY <1>4, <1>5, <1>9 DEF Sound, Alive
<1> QED BY <1>5, <1>9, <1>10 DEF Sound, q

\* A step that changes neither attempts, managers nor what was told.
LEMMA QuietIsSound ==
    ASSUME NEW p, NEW q, NEW out, Sound(p, out), q \in Process, Named(q),
           q.attempts = p.attempts, q.opening = p.opening, q.manager = p.manager,
           q.told = p.told, q.asking \subseteq p.asking,
           q.challenge \in {p.challenge, nil}, q.pending \in {p.pending, nil}
    PROVE  Sound(q, out)
<1>1. Keeps(p, q)
  BY DEF Keeps
<1> QED BY <1>1, KeptIsSound

\* handleImplicitCancelOfLogIn.
LEMMA CancelIsSound ==
    ASSUME NEW p, NEW m \in AllManagers \cup {nil}, Sound(p, nil)
    PROVE  /\ Sound(CancelPerforming(p, m), nil)
           /\ CancelPerforming(p, m).attempts = p.attempts
<1>1. MayTell(p, m, Nothing)
  BY DEF MayTell
<1>2. CASE m # nil /\ p.manager[m].state = "performing"
  <2>1. m \in AllManagers /\ nil \in {nil, m}
    BY <1>2
  <2>2. /\ Sound(Tell(p, m, Nothing), nil)
        /\ Tell(p, m, Nothing).attempts = p.attempts
    BY <1>1, <2>1, TellIsSound
  <2> QED BY <1>2, <2>2 DEF CancelPerforming
<1>3. CASE ~(m # nil /\ p.manager[m].state = "performing")
  BY <1>3 DEF CancelPerforming
<1> QED BY <1>2, <1>3

\* Where an attempt sends the user.
Ways == {"native", "browser", "session"}

\* logInWithBehavior: the new attempt takes the challenge, the pending URL and
\* its handler together, whatever they were before.
LEMMA TryIsSound ==
    ASSUME NEW p \in Process, NEW m \in AllManagers, NEW how \in Ways,
           Named(p), Told(p), Alive(p, m)
    PROVE  Sound(Try(p, m, how), nil)
<1> DEFINE a == Len(p.attempts) + 1
           new == [login |-> p.manager[m].handler, manager |-> m, how |-> how]
           attempts == Append(p.attempts, new)
           manager == [p.manager EXCEPT ![m].usedSF = how = "session"]
           q == Try(p, m, how)
<1>1. /\ p.attempts \in Seq(Attempt)
      /\ p.manager \in [AllManagers -> [state   : {"idle", "start", "performing"},
                                        handler : Nat, usedSF : BOOLEAN]]
  BY DEF Process
<1>2. new \in Attempt
  BY <1>1 DEF Attempt, Ways
<1>3. /\ attempts \in Seq(Attempt)
      /\ DOMAIN p.attempts \subseteq DOMAIN attempts
      /\ a \in DOMAIN attempts
      /\ a \in Nat /\ a # 0 /\ a \notin DOMAIN p.attempts
      /\ attempts[a] = new
      /\ \A b \in DOMAIN p.attempts : attempts[b] = p.attempts[b]
  BY <1>1, <1>2
<1>4. /\ manager \in [AllManagers -> [state   : {"idle", "start", "performing"},
                                      handler : Nat, usedSF : BOOLEAN]]
      /\ \A n \in AllManagers : /\ manager[n].handler = p.manager[n].handler
                                /\ manager[n].state = p.manager[n].state
                                /\ n # m => manager[n].usedSF = p.manager[n].usedSF
      /\ manager[m].usedSF = (how = "session")
  BY <1>1
<1> HIDE DEF manager, attempts, a
<1>5. /\ q = IF how = "session"
             THEN [p EXCEPT !.attempts = attempts, !.challenge = a, !.manager = manager,
                            !.pending = m, !.expecting = FALSE, !.closure = a, !.session = a,
                            !.sessions = p.sessions \cup {a},
                            !.requesting = TRUE, !.covered = TRUE]
             ELSE [p EXCEPT !.attempts = attempts, !.challenge = a, !.manager = manager,
                            !.pending = m, !.expecting = TRUE,
                            !.opening = p.opening \cup {a}]
  BY DEF Process, Try, a, manager, attempts
<1> HIDE DEF q, new
<1>6. q \in Process
  <2>1. CASE how = "session"
    BY <1>3, <1>4, <1>5, <2>1 DEF Process
  <2>2. CASE how # "session"
    BY <1>3, <1>4, <1>5, <2>2 DEF Process
  <2> QED BY <2>1, <2>2
<1>7. /\ q.attempts = attempts /\ q.manager = manager /\ q.challenge = a /\ q.pending = m
      /\ q.told = p.told /\ q.asking = p.asking /\ q.reauths = p.reauths
      /\ q.pages = p.pages /\ q.closure \in {a, p.closure}
      /\ q.sessions \subseteq p.sessions \cup {a}
      /\ q.opening \subseteq p.opening \cup {a} /\ p.opening \subseteq q.opening
      /\ how # "session" => a \in q.opening
  <2>1. CASE how = "session"
    BY <1>5, <2>1 DEF Process
  <2>2. CASE how # "session"
    BY <1>5, <2>2 DEF Process
  <2> QED BY <2>1, <2>2
<1>8. Named(q)
  BY <1>3, <1>7 DEF Named
<1>9. Told(q)
  <2>1. Launcher \in AllManagers
    BY DEF AllManagers
  <2>2. \A t \in p.told : attempts[t.token] = p.attempts[t.token]
    BY <1>3 DEF Named
  <2> QED BY <1>4, <1>7, <2>1, <2>2 DEF Told
<1>10. Expected(q)
  <2>1. \A c \in p.asking : c.attempt # a
    BY <1>3 DEF Named
  <2> QED BY <1>3, <1>4, <1>7, <2>1 DEF Expected, new
<1>11. Alive(q, nil)
  <2> SUFFICES ASSUME NEW n \in AllManagers, manager[n].state = "start", ~manager[n].usedSF
               PROVE  \E b \in q.opening : q.attempts[b].manager = n
    BY <1>7 DEF Alive
  <2>1. CASE n = m
    <3>1. how # "session"
      BY <1>4, <2>1
    <3> QED BY <1>3, <1>7, <2>1, <3>1 DEF new
  <2>2. CASE n # m
    <3>1. PICK b \in p.opening : p.attempts[b].manager = n
      BY <1>4, <2>2 DEF Alive
    <3>2. b \in q.opening /\ q.attempts[b] = p.attempts[b]
      BY <1>3, <1>7, <3>1 DEF Named
    <3> QED BY <3>1, <3>2
  <2> QED BY <2>1, <2>2
<1> QED BY <1>6, <1>8, <1>9, <1>10, <1>11 DEF Sound, q

\* Only the manager of the attempt that has the challenge, or that of a launch, may
\* complete it.
MayComplete(p, m, a) ==
    /\ a \in DOMAIN p.attempts
    /\ p.challenge = a => m \in {p.attempts[a].manager, Launcher}

\* completeAuthentication:expectChallenge: with a token.
LEMMA CompleteIsSound ==
    ASSUME NEW p, NEW m \in AllManagers, NEW a, Sound(p, nil), MayComplete(p, m, a)
    PROVE  /\ Sound(Complete(p, m, a), nil)
           /\ Complete(p, m, a).attempts = p.attempts
<1> DEFINE q == [p EXCEPT !.challenge = nil]
           told == [q EXCEPT !.token = a]
           again == [q EXCEPT !.reauths = @ \cup {[attempt |-> a, manager |-> m]}]
<1>1. p \in Process /\ Named(p) /\ Told(p) /\ Expected(p) /\ Alive(p, nil)
  BY DEF Sound
<1>2. a \in DOMAIN p.attempts /\ a \in Nat
  BY <1>1, AttemptIs DEF MayComplete
<1>3. /\ q \in Process /\ q.challenge = nil /\ q.manager = p.manager
      /\ q.attempts = p.attempts /\ q.opening = p.opening /\ q.sessions = p.sessions
      /\ q.pages = p.pages /\ q.asking = p.asking /\ q.reauths = p.reauths
      /\ q.closure = p.closure /\ q.pending = p.pending /\ q.told = p.told
      /\ q.token = p.token
  BY <1>1 DEF Process, nil
<1> HIDE DEF q
<1>4. Sound(q, nil)
  <2>1. Named(q)
    BY <1>1, <1>3 DEF Named
  <2> QED BY <1>3, <2>1, QuietIsSound
<1>5. CASE p.challenge # a
  <2>1. MayTell(q, m, Nothing)
    BY DEF MayTell
  <2>2. /\ Sound(Tell(q, m, Nothing), nil)
        /\ Tell(q, m, Nothing).attempts = q.attempts
    BY <1>4, <2>1, TellIsSound
  <2> QED BY <1>3, <1>5, <2>2 DEF Complete, q
<1>6. CASE p.challenge = a /\ p.token = nil
  <2>1. /\ told \in Process /\ told.challenge = nil /\ told.manager = p.manager
        /\ told.attempts = p.attempts /\ told.opening = p.opening
        /\ told.sessions = p.sessions
        /\ told.pages = p.pages /\ told.asking = p.asking /\ told.reauths = p.reauths
        /\ told.closure = p.closure /\ told.pending = p.pending /\ told.told = p.told
    BY <1>2, <1>3 DEF Process, nil
  <2> HIDE DEF told
  <2>2. Sound(told, nil)
    <3>1. Named(told)
      BY <1>1, <2>1 DEF Named
    <3> QED BY <1>3, <1>4, <2>1, <3>1, QuietIsSound
  <2>3. p.manager[m].handler \in {nil, p.attempts[a].login}
    <3>1. /\ p.challenge # nil
          /\ p.manager[p.attempts[a].manager].handler \in {nil, p.attempts[a].login}
      BY <1>1, <1>2, <1>6, AttemptIs DEF Expected
    <3> QED BY <1>1, <1>6, <3>1 DEF MayComplete, Told
  <2>4. MayTell(told, m, Token(a))
    BY <1>2, <2>1, <2>3 DEF MayTell, Token
  <2>5. /\ Sound(Tell(told, m, Token(a)), nil)
        /\ Tell(told, m, Token(a)).attempts = told.attempts
    BY <2>2, <2>4, TellIsSound
  <2>6. Complete(p, m, a) = Tell(told, m, Token(a))
    BY <1>6 DEF Complete, told, q
  <2> QED BY <2>1, <2>5, <2>6
<1>7. CASE p.challenge = a /\ p.token # nil
  <2>1. [attempt |-> a, manager |-> m] \in Asked
    BY <1>2 DEF Asked
  <2>2. /\ again \in Process /\ again.challenge = nil /\ again.manager = p.manager
        /\ again.attempts = p.attempts /\ again.opening = p.opening
        /\ again.sessions = p.sessions
        /\ again.pages = p.pages /\ again.asking = p.asking
        /\ again.reauths = p.reauths \cup {[attempt |-> a, manager |-> m]}
        /\ again.closure = p.closure /\ again.pending = p.pending /\ again.told = p.told
    BY <1>3, <2>1 DEF Process, nil
  <2>3. Complete(p, m, a) = again
    BY <1>3, <1>7 DEF Complete, q
  <2> HIDE DEF again
  <2>4. Named(again)
    BY <1>1, <1>2, <2>2 DEF Named
  <2>5. Sound(again, nil)
    BY <1>3, <1>4, <2>2, <2>4, QuietIsSound
  <2> QED BY <2>2, <2>3, <2>5
<1> QED BY <1>5, <1>6, <1>7

\* completeAuthentication:expectChallenge: without one.
LEMMA CompleteWithoutIsSound ==
    ASSUME NEW p, NEW m \in AllManagers, Sound(p, nil)
    PROVE  /\ Sound(CompleteWithout(p, m), nil)
           /\ CompleteWithout(p, m).attempts = p.attempts
<1> DEFINE q == [p EXCEPT !.challenge = nil]
<1>1. p \in Process /\ Named(p)
  BY DEF Sound
<1>2. /\ q \in Process /\ q.challenge = nil /\ q.manager = p.manager
      /\ q.attempts = p.attempts /\ q.opening = p.opening /\ q.sessions = p.sessions
      /\ q.pages = p.pages /\ q.asking = p.asking /\ q.reauths = p.reauths
      /\ q.closure = p.closure /\ q.pending = p.pending /\ q.told = p.told
  BY <1>1 DEF Process, nil
<1>3. CompleteWithout(p, m) = Tell(q, m, Nothing)
  BY DEF CompleteWithout
<1> HIDE DEF q
<1>4. Sound(q, nil)
  <2>1. Named(q)
    BY <1>1, <1>2 DEF Named
  <2> QED BY <1>2, <2>1, QuietIsSound
<1>5. MayTell(q, m, Nothing)
  BY DEF MayTell
<1>6. /\ Sound(Tell(q, m, Nothing), nil)
      /\ Tell(q, m, Nothing).attempts = q.attempts
  BY <1>4, <1>5, TellIsSound
<1> QED BY <1>2, <1>3, <1>6

\* A URL that reaches a manager.
LEMMA HandleIsSound ==
    ASSUME NEW p, NEW m \in AllManagers, NEW a,
           NEW what \in {"token", "noUser", "refused", "useBrowser"},
           Sound(p, nil), MayComplete(p, m, a)
    PROVE  /\ Sound(Handle(p, m, a, what), nil)
           /\ Handle(p, m, a, what).attempts = p.attempts
<1>1. p \in Process /\ Named(p)
  BY DEF Sound
<1>2. CASE what = "token"
  BY <1>2, CompleteIsSound DEF Handle
<1>3. CASE what = "noUser"
  <2> DEFINE c == [attempt |-> a, manager |-> m]
             q == [p EXCEPT !.asking = @ \cup {c}]
  <2>1. c \in Asked /\ c.attempt = a /\ c.manager = m
    BY <1>1, AttemptIs DEF Asked, MayComplete
  <2>2. Handle(p, m, a, what) = q
    BY <1>3 DEF Handle
  <2> HIDE DEF c
  <2>3. /\ q \in Process /\ q.challenge = p.challenge /\ q.manager = p.manager
        /\ q.attempts = p.attempts /\ q.opening = p.opening /\ q.sessions = p.sessions
        /\ q.pages = p.pages /\ q.asking = p.asking \cup {c} /\ q.reauths = p.reauths
        /\ q.closure = p.closure /\ q.pending = p.pending /\ q.told = p.told
    BY <1>1, <2>1 DEF Process
  <2> HIDE DEF q
  <2>4. Named(q)
    BY <1>1, <2>1, <2>3 DEF Named, MayComplete
  <2>5. Keeps(p, q)
    BY <2>1, <2>3 DEF Keeps, MayComplete
  <2> QED BY <2>2, <2>3, <2>4, <2>5, KeptIsSound
<1>4. CASE what = "refused"
  BY <1>4, CompleteWithoutIsSound DEF Handle
<1>5. CASE what = "useBrowser"
  <2> DEFINE q == [p EXCEPT !.fallback = @ \cup {m}]
  <2>1. Handle(p, m, a, what) = q
    BY <1>5 DEF Handle
  <2>2. /\ q \in Process /\ q.challenge = p.challenge /\ q.manager = p.manager
        /\ q.attempts = p.attempts /\ q.opening = p.opening /\ q.sessions = p.sessions
        /\ q.pages = p.pages /\ q.asking = p.asking /\ q.reauths = p.reauths
        /\ q.closure = p.closure /\ q.pending = p.pending /\ q.told = p.told
    BY <1>1 DEF Process
  <2> HIDE DEF q
  <2>3. Named(q)
    BY <1>1, <2>2 DEF Named
  <2> QED BY <2>1, <2>2, <2>3, QuietIsSound
<1> QED BY <1>2, <1>3, <1>4, <1>5

\* What a page can send back.
Answer == {"token", "noUser", "refused", "useBrowser"}

\* A URL that reaches the application delegate.
LEMMA OpenURLIsSound ==
    ASSUME NEW p, NEW a, NEW what, Sound(p, nil),
           a # nil => a \in DOMAIN p.attempts /\ what \in Answer
    PROVE  /\ Sound(OpenURL(p, a, what), nil)
           /\ OpenURL(p, a, what).attempts = p.attempts
<1> DEFINE m == p.pending
           covered == p.covered /\ p.session = nil
           q == [p EXCEPT !.pending = nil, !.session = nil, !.covered = covered]
<1>1. p \in Process /\ Named(p) /\ Expected(p)
  BY DEF Sound
<1>2. m \in AllManagers \cup {nil}
  BY <1>1 DEF Process
<1>3. OpenURL(p, a, what) = IF m = nil THEN q
                            ELSE IF a = nil THEN CancelPerforming(q, m)
                            ELSE Handle(q, m, a, what)
  BY DEF OpenURL
<1>4. covered \in BOOLEAN
  OBVIOUS
<1> HIDE DEF covered
<1>5. /\ q \in Process /\ q.challenge = p.challenge /\ q.manager = p.manager
      /\ q.attempts = p.attempts /\ q.opening = p.opening /\ q.sessions = p.sessions
      /\ q.pages = p.pages /\ q.asking = p.asking /\ q.reauths = p.reauths
      /\ q.closure = p.closure /\ q.pending = nil /\ q.told = p.told
  BY <1>1, <1>4 DEF Process, nil
<1> HIDE DEF q
<1>6. Sound(q, nil)
  <2>1. Named(q)
    BY <1>1, <1>5 DEF Named
  <2> QED BY <1>5, <2>1, QuietIsSound
<1>7. CASE m = nil
  BY <1>3, <1>5, <1>6, <1>7
<1>8. CASE m # nil /\ a = nil
  <2>1. /\ Sound(CancelPerforming(q, m), nil)
        /\ CancelPerforming(q, m).attempts = q.attempts
    BY <1>2, <1>6, CancelIsSound
  <2> QED BY <1>3, <1>5, <1>8, <2>1
<1>9. CASE m # nil /\ a # nil
  <2>1. MayComplete(q, m, a)
    BY <1>1, <1>5, <1>9 DEF MayComplete, Expected
  <2>2. m \in AllManagers /\ what \in {"token", "noUser", "refused", "useBrowser"}
    BY <1>2, <1>9 DEF Answer
  <2> HIDE DEF m
  <2>3. /\ Sound(Handle(q, m, a, what), nil)
        /\ Handle(q, m, a, what).attempts = q.attempts
    BY <1>6, <2>1, <2>2, HandleIsSound
  <2> QED BY <1>3, <1>5, <1>9, <2>3
<1> QED BY <1>7, <1>8, <1>9

\* A manager whose page has opened is performing, and refuses no taps.
LEMMA RestedIsSound ==
    ASSUME NEW p, NEW q, NEW m \in AllManagers, NEW out \in {nil, m}, Sound(p, out),
           q = [p EXCEPT !.manager[m].state = "performing"]
    PROVE  /\ Sound(q, nil)
           /\ q.attempts = p.attempts /\ q.opening = p.opening
           /\ q.sessions = p.sessions /\ q.pages = p.pages
<1> DEFINE manager == [p.manager EXCEPT ![m].state = "performing"]
<1>1. p \in Process /\ Named(p)
  BY DEF Sound
<1>2. p.manager \in [AllManagers -> [state   : {"idle", "start", "performing"},
                                     handler : Nat, usedSF : BOOLEAN]]
  BY <1>1 DEF Process
<1>3. /\ manager \in [AllManagers -> [state   : {"idle", "start", "performing"},
                                      handler : Nat, usedSF : BOOLEAN]]
      /\ \A n \in AllManagers : /\ manager[n].handler = p.manager[n].handler
                                /\ manager[n].usedSF = p.manager[n].usedSF
                                /\ n # m => manager[n].state = p.manager[n].state
      /\ manager[m].state = "performing"
  BY <1>2
<1>4. q = [p EXCEPT !.manager = manager]
  BY <1>1 DEF Process
<1> HIDE DEF manager
<1>5. /\ q \in Process /\ q.challenge = p.challenge /\ q.manager = manager
      /\ q.attempts = p.attempts /\ q.opening = p.opening /\ q.sessions = p.sessions
      /\ q.pages = p.pages /\ q.asking = p.asking /\ q.reauths = p.reauths
      /\ q.closure = p.closure /\ q.pending = p.pending /\ q.told = p.told
  BY <1>1, <1>3, <1>4 DEF Process
<1>6. Named(q)
  BY <1>1, <1>5 DEF Named
<1>7. Keeps(p, q)
  BY <1>3, <1>5 DEF Keeps
<1>8. Sound(q, out)
  BY <1>5, <1>6, <1>7, KeptIsSound
<1>9. Alive(q, nil)
  BY <1>3, <1>5, <1>8 DEF Sound, Alive
<1> QED BY <1>5, <1>8, <1>9 DEF Sound

\* The completion handler of an authentication session.
LEMMA SessionEndsIsSound ==
    ASSUME NEW p, NEW c \in DOMAIN p.attempts, NEW a, NEW what, Sound(p, nil),
           a # nil => a \in DOMAIN p.attempts /\ what \in Answer
    PROVE  /\ Sound(SessionEnds(p, c, a, what), nil)
           /\ SessionEnds(p, c, a, what).attempts = p.attempts
<1> DEFINE m == p.attempts[c].manager
           r == [p EXCEPT !.requesting = FALSE]
           q == [r EXCEPT !.manager[m].state = "performing"]
           o == OpenURL(q, a, what)
           z == [o EXCEPT !.session = nil, !.closure = nil]
<1>1. p \in Process /\ Named(p)
  BY DEF Sound
<1>2. m \in AllManagers
  BY <1>1, AttemptIs
<1>3. SessionEnds(p, c, a, what) = z
  <2>1. q = [p EXCEPT !.requesting = FALSE, !.manager[m].state = "performing"]
    OBVIOUS
  <2> QED BY <2>1 DEF SessionEnds
<1>4. Sound(r, nil) /\ r.attempts = p.attempts
  <2>1. /\ r \in Process /\ r.challenge = p.challenge /\ r.manager = p.manager
        /\ r.attempts = p.attempts /\ r.opening = p.opening /\ r.sessions = p.sessions
        /\ r.pages = p.pages /\ r.asking = p.asking /\ r.reauths = p.reauths
        /\ r.closure = p.closure /\ r.pending = p.pending /\ r.told = p.told
    BY <1>1 DEF Process
  <2> HIDE DEF r
  <2>2. Named(r)
    BY <1>1, <2>1 DEF Named
  <2> QED BY <2>1, <2>2, QuietIsSound
<1> HIDE DEF r, m
<1>5. Sound(q, nil) /\ q.attempts = p.attempts
  BY <1>2, <1>4, RestedIsSound
<1> HIDE DEF q
<1>6. Sound(o, nil) /\ o.attempts = p.attempts
  BY <1>5, OpenURLIsSound
<1> HIDE DEF o
<1>7. Sound(z, nil) /\ z.attempts = p.attempts
  <2>1. o \in Process /\ Named(o)
    BY <1>6 DEF Sound
  <2>2. /\ z \in Process /\ z.challenge = o.challenge /\ z.manager = o.manager
        /\ z.attempts = o.attempts /\ z.opening = o.opening /\ z.sessions = o.sessions
        /\ z.pages = o.pages /\ z.asking = o.asking /\ z.reauths = o.reauths
        /\ z.closure = nil /\ z.pending = o.pending /\ z.told = o.told
    BY <2>1 DEF Process, nil
  <2> HIDE DEF z
  <2>3. Named(z)
    BY <2>1, <2>2 DEF Named
  <2> QED BY <1>6, <2>2, <2>3, QuietIsSound
<1> QED BY <1>3, <1>7

-----------------------------------------------------------------------------
\* One lemma for each action.
LEMMA TapIsSound == ASSUME LoginInv, NEW m \in Managers, Tap(m) PROVE LoginInv'
<1> DEFINE p == CancelPerforming(s, m)
           state == IF s.manager[m].state = "performing" THEN "idle" ELSE "start"
           handler == Len(s.attempts) + 1
           manager == [p.manager EXCEPT ![m].handler = handler, ![m].state = state]
           started == [p EXCEPT !.manager = manager]
<1>1. Sound(s, nil) /\ m \in AllManagers
  BY DEF LoginInv, AllManagers
<1>2. Sound(p, nil) /\ p.attempts = s.attempts
  BY <1>1, CancelIsSound
<1>3. p \in Process /\ Named(p) /\ Told(p) /\ Alive(p, nil)
  BY <1>2 DEF Sound
<1>4. /\ p.manager \in [AllManagers -> [state   : {"idle", "start", "performing"},
                                        handler : Nat, usedSF : BOOLEAN]]
      /\ s.attempts \in Seq(Attempt) /\ s.uses \in Uses
  BY <1>1, <1>3 DEF Process, Sound
<1>5. s.uses.first \in Ways
  BY <1>4 DEF Uses, Ways
<1>6. s' = Try(started, m, s.uses.first)
  <2>1. s' = Try([p EXCEPT !.manager[m].handler = handler, !.manager[m].state = state],
                 m, s.uses.first)
    BY DEF Tap
  <2> HIDE DEF p, handler, state
  <2>2. [p EXCEPT !.manager[m].handler = handler, !.manager[m].state = state] = started
    BY <1>3 DEF Process
  <2> QED BY <2>1, <2>2
<1>7. handler \in Nat
  BY <1>4
<1> HIDE DEF handler, p
<1>8. /\ manager \in [AllManagers -> [state   : {"idle", "start", "performing"},
                                      handler : Nat, usedSF : BOOLEAN]]
      /\ \A n \in AllManagers \ {m} : manager[n] = p.manager[n]
  BY <1>4, <1>7
<1> HIDE DEF manager
<1>9. /\ started \in Process /\ started.manager = manager
      /\ started.challenge = p.challenge
      /\ started.attempts = p.attempts /\ started.opening = p.opening
      /\ started.sessions = p.sessions /\ started.pages = p.pages
      /\ started.asking = p.asking /\ started.reauths = p.reauths
      /\ started.closure = p.closure /\ started.told = p.told
  BY <1>3, <1>8 DEF Process
<1> HIDE DEF started
<1>10. Named(started)
  BY <1>3, <1>9 DEF Named
<1>11. Told(started)
  <2>1. Launcher \in AllManagers \ {m}
    BY LoginAssumption DEF AllManagers
  <2> QED BY <1>3, <1>8, <1>9, <2>1 DEF Told
<1>12. Alive(started, m)
  <2>1. \A n \in AllManagers \ {m} : n \in AllManagers \ {nil}
    BY LoginAssumption DEF AllManagers
  <2> QED BY <1>3, <1>8, <1>9, <2>1 DEF Alive
<1>13. Sound(s', nil)
  BY <1>1, <1>5, <1>6, <1>9, <1>10, <1>11, <1>12, TryIsSound
<1> QED BY <1>13 DEF LoginInv

LEMMA LogOutIsSound == ASSUME LoginInv, LogOut PROVE LoginInv'
<1>1. s \in Process /\ Named(s) /\ Sound(s, nil)
  BY DEF LoginInv, Sound
<1>2. \A q : q = s' => Sound(q, nil)
  <2> TAKE q
  <2> HAVE q = s'
  <2>1. /\ q \in Process /\ q.challenge = s.challenge /\ q.manager = s.manager
        /\ q.attempts = s.attempts /\ q.opening = s.opening
        /\ q.sessions = s.sessions
        /\ q.pages = s.pages /\ q.asking = s.asking /\ q.reauths = s.reauths
        /\ q.closure = s.closure /\ q.pending = s.pending /\ q.told = s.told
    BY <1>1 DEF LogOut, Process, nil
  <2>2. Named(q)
    BY <1>1, <2>1 DEF Named
  <2> QED BY <1>1, <2>1, <2>2, QuietIsSound
<1> QED BY <1>2 DEF LoginInv

LEMMA SessionLostIsSound == ASSUME LoginInv, SessionLost PROVE LoginInv'
<1>1. s \in Process /\ Named(s) /\ Sound(s, nil)
  BY DEF LoginInv, Sound
<1>2. \A q : q = s' => Sound(q, nil)
  <2> TAKE q
  <2> HAVE q = s'
  <2>1. /\ q \in Process /\ q.challenge = s.challenge /\ q.manager = s.manager
        /\ q.attempts = s.attempts /\ q.opening = s.opening
        /\ q.sessions = s.sessions
        /\ q.pages = s.pages /\ q.asking = s.asking /\ q.reauths = s.reauths
        /\ q.closure = s.closure /\ q.pending = s.pending /\ q.told = s.told
    BY <1>1 DEF SessionLost, Process, nil
  <2>2. Named(q)
    BY <1>1, <2>1 DEF Named
  <2> QED BY <1>1, <2>1, <2>2, QuietIsSound
<1> QED BY <1>2 DEF LoginInv

LEMMA EnterBackgroundIsSound == ASSUME LoginInv, EnterBackground PROVE LoginInv'
<1>1. s \in Process /\ Named(s) /\ Sound(s, nil)
  BY DEF LoginInv, Sound
<1>2. \A q : q = s' => Sound(q, nil)
  <2> TAKE q
  <2> HAVE q = s'
  <2>1. /\ q \in Process /\ q.challenge = s.challenge /\ q.manager = s.manager
        /\ q.attempts = s.attempts /\ q.opening = s.opening
        /\ q.sessions = s.sessions
        /\ q.pages = s.pages /\ q.asking = s.asking /\ q.reauths = s.reauths
        /\ q.closure = s.closure /\ q.pending = s.pending /\ q.told = s.told
    BY <1>1 DEF EnterBackground, Process, nil
  <2>2. Named(q)
    BY <1>1, <2>1 DEF Named
  <2> QED BY <1>1, <2>1, <2>2, QuietIsSound
<1> QED BY <1>2 DEF LoginInv

LEMMA BecomeActiveIsSound == ASSUME LoginInv, BecomeActive PROVE LoginInv'
<1> DEFINE quiet(r) == ~r.expecting /\ ~r.requesting
           p == [s EXCEPT !.front = TRUE]
           q == IF quiet(p) /\ p.closure # nil THEN SessionEnds(p, p.closure, nil, "none") ELSE p
           r == [q EXCEPT !.active = TRUE]
<1>1. s \in Process /\ Named(s) /\ Sound(s, nil)
  BY DEF LoginInv, Sound
<1>2. Sound(p, nil)
  <2>1. /\ p \in Process /\ p.challenge = s.challenge /\ p.manager = s.manager
        /\ p.attempts = s.attempts /\ p.opening = s.opening
        /\ p.sessions = s.sessions
        /\ p.pages = s.pages /\ p.asking = s.asking /\ p.reauths = s.reauths
        /\ p.closure = s.closure /\ p.pending = s.pending /\ p.told = s.told
    BY <1>1 DEF Process
  <2> HIDE DEF p
  <2>2. Named(p)
    BY <1>1, <2>1 DEF Named
  <2> QED BY <1>1, <2>1, <2>2, QuietIsSound
<1> HIDE DEF p
<1>3. Sound(q, nil)
  <2>1. CASE quiet(p) /\ p.closure # nil
    <3>1. p.closure \in DOMAIN p.attempts
      BY <1>2, <2>1 DEF Sound, Named
    <3>2. Sound(SessionEnds(p, p.closure, nil, "none"), nil)
      BY <1>2, <3>1, SessionEndsIsSound
    <3> QED BY <2>1, <3>2
  <2>2. CASE ~(quiet(p) /\ p.closure # nil)
    BY <1>2, <2>2
  <2> QED BY <2>1, <2>2
<1>4. s' = IF quiet(p) /\ q.session = nil THEN CancelPerforming(r, q.pending) ELSE q
  BY DEF BecomeActive, p
<1> HIDE DEF q
<1>5. q \in Process /\ Named(q)
  BY <1>3 DEF Sound
<1>6. Sound(r, nil)
  <2>1. /\ r \in Process /\ r.challenge = q.challenge /\ r.manager = q.manager
        /\ r.attempts = q.attempts /\ r.opening = q.opening
        /\ r.sessions = q.sessions
        /\ r.pages = q.pages /\ r.asking = q.asking /\ r.reauths = q.reauths
        /\ r.closure = q.closure /\ r.pending = q.pending /\ r.told = q.told
    BY <1>5 DEF Process
  <2> HIDE DEF r
  <2>2. Named(r)
    BY <1>5, <2>1 DEF Named
  <2> QED BY <1>3, <2>1, <2>2, QuietIsSound
<1> HIDE DEF r
<1>7. q.pending \in AllManagers \cup {nil}
  BY <1>5 DEF Process
<1>8. Sound(CancelPerforming(r, q.pending), nil)
  BY <1>6, <1>7, CancelIsSound
<1>9. Sound(s', nil)
  BY <1>3, <1>4, <1>8
<1> QED BY <1>9 DEF LoginInv

\* An openURL has ended: its manager may be left without one.
LEMMA OpeningEndsIsSound ==
    ASSUME LoginInv, NEW a, OpeningEnds(a) PROVE LoginInv'
<1> DEFINE m == s.attempts[a].manager
           p == [s EXCEPT !.opening = @ \ {a}]
<1>1. s \in Process /\ Named(s) /\ Sound(s, nil)
  BY DEF LoginInv, Sound
<1>2. /\ a \in DOMAIN s.attempts /\ m \in AllManagers
  <2>1. a \in DOMAIN s.attempts
    BY <1>1 DEF OpeningEnds, Named
  <2> QED BY <1>1, <2>1, AttemptIs
<1>3. /\ p \in Process /\ p.challenge = s.challenge /\ p.manager = s.manager
      /\ p.attempts = s.attempts /\ p.opening = s.opening \ {a}
      /\ p.sessions = s.sessions
      /\ p.pages = s.pages /\ p.asking = s.asking /\ p.reauths = s.reauths
      /\ p.closure = s.closure /\ p.pending = s.pending /\ p.told = s.told
  BY <1>1 DEF Process
<1>4. \/ s' = [p EXCEPT !.manager[m].state = "performing", !.pages = @ \cup {a}]
      \/ s' = Try(p, m, s.uses.web)
      \/ s' = Tell(p, m, Nothing)
  BY DEF OpeningEnds, Manager
<1> HIDE DEF p
<1>5. Sound(p, m)
  <2>1. Named(p)
    BY <1>1, <1>3 DEF Named
  <2>2. Told(p) /\ Expected(p)
    BY <1>1, <1>3 DEF Sound, Told, Expected
  <2>3. Alive(p, m)
    <3>1. \A n \in AllManagers \ {m} : n \in AllManagers \ {nil}
      BY LoginAssumption DEF AllManagers
    <3> SUFFICES ASSUME NEW n \in AllManagers \ {m},
                        p.manager[n].state = "start", ~p.manager[n].usedSF
                 PROVE  \E b \in p.opening : p.attempts[b].manager = n
      BY DEF Alive
    <3>2. PICK b \in s.opening : s.attempts[b].manager = n
      BY <1>1, <1>3, <3>1 DEF Sound, Alive
    <3>3. b # a
      BY <3>2
    <3> QED BY <1>3, <3>2, <3>3
  <2> QED BY <1>3, <2>1, <2>2, <2>3 DEF Sound
<1>6. ASSUME s' = [p EXCEPT !.manager[m].state = "performing", !.pages = @ \cup {a}]
      PROVE  Sound(s', nil)
  <2> DEFINE r == [p EXCEPT !.manager[m].state = "performing"]
             z == [r EXCEPT !.pages = @ \cup {a}]
  <2>1. s' = z
    BY <1>6
  <2>2. Sound(r, nil) /\ r.attempts = p.attempts
    BY <1>2, <1>5, RestedIsSound
  <2> HIDE DEF r, m
  <2>3. r \in Process /\ Named(r) /\ a \in Nat
    BY <1>1, <1>2, <2>2, AttemptIs DEF Sound
  <2>4. /\ z \in Process /\ z.challenge = r.challenge /\ z.manager = r.manager
        /\ z.attempts = r.attempts /\ z.opening = r.opening
        /\ z.sessions = r.sessions
        /\ z.pages = r.pages \cup {a} /\ z.asking = r.asking /\ z.reauths = r.reauths
        /\ z.closure = r.closure /\ z.pending = r.pending /\ z.told = r.told
    BY <2>3 DEF Process
  <2> HIDE DEF z
  <2>5. Named(z)
    BY <1>2, <1>3, <2>2, <2>3, <2>4 DEF Named
  <2>6. Sound(z, nil)
    BY <2>2, <2>4, <2>5, QuietIsSound
  <2> QED BY <2>1, <2>6
<1>7. ASSUME s' = Try(p, m, s.uses.web)
      PROVE  Sound(s', nil)
  <2>1. s.uses \in Uses
    BY <1>1 DEF Process
  <2>2. s.uses.web \in Ways
    BY <2>1 DEF Uses, Ways
  <2>3. p \in Process /\ Named(p) /\ Told(p) /\ Alive(p, m)
    BY <1>5 DEF Sound
  <2> HIDE DEF m
  <2>4. Sound(Try(p, m, s.uses.web), nil)
    BY <1>2, <2>2, <2>3, TryIsSound
  <2> QED BY <1>7, <2>4
<1>8. ASSUME s' = Tell(p, m, Nothing)
      PROVE  Sound(s', nil)
  <2>1. MayTell(p, m, Nothing)
    BY DEF MayTell
  <2> HIDE DEF m
  <2>2. Sound(Tell(p, m, Nothing), nil)
    BY <1>2, <1>5, <2>1, TellIsSound
  <2> QED BY <1>8, <2>2
<1>9. Sound(s', nil)
  BY <1>4, <1>6, <1>7, <1>8
<1> QED BY <1>9 DEF LoginInv

LEMMA PageAnswersIsSound ==
    ASSUME LoginInv, NEW a, PageAnswers(a) PROVE LoginInv'
<1> DEFINE p == [s EXCEPT !.pages = @ \ {a}]
<1>1. s \in Process /\ Named(s) /\ Sound(s, nil)
  BY DEF LoginInv, Sound
<1>2. /\ p \in Process /\ p.challenge = s.challenge /\ p.manager = s.manager
        /\ p.attempts = s.attempts /\ p.opening = s.opening
        /\ p.sessions = s.sessions
        /\ p.pages = s.pages \ {a} /\ p.asking = s.asking /\ p.reauths = s.reauths
        /\ p.closure = s.closure /\ p.pending = s.pending /\ p.told = s.told
  BY <1>1 DEF Process
<1>3. PICK what \in Replies(a) : s' = OpenURL(p, a, what)
  BY DEF PageAnswers
<1> HIDE DEF p
<1>4. Sound(p, nil)
  <2>1. Named(p)
    BY <1>1, <1>2 DEF Named
  <2> QED BY <1>1, <1>2, <2>1, QuietIsSound
<1>5. a \in DOMAIN p.attempts
  BY <1>1, <1>2 DEF PageAnswers, Named
<1>6. what \in Answer
  BY <1>3 DEF Replies, Answer
<1>7. Sound(OpenURL(p, a, what), nil)
  BY <1>4, <1>5, <1>6, OpenURLIsSound
<1>8. Sound(s', nil)
  BY <1>3, <1>7
<1> QED BY <1>8 DEF LoginInv

LEMMA OtherURLIsSound == ASSUME LoginInv, OtherURL PROVE LoginInv'
<1>1. Sound(s, nil)
  BY DEF LoginInv
<1>2. Sound(OpenURL(s, nil, "none"), nil)
  BY <1>1, OpenURLIsSound
<1>3. Sound(s', nil)
  BY <1>2 DEF OtherURL
<1> QED BY <1>3 DEF LoginInv

LEMMA SessionReportsIsSound ==
    ASSUME LoginInv, NEW a, SessionReports(a) PROVE LoginInv'
<1> DEFINE m == s.attempts[a].manager
           covered == s.covered /\ s.session # a
           p == [s EXCEPT !.sessions = @ \ {a}, !.covered = covered]
           t == Tell(p, m, Nothing)
           z == [t EXCEPT !.requesting = FALSE, !.session = nil, !.closure = nil]
<1>1. s \in Process /\ Named(s) /\ Sound(s, nil)
  BY DEF LoginInv, Sound
<1>2. \/ \E what \in Replies(a) : s' = SessionEnds(p, a, a, what)
      \/ s' = z
  BY DEF SessionReports, Manager
<1>3. a \in DOMAIN s.attempts /\ m \in AllManagers
  <2>1. a \in DOMAIN s.attempts
    BY <1>1 DEF SessionReports, Named
  <2> QED BY <1>1, <2>1, AttemptIs
<1>4. covered \in BOOLEAN
  OBVIOUS
<1> HIDE DEF covered, m
<1>5. /\ p \in Process /\ p.challenge = s.challenge /\ p.manager = s.manager
        /\ p.attempts = s.attempts /\ p.opening = s.opening
        /\ p.sessions = s.sessions \ {a}
        /\ p.pages = s.pages /\ p.asking = s.asking /\ p.reauths = s.reauths
        /\ p.closure = s.closure /\ p.pending = s.pending /\ p.told = s.told
  BY <1>1, <1>4 DEF Process
<1> HIDE DEF p
<1>6. Sound(p, nil)
  <2>1. Named(p)
    BY <1>1, <1>5 DEF Named
  <2> QED BY <1>1, <1>5, <2>1, QuietIsSound
<1>7. ASSUME NEW what \in Replies(a), s' = SessionEnds(p, a, a, what)
      PROVE  Sound(s', nil)
  <2>1. what \in Answer
    BY DEF Replies, Answer
  <2>2. Sound(SessionEnds(p, a, a, what), nil)
    BY <1>3, <1>5, <1>6, <2>1, SessionEndsIsSound
  <2> QED BY <1>7, <2>2
<1>8. Sound(z, nil)
  <2>1. MayTell(p, m, Nothing)
    BY DEF MayTell
  <2>2. Sound(t, nil)
    BY <1>3, <1>6, <2>1, TellIsSound
  <2> HIDE DEF t
  <2>3. t \in Process /\ Named(t)
    BY <2>2 DEF Sound
  <2>4. /\ z \in Process /\ z.challenge = t.challenge /\ z.manager = t.manager
        /\ z.attempts = t.attempts /\ z.opening = t.opening
        /\ z.sessions = t.sessions
        /\ z.pages = t.pages /\ z.asking = t.asking /\ z.reauths = t.reauths
        /\ z.closure = nil /\ z.pending = t.pending /\ z.told = t.told
    BY <2>3 DEF Process, nil
  <2> HIDE DEF z
  <2>5. Named(z)
    BY <2>3, <2>4 DEF Named
  <2> QED BY <2>2, <2>4, <2>5, QuietIsSound
<1>9. Sound(s', nil)
  BY <1>2, <1>7, <1>8
<1> QED BY <1>9 DEF LoginInv

LEMMA UserIsKnownIsSound ==
    ASSUME LoginInv, NEW c, UserIsKnown(c) PROVE LoginInv'
<1> DEFINE p == [s EXCEPT !.asking = @ \ {c}]
<1>1. s \in Process /\ Named(s) /\ Expected(s) /\ Sound(s, nil)
  BY DEF LoginInv, Sound
<1>2. /\ p \in Process /\ p.challenge = s.challenge /\ p.manager = s.manager
        /\ p.attempts = s.attempts /\ p.opening = s.opening
        /\ p.sessions = s.sessions
        /\ p.pages = s.pages /\ p.asking = s.asking \ {c} /\ p.reauths = s.reauths
        /\ p.closure = s.closure /\ p.pending = s.pending /\ p.told = s.told
  BY <1>1 DEF Process
<1>3. /\ c \in s.asking
      /\ s' = Complete(p, c.manager, c.attempt) \/ s' = CompleteWithout(p, c.manager)
  BY DEF UserIsKnown
<1> HIDE DEF p
<1>4. Sound(p, nil)
  <2>1. Named(p)
    BY <1>1, <1>2 DEF Named
  <2> QED BY <1>1, <1>2, <2>1, QuietIsSound
<1>5. c.attempt \in DOMAIN s.attempts /\ c.attempt # nil
  <2>1. c.attempt \in DOMAIN s.attempts
    BY <1>1, <1>3 DEF Named
  <2> QED BY <1>1, <2>1, AttemptIs
<1>6. c.manager \in AllManagers
  <2>1. s.asking \subseteq Asked
    BY <1>1 DEF Process
  <2> QED BY <1>3, <2>1 DEF Asked
<1>7. MayComplete(p, c.manager, c.attempt)
  <2>1. s.challenge = c.attempt =>
           c.manager \in {s.attempts[s.challenge].manager, Launcher}
    BY <1>1, <1>3, <1>5 DEF Expected
  <2> QED BY <1>2, <1>5, <2>1 DEF MayComplete
<1>8. Sound(Complete(p, c.manager, c.attempt), nil)
  BY <1>4, <1>6, <1>7, CompleteIsSound
<1>9. Sound(CompleteWithout(p, c.manager), nil)
  BY <1>4, <1>6, CompleteWithoutIsSound
<1>10. Sound(s', nil)
  BY <1>3, <1>8, <1>9
<1> QED BY <1>10 DEF LoginInv

LEMMA ReauthEndsIsSound ==
    ASSUME LoginInv, NEW c, ReauthEnds(c) PROVE LoginInv'
<1> DEFINE p == [s EXCEPT !.reauths = @ \ {c}]
           q == [p EXCEPT !.token = c.attempt]
<1>1. s \in Process /\ Named(s) /\ Sound(s, nil)
  BY DEF LoginInv, Sound
<1>2. /\ p \in Process /\ p.challenge = s.challenge /\ p.manager = s.manager
        /\ p.attempts = s.attempts /\ p.opening = s.opening
        /\ p.sessions = s.sessions
        /\ p.pages = s.pages /\ p.asking = s.asking /\ p.reauths = s.reauths \ {c}
        /\ p.closure = s.closure /\ p.pending = s.pending /\ p.told = s.told
  BY <1>1 DEF Process
<1>3. /\ c \in s.reauths
      /\ \/ s' = Tell(q, c.manager, CheckedFor(c.attempt))
         \/ s' = Tell(p, c.manager, Nothing)
  BY DEF ReauthEnds
<1> HIDE DEF p
<1>4. Sound(p, nil)
  <2>1. Named(p)
    BY <1>1, <1>2 DEF Named
  <2> QED BY <1>1, <1>2, <2>1, QuietIsSound
<1>5. c.attempt \in DOMAIN s.attempts /\ c.attempt \in Nat /\ c.manager \in AllManagers
  <2>1. s.reauths \subseteq Asked
    BY <1>1 DEF Process
  <2> QED BY <1>1, <1>3, <2>1 DEF Named, Asked
<1>6. /\ q \in Process /\ q.challenge = p.challenge /\ q.manager = p.manager
        /\ q.attempts = p.attempts /\ q.opening = p.opening
        /\ q.sessions = p.sessions
        /\ q.pages = p.pages /\ q.asking = p.asking /\ q.reauths = p.reauths
        /\ q.closure = p.closure /\ q.pending = p.pending /\ q.told = p.told
  BY <1>2, <1>5 DEF Process
<1> HIDE DEF q
<1>7. Sound(q, nil)
  <2>1. Named(q)
    BY <1>4, <1>6 DEF Sound, Named
  <2> QED BY <1>4, <1>6, <2>1, QuietIsSound
<1>8. MayTell(q, c.manager, CheckedFor(c.attempt))
  BY <1>2, <1>5, <1>6 DEF MayTell, CheckedFor
<1>9. MayTell(p, c.manager, Nothing)
  BY DEF MayTell
<1>10. Sound(Tell(q, c.manager, CheckedFor(c.attempt)), nil)
  BY <1>5, <1>7, <1>8, TellIsSound
<1>11. Sound(Tell(p, c.manager, Nothing), nil)
  BY <1>4, <1>5, <1>9, TellIsSound
<1>12. Sound(s', nil)
  BY <1>3, <1>10, <1>11
<1> QED BY <1>12 DEF LoginInv

LEMMA UseBrowserIsSound ==
    ASSUME LoginInv, NEW m \in AllManagers, UseBrowser(m) PROVE LoginInv'
<1> DEFINE p == [s EXCEPT !.fallback = @ \ {m}]
<1>1. s \in Process /\ Named(s) /\ Sound(s, nil)
  BY DEF LoginInv, Sound
<1>2. /\ p \in Process /\ p.challenge = s.challenge /\ p.manager = s.manager
        /\ p.attempts = s.attempts /\ p.opening = s.opening
        /\ p.sessions = s.sessions
        /\ p.pages = s.pages /\ p.asking = s.asking /\ p.reauths = s.reauths
        /\ p.closure = s.closure /\ p.pending = s.pending /\ p.told = s.told
  BY <1>1 DEF Process
<1>3. s' = Try(p, m, s.uses.web)
  BY DEF UseBrowser
<1> HIDE DEF p
<1>4. Sound(p, nil)
  <2>1. Named(p)
    BY <1>1, <1>2 DEF Named
  <2> QED BY <1>1, <1>2, <2>1, QuietIsSound
<1>5. s.uses.web \in Ways
  <2>1. s.uses \in Uses
    BY <1>1 DEF Process
  <2> QED BY <2>1 DEF Uses, Ways
<1>6. p \in Process /\ Named(p) /\ Told(p) /\ Alive(p, m)
  BY <1>4, LoginAssumption DEF Sound, Alive, AllManagers
<1>7. Sound(Try(p, m, s.uses.web), nil)
  BY <1>5, <1>6, TryIsSound
<1>8. Sound(s', nil)
  BY <1>3, <1>7
<1> QED BY <1>8 DEF LoginInv

\* What is left of a process that was killed, or of none.
LEMMA LaunchedIsSound ==
    ASSUME NEW left,
           left.challenge \in DOMAIN left.attempts \cup {nil}, left.token \in Nat,
           left.pages \subseteq DOMAIN left.attempts,
           left.attempts \in Seq(Attempt), left.uses \in Uses,
           left.told \subseteq [login : Nat, token : Nat, checked : BOOLEAN],
           \A t \in left.told : /\ t.token \in DOMAIN left.attempts
                                /\ ~t.checked => left.attempts[t.token].login = t.login
    PROVE  /\ Sound(Launched(left), nil)
           /\ Launched(left).attempts = left.attempts
           /\ Launched(left).pages = left.pages
<1> DEFINE p == Launched(left)
           manager == [m \in AllManagers |-> [state |-> "idle", handler |-> nil, usedSF |-> FALSE]]
<1>1. DOMAIN left.attempts \subseteq Nat
  OBVIOUS
<1>2. manager \in [AllManagers -> [state   : {"idle", "start", "performing"},
                                   handler : Nat, usedSF : BOOLEAN]]
  BY DEF nil
<1> HIDE DEF manager
<1>3. /\ p \in Process /\ p.manager = manager /\ p.challenge = left.challenge
      /\ p.attempts = left.attempts /\ p.opening = {} /\ p.sessions = {}
      /\ p.pages = left.pages /\ p.asking = {} /\ p.reauths = {} /\ p.closure = nil
      /\ p.pending = nil /\ p.told = left.told
  BY <1>1, <1>2 DEF Process, Launched, manager, nil
<1> HIDE DEF p
<1>4. \A n \in AllManagers : manager[n].state = "idle" /\ manager[n].handler = nil
  BY DEF manager
<1>5. Named(p)
  BY <1>3 DEF Named
<1>6. Told(p)
  BY <1>3, <1>4 DEF Told, AllManagers
<1>7. Expected(p)
  <2> SUFFICES ASSUME p.challenge # nil
               PROVE  LET made == p.attempts[p.challenge]
                      IN  /\ p.manager[made.manager].handler \in {nil, made.login}
                          /\ p.pending \in {nil, made.manager}
                          /\ \A c \in p.asking : c.attempt = p.challenge =>
                                                    c.manager \in {made.manager, Launcher}
    BY DEF Expected
  <2>1. p.challenge \in DOMAIN p.attempts
    BY <1>3
  <2>2. p.attempts[p.challenge].manager \in AllManagers
    BY <1>3, <2>1, AttemptIs
  <2> QED BY <1>3, <1>4, <2>2
<1>8. Alive(p, nil)
  BY <1>3, <1>4 DEF Alive
<1> QED BY <1>3, <1>5, <1>6, <1>7, <1>8 DEF Sound, p

LEMMA LaunchAgainIsSound == ASSUME LoginInv, LaunchAgain PROVE LoginInv'
<1> DEFINE p == Launched(s)
           q(a) == [p EXCEPT !.pages = @ \ {a}]
<1>1. s \in Process /\ Named(s) /\ Told(s) /\ Sound(s, nil)
  BY DEF LoginInv, Sound
<1>2. /\ s.challenge \in DOMAIN s.attempts \cup {nil}
      /\ s.pages \subseteq DOMAIN s.attempts
      /\ \A t \in s.told : /\ t.token \in DOMAIN s.attempts
                           /\ ~t.checked => s.attempts[t.token].login = t.login
  BY <1>1 DEF Named, Told
<1>3. /\ s.token \in Nat /\ s.attempts \in Seq(Attempt) /\ s.uses \in Uses
      /\ s.told \subseteq [login : Nat, token : Nat, checked : BOOLEAN]
  BY <1>1 DEF Process
<1>4. Sound(p, nil) /\ p.attempts = s.attempts /\ p.pages = s.pages
  BY <1>2, <1>3, LaunchedIsSound
<1>5. \/ s' = p
      \/ \E a \in s.pages : \E what \in Replies(a) : s' = Handle(q(a), Launcher, a, what)
  BY DEF LaunchAgain
<1> HIDE DEF p
<1>6. ASSUME NEW a \in s.pages, NEW what \in Replies(a),
             s' = Handle(q(a), Launcher, a, what)
      PROVE  Sound(s', nil)
  <2> DEFINE r == q(a)
  <2>1. p \in Process /\ Named(p)
    BY <1>4 DEF Sound
  <2>2. /\ r \in Process /\ r.challenge = p.challenge /\ r.manager = p.manager
        /\ r.attempts = p.attempts /\ r.opening = p.opening
        /\ r.sessions = p.sessions
        /\ r.pages = p.pages \ {a} /\ r.asking = p.asking /\ r.reauths = p.reauths
        /\ r.closure = p.closure /\ r.pending = p.pending /\ r.told = p.told
    BY <2>1 DEF Process
  <2> HIDE DEF r
  <2>3. Named(r)
    BY <2>1, <2>2 DEF Named
  <2>4. Sound(r, nil)
    BY <1>4, <2>2, <2>3, QuietIsSound
  <2>5. MayComplete(r, Launcher, a) /\ Launcher \in AllManagers
    BY <1>2, <1>4, <2>2 DEF MayComplete, AllManagers
  <2>6. what \in {"token", "noUser", "refused", "useBrowser"}
    BY DEF Replies
  <2>7. Sound(Handle(r, Launcher, a, what), nil)
    BY <2>4, <2>5, <2>6, HandleIsSound
  <2> QED BY <1>6, <2>7 DEF r
<1>7. Sound(s', nil)
  BY <1>4, <1>5, <1>6
<1> QED BY <1>7 DEF LoginInv

-----------------------------------------------------------------------------
\* The first launch is sound.
LEMMA StartsSound == FbInit => LoginInv
<1> SUFFICES ASSUME FbInit PROVE Sound(s, nil)
  BY DEF LoginInv
<1>1. PICK u \in Uses :
        s = Launched([challenge |-> nil, token |-> nil, pages |-> {}, attempts |-> <<>>,
                      told |-> {}, uses |-> u])
  BY DEF FbInit
<1> DEFINE left == [challenge |-> nil, token |-> nil, pages |-> {}, attempts |-> <<>>,
                    told |-> {}, uses |-> u]
<1>2. /\ left.challenge = nil /\ left.token = 0 /\ left.pages = {} /\ left.attempts = <<>>
      /\ left.told = {} /\ left.uses \in Uses
  BY DEF nil
<1>3. s = Launched(left)
  BY <1>1
<1> HIDE DEF left
<1>4. left.attempts \in Seq(Attempt)
  BY <1>2
<1>5. /\ left.challenge \in DOMAIN left.attempts \cup {nil} /\ left.token \in Nat
      /\ left.pages \subseteq DOMAIN left.attempts
      /\ left.told \subseteq [login : Nat, token : Nat, checked : BOOLEAN]
      /\ \A t \in left.told : /\ t.token \in DOMAIN left.attempts
                              /\ ~t.checked => left.attempts[t.token].login = t.login
  BY <1>2
<1>6. Sound(Launched(left), nil)
  BY <1>2, <1>4, <1>5, LaunchedIsSound
<1> QED BY <1>3, <1>6

\* Every step keeps the invariant.
LEMMA NextIsSound == ASSUME LoginInv, [FbNext]_fbVars PROVE LoginInv'
<1>1. ASSUME NEW m \in Managers, Tap(m) PROVE LoginInv'
  BY <1>1, TapIsSound
<1>2. ASSUME NEW m \in AllManagers, UseBrowser(m) PROVE LoginInv'
  BY <1>2, UseBrowserIsSound
<1>3. ASSUME NEW a \in Attempts, OpeningEnds(a) PROVE LoginInv'
  BY <1>3, OpeningEndsIsSound
<1>4. ASSUME NEW a \in Attempts, PageAnswers(a) PROVE LoginInv'
  BY <1>4, PageAnswersIsSound
<1>5. ASSUME NEW a \in Attempts, SessionReports(a) PROVE LoginInv'
  BY <1>5, SessionReportsIsSound
<1>6. ASSUME NEW c \in s.asking, UserIsKnown(c) PROVE LoginInv'
  BY <1>6, UserIsKnownIsSound
<1>7. ASSUME NEW c \in s.reauths, ReauthEnds(c) PROVE LoginInv'
  BY <1>7, ReauthEndsIsSound
<1>8. CASE UNCHANGED fbVars
  BY <1>8 DEF fbVars, LoginInv
<1> QED BY <1>1, <1>2, <1>3, <1>4, <1>5, <1>6, <1>7, <1>8, LogOutIsSound,
           SessionLostIsSound, EnterBackgroundIsSound, BecomeActiveIsSound,
           OtherURLIsSound, LaunchAgainIsSound DEF FbNext

\* Everything above holds in every reachable state.
THEOREM LoginInvariant == FbSpec => []LoginInv
<1>1. FbInit => LoginInv
  BY StartsSound
<1>2. LoginInv /\ [FbNext]_fbVars => LoginInv'
  BY NextIsSound
<1> QED BY <1>1, <1>2, PTL DEF FbSpec

\* A handler is told an unchecked token only of an attempt of its own login
\* (completeAuthentication:expectChallenge:), for any number of managers and taps.
THEOREM AnswersAreOwn == FbSpec => []OwnAnswer
<1>1. LoginInv => OwnAnswer
  BY DEF LoginInv, Sound, Told, OwnAnswer
<1> QED BY <1>1, LoginInvariant, PTL

\* A manager that refuses taps has an openURL that has not ended
\* (validateLoginStartState), for any number of managers and taps.
THEOREM ButtonsComeBack == FbSpec => []ButtonNeverDead
<1>1. LoginInv => ButtonNeverDead
  <2> SUFFICES ASSUME LoginInv, NEW m \in Managers,
                      s.manager[m].state = "start", ~s.manager[m].usedSF
               PROVE  \E a \in s.opening : s.attempts[a].manager = m
    BY DEF ButtonNeverDead, Manager
  <2>1. m \in AllManagers \ {nil}
    BY LoginAssumption DEF AllManagers
  <2> QED BY <2>1 DEF LoginInv, Sound, Alive
<1> QED BY <1>1, LoginInvariant, PTL
=============================================================================

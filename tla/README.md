# Verification of the B & B Pools app and the libraries under it

B & B Pools is an iOS app: a home screen, a login screen, a menu of products
and a details screen, on one navigation controller, with sign-in as a guest,
by email and password, with Facebook and with Google. Its own code is small
(about 1,900 lines of Swift); what is hard in it is *when* things happen.
Every sign-in is answered by a completion handler that arrives later, on
whatever screen is there by then, while libraries below keep the session in
memory, in the keychain and in other apps. The repository also holds the
source of those libraries. The largest with logic of their own are Firebase's
database client and leveldb, the store under it; the app opens no database,
but the code is in the tree and is built into it.

This directory models the sign-in engine of `FIRAuth` and the screens above
it, the login of Facebook's SDK, the database's connection with the writes and
transactions over it, and the parts of leveldb where threads, crashes and
files meet; it checks them with TLC and proves the main properties of twelve
modules with TLAPS.

## Inventory

| Part | State | Operations | Interacts with |
| --- | --- | --- | --- |
| `FIRAuth` sign-in engine (`Pods/FirebaseAuth/.../FIRAuth.m`, `FIRUser.m`, `FIRAuthKeychain.m`) | `_currentUser`, the keychain item, requests on the work queue and at the server, handlers on the main queue | sign-in calls, `signOut`, restore at launch | called by all screens; calls back on the main queue |
| `HomeController` | its login screen; whether the home looked for a session | `viewWillAppear`, guest, sign up, log in buttons | pushes `LoginViewController`, `MenuCollectionVC`; writes the global `loginVsSignup` |
| `LoginViewController` | the form shown, its one `MenuCollectionVC`, Facebook token | `viewWillAppear`, submit, Facebook and Google buttons, answers | reads `loginVsSignup`; pushes its menu |
| `MenuCollectionVC`, `DatasourceController` | registered cells | first layout, logout, select item | `signOut`, Facebook `logOut`, pushes a new `HomeController` |
| `AppDelegate` | root of the window | launch, Google delegate, open URL | `FIRAuth` |
| Facebook button (`FBSDKLoginButton.m`) | access token | log in, log out | delegate of the login screen |
| Facebook login manager (`FBSDKLoginManager.m`, `FBSDKLoginCompletion.m`, `FBSDKApplicationDelegate.m`) | a state and a handler for each button; pending URL opener, authentication session, flags; the challenge in the keychain | log in, URL received, foreground, background, launch by URL | the Facebook app, the browser, authentication sessions; calls the button's handler |
| Database connection (`FPersistentConnection.m`, `FConnection.m`, `FIRRetryHelper.m`) | connection state, interrupt reasons, one retry, token fetches, credential, socket | open, interrupt, resume, retry, token callback, hello, loss, auth answers, refresh | `FIRAuth`'s token changes; one dispatch queue; restores what `FRepo` asked for |
| Database writes and transactions (`FRepo.m`, `FPersistentConnection.m`, `FWriteTree.m`) | outstanding puts, held answers, listens, queue of transactions, write ids | set, transaction, observe, answer, purge, abort, rerun, restore | callbacks of puts rerun transactions, which put again |
| Database sync tree, views, persistence | - | - | not modelled |
| leveldb data path (`db_impl.cc`, `version_set.cc`, `version_edit.cc`) | two memtables, the files of seven levels, snapshots, a compaction | write, get, snapshot, flush, merge, move, `CompactRange`, reopen | |
| leveldb files and recovery (`db_impl.cc`, `version_set.cc`, `filename.cc`) | logs, tables, descriptors, `CURRENT`; file and sequence numbers | open, log, flush, edit, delete, stop of process or machine | all other parts of leveldb store through it |
| leveldb write queue and background thread (`db_impl.cc`) | `writers_`, `imm_`, `manual_compaction_`, `bg_error_` | `Write`, `MakeRoomForWrite`, `CompactRange`, background call, close | mutex and condition variables |
| leveldb log format (`log_writer.cc`, `log_reader.cc`) | blocks, fragments | append, read after a crash | logs and descriptors |
| leveldb caches (`cache.cc`, `table_cache.cc`, `table.cc`) | entries, two lists, reference counts | look up, insert, release, erase, prune | lookups and iterators of several threads |
| leveldb skip list (`skiplist.h`, `memtable.cc`) | links of each level | insert, seek, next, previous | one writer, readers without a lock |
| leveldb iterators (`db_iter.cc`, `merger.cc`) | direction, current child, saved key | seek, next, previous | memtables and tables |
| leveldb table format (`table_builder.cc`, `block*.cc`, `filter_block.cc`, `two_level_iterator.cc`, `table.cc`) | blocks, index, filters | add, finish, walk, look up | caches, iterators |
| Login form (validation, alerts, reset dialogue, keyboard) | fields, alert | - | not modelled |
| Token refresh (`FIRAuth.m`, `FIRSecureTokenService.m`, `FIRAuthSerialTaskQueue.m`) | tokens, timer, back-off | - | not modelled |
| leveldb repair, environment, C binding; nanopb, GTMSessionFetcher, Bolts; binary frameworks of Google sign-in, ads, analytics | - | - | not modelled |

What is hard, and at which line it bites, is listed under `hazards` in
`PROJECT.json`: answers that arrive after the user has gone back, logged out
or begun another login, two answers for one screen, errors ignored on one
path, the keychain failing in the middle, kills between any two steps; in the
database client, sockets lost while answers are under way, tokens that come
late, callbacks that start new writes inside the handler that calls them; in
leveldb, work done without the mutex, a flush in the middle of a merge, a
machine that stops between two files, readers without a lock, calls in both
directions.

What makes each part correct:

* engine: memory and keychain agree, a failure changes nothing, each handler
  is called once and in the order of the sessions, every request ends;
* navigation: no controller is on the stack twice, each lies on the one it was
  opened from, a menu is opened and left only for a good reason, a user with a
  session can reach a menu; the login screen shows the form asked for, and starts
  no sign-in once its menu is there;
* Facebook's login: a handler gets the token its own login asked for, and a
  button that refuses a tap will take one again;
* connection: in each state something is under way that leads on from it, and
  each socket restores the state once;
* writes: each has one end, a transaction is applied at most once, what was
  acknowledged is not overwritten by an older write sent again;
* the store as a whole: one ordered map, snapshots that do not move;
* files: what was acknowledged is found after a stop, nothing in use is
  deleted, no number is used twice, the store can be opened;
* queue: what `Write` returns is true, nobody waits for ever;
* log, cache, skip list, iterators, tables: each behaves like the sequence,
  map or set it stands for, whatever is damaged, shared or under way.

## Modules

```
DurableSession     one session, sign-ins that end, sign-out, restart
   ^ refined by
AuthSession        FIRAuth as the app uses it           <- PoolsAppProofs
   ^ EXTENDS
PoolsApp           screens, taps and answers over it    <- PoolsAppProofs
FacebookLogin      what PoolsApp's Facebook sheet does  <- FacebookLoginProofs

ServerLink         down, authorizing, up; one restore for each time up
   ^ refined by              ^ EXTENDS
PersistentConnection         Repo    sets, transactions, observers
                                     both <- DatabaseProofs

KVStore            an ordered map with frozen views
   ^ refined by
Levels             memtables, merges, snapshots, reads  <- LevelsProofs
   | EXTENDS
LevelFiles         versions, lookups, choice of inputs
WriteQueue         writers, CompactRange, the thread    <- WritePathProofs
Recovery           logs, tables, descriptor, stops      <- RecoveryProofs
LRUCache           one shard and its threads            <- LRUCacheProofs
LogFormat          blocks and fragments                 <- WritePathProofs
SkipList           links, a writer and readers          <- ReadPathProofs
Iterators          DBIter over MergingIterator          <- ReadPathProofs
SortedTable        blocks, index, filters

MCPoolsApp, MCLevels, MCWriteQueue, LibraryParts    TLC instances
```

**DurableSession** is what the app may assume of the engine: the session
changes only because a sign-in somebody asked for ends, or by a sign-out; a
restart shows the durable session or nothing. It also states what the engine
does *not* promise: a request that creates an account may end by signing out
whoever was signed in.

**AuthSession.** `user` is `_currentUser`, `disk` the user archived in the
keychain, `restored` whether the launch could read it, `phase` the place of
each request (waiting on the work queue, at the identity service, at
`getAccountInfo`, handler dispatched), `mainQueue` the dispatched handlers.
One request is one API call and gives its name to the `FIRUser` it creates,
since `updateCurrentUser:` compares pointers. A block of the serial work queue
is one action: `Ask` dispatches it, `Begin` runs it (with the check for an
anonymous user), `TokensArrive`, `RequestFails`, `AccountArrives` and
`AccountFails` are the server's answers with everything the decorated callback
does, `Deliver` runs the handler, `SignOut` and `Relaunch` are `signOut:` and
the init block. Data that no property tells apart (tokens, credentials,
account details) is left out. The five kinds of request differ in two ways,
both in the code: only guests look for the user there is, and only guest and
sign-up requests ignore the error of `getAccountInfo`.

**PoolsApp.** `stack` is the navigation controller's stack by identity of the
controllers: `Home(i)` owns `Login(i)`, which owns `LoginMenu(i)`; menus made
by home screens are new objects (`NewMenu`). `appearing` says that
`viewWillAppear` and the first layout of the top are still to come; no touch
arrives before. `origin` is the screen whose closure a request carries: the
handler navigates from there, not from what is on top. `crash` is an exception
UIKit raises and nobody catches; only a relaunch follows. `TapLogout`,
`FacebookSheetEnds`, `GraphAnswers`, `GoogleSheetEnds` and `DeliverReport` are
the handlers of the source, whole; every change of the session is an action of
AuthSession.

`ExtraCells` is the set of cell identifiers registered with the menu besides
those the code registers. `{}` is the code as it stands, and there the first
menu ends the process (run `app_asbuilt`); the other runs supply the missing
`"cellId"` so that what lies behind the first menu is checked too. The
theorems hold for both.

**FacebookLogin.** `s` is one record: the managers and the delegate's fields,
which a kill forgets, and what a kill leaves (`Launched`), the keychain and
the pages open in other apps. An attempt is one
`logInWithBehavior:` with its challenge, a login is one tap with its handler.
`Tap`, `EnterBackground`, `BecomeActive`, `OpeningEnds`, `SessionReports`,
`PageAnswers`, `OtherURL`, `UserIsKnown`, `ReauthEnds`, `UseBrowser` and
`LaunchAgain` are the callbacks of the source, `OpenURL` the delegate's
`application:openURL:`, `Complete` is
`completeAuthentication:expectChallenge:`, `Tell` is `invokeHandler:error:`.
Two managers stand for the buttons of two login screens, `Launcher` for the
one a launch by URL makes; all share the challenge. PoolsApp's Facebook sheet
abstracts one login of it: it ends with a token or without. Two behaviours are
not in that abstraction, a late URL that sets a token although its login was
cancelled, so that no handler hears of it, and the answer of
`validateReauthentication`, which goes to the handler of the moment.

**ServerLink, PersistentConnection.** Every handler of the connection runs on
one dispatch queue and is one action. `retry` is the block `FIRRetryHelper`
has scheduled, `fetches` the token callbacks still to come, `realtime` the
`FConnection`, `auths` the credentials at the server, answered in the order
they were sent, with the flag their callback carries. `TryScheduleReconnect`,
`OnDisconnect`, `InterruptForReason` and `ResumeForReason` are the methods of
these names and are called by the actions as in the code: `Open`, `GoOffline`,
`GoOnline`, `ServerKill`, `Reachable` (and entering the foreground),
`RetryFires`, `TokenArrives`, `Hello`, `Lost`, `AuthAccepted`, `AuthRefused`,
`AuthRevoked`, `RefreshAuthToken`. `ServerLink` is what is left of all this
for the layer above.

**Repo** has a `ServerLink` for its connection, and sets, transactions and
observers at one path. `w` is all that a write can change: `puts`
(`outstandingPuts`), `wire` (sent, without answer), `held` (`putsToAck`),
`writes` (the ids in `FWriteTree`), `queue` and `tx` (the transactions, which
stand in the queue by their `order`), and `told`, the completion blocks called.
A callback runs inside the handler that calls it, so the methods are operators
from one `w` to the next (`TxCallback`, `SetCallback`, `RerunTransactions`,
`AbortTransactions`, `CancelSent`, `Restore`, `RollBack`, `CancelAll`,
`AckPuts`), applied in the order of the calls; the handlers are the actions. A
loop over the transactions of a queue treats each of them alike and by what it
was before the loop, so the operators take it as a step on the set
(`ToAbort`, `ToRun`, `GiveUp`); loops over puts call back, and stay sequences
(`Callbacks`). `last` and `applied` are the server's side: whose value it
has, and how often it took a transaction; of the puts whose answers a lost
connection does not carry it took any (`Unheard`). `w.raised` says that
`removeWriteId:` raised for an id that is not there; nothing follows. From the
sync tree come only when the listen of a path begins and ends, which write ids
there are, and that an ack or an update may or may not raise events.

**Levels, LevelFiles, KVStore.** An entry is a key, the number of its write
and whether it deletes. A version maps levels to files; a file has a number
and its entries. `LevelFiles` holds what does not change state: the search of
a lookup (`VersionGet`), `GetOverlappingInputs`, `PickLevels` for a flushed
memtable, the growth of a compaction's inputs (`SetupOtherInputs`), what a
merge drops (`Survivors`) and how it cuts its outputs. `Levels` has the steps:
`Write`, snapshots, `SwitchMemTable`, `CallCompactRange`, `FlushImm`,
`TrivialMove`, `StartCompaction`, `StartManual`, `FinishCompaction`, `Reopen`.
A compaction is chosen in one step and installed in another; the flush in its
middle, writes and snapshots come between. Byte sizes are left out: where the
code compares one with a limit, either outcome is possible. `KVStore` is the
promise of `db.h`: one map, and views that stay as they were taken.

**Recovery.** `log`, `table`, `manifest` and `current` are the directory, `db`
the fields of `VersionSet` and `DBImpl`; `edit` is the record `LogAndApply`
writes without the mutex. Opening goes through `Open`, `RecoverLogFile`,
`StartDescriptor`, `SyncDescriptor`, `SetCurrentFile`, `Opened`, one step for
each file operation, and an edit through `LogEdit`, `SyncEdit`, `ApplyEdit`,
each of which may fail (`TableError`, `EditError`, `WriteSyncFails`).
`ProcessStops` keeps all files, `MachineStops` loses any unsynced end of a log
and the unsynced record of the descriptor. `DeleteObsoleteFiles` is part of
each step after which the code calls it. Sequence numbers stand for writes.

**WriteQueue.** An action is what runs between taking `mutex_` and giving it
up. `queue` is `writers_`, `call` holds where each caller is, what the log and
the memtable have of its write (`mark`, `inMem`) and its answer; `asleep` are
those blocked on a condition variable, woken only by the signals in the code
(`Roused`). `MakeRoom` is the loop of `MakeRoomForWrite`, `Groups` is
`BuildBatchGroup`, `AtManual` the loop of `TEST_CompactRange`; `ThreadStarts`,
`FlushEnds`, `FlushWhileMerging`, `MergeEnds` and `ManualMergeEnds` are the
background thread. `crashed` says that the thread used `manual_compaction_`
after another caller had cleared it.

**LogFormat.** Bytes have offsets and no values: `chunks` are the physical
records, and a reader recognises one at its offset when none of its bytes is
lost or damaged. `AddRecord`, `EmitPhysicalRecord` (which may append only some
bytes), `Crash`, `Damage`, `Refill`, `ReadFragment`, `DropBlock`.

**LRUCache.** One shard with its two lists, hash table and counts, operations
as functions on the whole cache (`Ref`, `Unref`, `FinishErase`, `EraseKey`,
`Evictions` of the loops in `Insert` and `Prune`, `EvictWhileFull`), and
threads that look up, read on a miss while others do the same, insert, use and
release (`LookUp`, `InsertRead`, `ReadFails`, `ReleaseHandle`). Freed addresses
are used again; `MaxSlot` is the greatest.

**SkipList.** A node is its key. The writer links one level per step
(`StartInsert`, `LinkLevel`), a reader follows one link per step (`Seek`,
`SeekToLast`, `SeekToFirst`, `Reads`, `Follow`), as `FindGreaterOrEqual`,
`FindLessThan` and `FindLast` do. The release store and acquire load of the
code make a link's node whole; a link never set is `Junk`. A change of
`max_height_` may be seen late.

**Iterators.** `places`, `child` and `forward` are the merging iterator;
`walk` is the `DBIter` and where its call stands, one entry per step
(`FindNext`, `LeaveKey`, `FindPrev`) after the calls `DBIterSeek`,
`DBIterSeekToFirst`, `DBIterSeekToLast`, `DBIterNext` and `DBIterPrev`;
`Insert` adds to the memtable between any two steps.

**SortedTable.** `Add`, `LastFlush` and `Finish` build a table of blocks,
index and filters; `Seek`, `Next`, `Prev`, `SeekToFirst`, `SeekToLast` are the
two-level iterator over it, some of whose blocks cannot be read; `InternalGet`
is a lookup. Keys are sequences of bytes, because the shortening of index keys
and the sharing of prefixes are what is checked.

**LibraryParts** gives the last five, `Recovery`, `FacebookLogin`,
`AuthSession`, `PersistentConnection` and `Repo` their instances for TLC. They
have no variable in common and call each other only through what the modules
state, so each behaviour runs one of them. It EXTENDS the nine parts with
theorems, so that the run checks the definitions and the assumptions the
theorems are about, and instantiates `SortedTable`.
Its properties are theirs, for the part that runs; `ReaderIsTrue` and
`CacheIsSound` are the two properties each of LogFormat and LRUCache.

The operators marked *Faulty variant* are slips the properties must notice; no
specification uses them.

## Runs

| Run | Result | Checks | Bounds |
| --- | --- | --- | --- |
| `auth_signup_promise` | violated | `SignUpSuccessSignsIn` (`FIRAuth.h:575`) | 1 in flight |
| `auth_guest_promise` | violated | `AnonymousUserIsReturned` (`FIRAuth.h:515`) | 2 in flight |
| `app_core` | holds | `StackDiscipline`, `FormMatchesButton`, `GuestSeesMenu`, `LeavingMenuSignsOut`, `MenuNeedsSession`, `MenuEndsSignIns` | 5 requests, 2 in flight, 2 homes |
| `app_live` | holds | `SessionReachesMenu`, `EveryRequestEnds` under `FairAppSpec` | 5 requests of all kinds, 1 in flight, 2 homes |
| `app_asbuilt` | violated | `MenuRenders` | `ExtraCells = {}` |
| `levels_core` | holds | `IteratorsAgree`, `EntriesNeverHop`, `LevelsDisjoint`, `KeepsStore` (refinement) | 2 keys, 4 levels, 3 writes, 1 snapshot |
| `levels_boundary` | violated | `EntriesNeverHop` (`version_set.cc:346`) | as above, outputs cut inside a key |
| `levels_overlap` | violated | `LevelsDisjoint` (`version_set.cc:764`) | 3 keys, 4 writes |
| `write_queue` | holds | `AnswersAreTrue`, `OneLeader`, `OnlyErrorsCancel`, `EveryWaitEnds` under `FairQueueSpec` | 3 callers, level 0 slow at 1 and stopped at 2 |
| `library_parts` | holds | `RestartFindsAll`, `SyncedSurvive`, `ReadsComplete`, `FilesPresent`, `NumbersFresh`, `OpenSucceeds` (Recovery); `ReaderIsTrue` (LogFormat); `CacheIsSound` (LRUCache); `SearchesMissNothing` (SkipList); `IteratorShowsSnapshot`; `TableWalksAreTrue`, `LookupsAgree` (SortedTable); `OwnAnswer`, `ButtonNeverDead` (FacebookLogin); `SessionIsDurable`, `SignedOutIsForgotten`, `LatestReportIsCurrent`, `HandlerCalledOnce`, `KeepsPromise` (AuthSession, refinement of DurableSession); `NeverStranded`, `KeepsLink` (PersistentConnection, refinement of ServerLink); `WritesEndOnce`, `TransactionsApplyOnce`, `AcksAreFinal` (Repo) | below |
| `db_newdb` | violated | `OpenSucceeds` (`db_impl.cc:277`) | 1 write, 1 stop |
| `database_lost_transaction` | violated | `TransactionsEnd` (`FIRDatabaseReference.h:641`) | 1 transaction, 4 puts and transactions, 1 listen |

Bounds of the app. `MaxInFlight` bounds the sign-ins under way at one time:
every hazard of the engine is between two requests, and three leave one to
interfere with both. Names of requests come back once nobody holds the user
they stand for, so that the number of sign-ins in a behaviour is not bounded.
`MaxHomes` bounds the logouts of one launch: with two homes the screens of the
session before are still on the stack and still receive answers. `Email` is
empty in `app_core` because an email log-in and a sign-up differ there only in
the form that is shown; `app_live` has both.

What the properties of the app permit, because the code does it and no document
of the repository speaks of it:

* Two sign-ins of one login screen under way together push its menu twice, and
  UIKit raises. `MenuEndsSignIns` says where such a second push can come from:
  not from a sign-in begun when the menu was there already, so only from one
  that was under way beside the first.
* An answer of the login screen that comes after the user has gone back signs
  the user in on the home screen. `StackDiscipline` says that nothing is pushed
  for the screen that has gone; `GuestSeesMenu` speaks of guests only.
* A sign-in in flight during a logout signs a user in behind the new home
  screen. `MenuNeedsSession` and `DurableSession` leave room for it.
* A launch that cannot read the keychain has nobody to sign out, and a later one
  brings the user back: `SignedOutIsForgotten` speaks of launches that could.

Bounds of the store. Two keys and three writes make every relation of two
entries of one key with an entry of another; four levels leave room for a
flush to go below level 0, a merge under it and a level no file has reached;
one snapshot separates entries that may be dropped from those that may not.
`levels_core` takes two preconditions, which are the findings below:
`CutInsideKey = FALSE`, no output ends between two entries of one key, and
`ManualLate`, `CompactRange` comes after the writes, with no snapshot and no
deletion. Merges chosen by the thread itself are not restricted. In
`write_queue` the limits are as small as their order allows, so that delay,
stall and switch all occur with three callers; every pair of kinds of calls
meets. `OnlyErrorsCancel` permits the thread to use a cleared
`manual_compaction_` after a background error, as the code does, and only then.

Bounds of `library_parts`: Recovery with two writes, two stops, one file
error, one reader and file numbers up to 8 for compactions: enough for a crash
during the recovery from a crash. LogFormat with blocks of 6 bytes, headers of
2, and three records of 0, 3 and 8 bytes, so that records end in a trailer,
fill a block and span three, with one fault besides the crash. LRUCache with
three threads, two keys, five addresses and capacity 2: an entry can be
replaced while two others hold it. SkipList with three keys, three levels and
one reader; readers do not disturb each other. Iterators with two children,
two keys, three entries and one that comes later. SortedTable with four user
keys, two numbers, three entries and blocks of one or more. FacebookLogin with
two buttons and three attempts: one that is late, one of the other button, one
of a fallback to the browser. AuthSession with two guests, one sign-up, one
email, one Facebook and one Google request, three in flight. PersistentConnection
with three token fetches, so that two late callbacks meet the latest one, and
two credentials at the server, the first of the socket and a refresh. Repo
with two transactions, four puts and transactions in all, two runs of a
transaction and one listen: a transaction sent and lost, one that waits for
it, and a set or a purge in between. Every part is explored completely.

Findings:

* `createUser` (and `signInAnonymously`) reports success without a user when
  `getAccountInfo` fails, after signing out whoever was signed in
  (`FIRAuth.m:956`, `901`).
* Two guest sign-ins in flight replace one anonymous user by another
  (`FIRAuth.m:876`).
* The menu dequeues a cell identifier nobody registered
  (`MenuCollectionVC.swift:61`).
* A compaction may end an output file between two entries of one key; a later
  one takes the file with the newer entry down and leaves the older one above
  it, against "entries never hop across levels" (`db_impl.cc:931`,
  `version_set.cc:346`).
* A flush in the middle of a compaction may put its table on the level, and
  into the range, to which the outputs are going (`db_impl.cc:922`,
  `version_set.cc:764`).
* A new store's first descriptor is not synced before `CURRENT` names it: a
  machine that stops there may leave a store that can be neither opened nor
  created again (`db_impl.cc:192`).
* A transaction that is sent, overridden by a set and then by a purge or
  another set is dropped from the queue while its put is still under way; its
  completion block may never be called (`FRepo.m:1102`).

`WritesEndOnce` leaves out one case that does go wrong: when a purge comes
while answers are held for a listen, `FRepo` has removed all writes before the
connection acks the held ones, and `FWriteTree` raises (`FRepo.m:370`,
`FPersistentConnection.m:882`, `FWriteTree.m:125`). No document speaks of it.

## Fairness

`FairAppSpec`: weak fairness of the run loop (`Appears`, `DeliverReport`), of
each request's progress and of the answer of the Facebook graph request.
Serial queues run their blocks, and every server call is answered or times
out; the user, sign-outs, the SDK sheets and relaunches are not fair. A
relaunch may come at any time, so `SessionReachesMenu` is conditional on
relaunches ending.

`FairQueueSpec`: weak fairness of each caller that can go on, and of the steps
of the background thread, its work included: threads run, files are written or
fail. New calls and errors are not fair. Spurious wake-ups are left out, so a
wait ends only by a signal the code sends; that makes `EveryWaitEnds` harder
to satisfy. It speaks of writers and of closing. A `CompactRange` may wait for
ever while writers keep the thread busy, and nothing in the code bounds that
wait.

The other modules are about safety and assume no fairness.

## Proofs

All theorems hold for every value of the constants, from named assumptions
only: the kinds of requests are disjoint (`KindsAssumption`), `None` and
`Failed` are not requests (`NamesAssumption`), `MaxHomes` is a positive number
(`HomesAssumption`), `None` is no caller and the limits are numbers
(`QueueAssumption`), the list has a natural number of keys and at least one
level (`ListAssumption`), the number of writes in a behaviour is a number
(`FilesAssumption`), and a launch's manager is none of the buttons' and no
manager is `nil` (`LoginAssumption`), the threads of the cache are finitely
many, its capacity and charges numbers, and `Null` is no key, address or entry
(`CacheAssumption`), a block of the log holds a header and a byte at least
(`LogAssumption`; 32768 and 7 bytes in the code), an iterator merges one
child at least (`IteratorAssumption`; the memtable), and the calls of
`runTransactionBlock:` in a behaviour are finitely many and no numbers, which
sets are known by (`RepoAssumption`), and the levels, keys and limits of the
store are numbers as in the code (`LevelsAssumption`), as are the ranges
`CompactRange` is called with (`RangesAssumption`). The proofs about the connection need
none. Each inductive invariant was an invariant of a TLC run before it was
proved.

`PoolsAppProofs`, of AuthSession and PoolsApp

* `TypeCorrect`; `SessionDurable` and `SignOutForgets` from the inductive
  conjunction `Coherent` of both: neither is inductive alone, since the
  keychain write is skipped for the object that is already current.
* `CalledOnce`: at most one handler per request, and only in phase `reported`.
* `ErrorsKeepSession`: an action property (`FailureKeepsSession`) from `TypeOK`;
  no run repeats it, nor the types (`TypeOK`, `AppTypeOK`).
* `ReportsFollowSession`: by cases on what a report appends.
* `PromiseKept`: the refinement. Each step ends a pending request, signs out,
  restarts, or is invisible; the session must be durable for the restart to
  map, and handlers single for `Deliver` to be invisible.
* `AppUsesAuth`: every step of the app is a step of the engine or leaves it
  alone. The engine's theorems carry over (`AppSessionDurable`,
  `AppPromiseKept`).
* `StackIsDisciplined` from `StackInv`, which adds that every home on the
  stack is among those counted: only so is the home that a logout pushes a new
  one. A push is handled once, by `PushKeepsStackInv` with `MayPush`.
* `AppTypeCorrect`, using that back never pops the root.
* `FormIsTheOneAsked` from `FormInv`, which extends the property to a login
  screen that is still appearing.
* `NoGuestBehindHome` from `GuestAnswerDue`: when a guest is signed in behind a
  home screen that has appeared, a handler of a guest's sign-in that succeeded
  is in the main queue. A home screen that appears while anyone is signed in
  opens a menu itself.
* `MenusNeedSessions`: an action property from `SignedOutSince`. While nobody is
  signed in, each user that a waiting handler names was signed out by a handler
  behind it in the queue, or by a logout, which made a home newer than the one
  the sign-in came from (`OriginsMade`).
* `OnePushForOneSignIn` from `MenuStillToCome`: a login screen under which a
  sign-in is under way has no menu above it. It assumes of the behaviour that no
  login screen ever has two sign-ins under way (`OneSignInPerScreen`), which the
  code does not guarantee; no run checks the conclusion alone.
* `SignInsEndWithTheMenu`: an action property from `StackInv`. A login screen
  with its menu on the stack is not on top (`LoginOnTopHasNoMenu`), so no tap of
  its own starts a sign-in; its Facebook sheet, and a graph request, only go on
  with what was under way.

`LevelsProofs`

* `DataInvariant`: `DataInv` is inductive as long as the files of each level
  below level 0 share no user key (`KeysApart`). Memory is newer than the
  files, and every write has its own number (`SeqInv`); files of level 0 are
  newer in the order of their numbers, and where a key lies on two levels the
  upper one is newer (`FilesInv`). `WorkOK` is what the thread may rely on when
  its merge ends although it has run without the mutex: its inputs are still
  there, what was flushed beside it is newer or of other keys, no snapshot is
  older than the one it drops entries for, and a key it took to be nowhere
  below its outputs still is not. `KeysApart` is a hypothesis because the code
  does not guarantee it: that is what `levels_boundary` and `levels_overlap`
  show, and with it neither failure is possible.
* `SurvivorsKeepValues` is what a merge rests on: the entries it drops change
  no value at or after its smallest snapshot, also of keys that have entries
  beside it. `WideningSettles` and `SetupIs` are the loops that choose the
  inputs: a fixed point of `GetOverlappingInputs` is reached, and what is left
  on the two levels shares no key with the inputs.
* `EntriesStayAbove`, `LookupsShowAll` and `ImplementsStore` follow:
  `EntriesNeverHop`, `IteratorsAgree`, and the refinement of `KVStore`, for any
  number of keys, levels, writes, snapshots and files. Each step keeps the
  value that every reader sees, or is the write or the snapshot it says it is
  (`StoreSteps`).
* `PlainInvariant` discharges `KeysApart` for a store in plain use
  (`PlainUse`): without `CompactRange`, and without snapshots unless an output
  never ends inside a key. That is how the tree uses leveldb: the wrapper of
  the database client (`Wrap-leveldb/APLevelDB.mm`) calls neither
  `CompactRange` nor `GetSnapshot`. Without snapshots a merge keeps one entry
  of a key, so that an output cannot end inside it; and the inputs that the
  thread chooses leave no key between them out (`Whole`, `NoGap`), so that a
  flush beside the merge that would lie in the range of its outputs meets an
  input and goes above. `PlainLevelsDisjoint`, `PlainEntriesStayAbove`,
  `PlainLookupsShowAll` and `PlainImplementsStore` have no other hypothesis.

`WritePathProofs`, of WriteQueue and LogFormat

* `WriteInvariant`: `WriteInv` is inductive. None of the properties is: that
  an answer is true needs that a caller stands in the queue exactly while its
  write is under way (`Lined`), that nothing of a queued write is logged yet
  (`Unwritten`), and that the group of a leader that does not sync holds no
  sync write (`GroupSound`). That only errors cancel needs to know whose
  manual compaction the thread is in (`ThreadInv`).
* `QueueTypes`, `EveryAnswerIsTrue`, `OneLeaderOnly`, `CancelNeedsError`
  follow.
* `LogInvariant`: `LogInv` is inductive. The fragments of a record follow each
  other (`PartsOK`, `WritingOK`) and do not overlap (`LayoutOK`); up to the
  first short write each is in one block, the first byte of which is that of a
  fragment (`AlignOK`). Every sound fragment from the reader's place on in the
  block at hand begins where a chain of fragments from there leads to, and
  every safe record was read, is in `scratch` or is ahead (`ReachOK`): what
  cannot be read drops the rest of its block, and no safe record has a fragment
  there; the first byte of the next block is that of a fragment again. What the reader holds is a beginning of one record, and what comes
  next is that record's next fragment or a trailer (`ReaderOK`).
* `ReaderIsRight`: `ReaderIsTrue`, both that safe records are read and that
  none is made up, for any sizes of blocks, headers and records, any number of
  records, cuts and bad bytes. At the end of the file nothing is ahead, and
  a record in `scratch` that is safe would have a fragment ahead.

`ReadPathProofs`, of SkipList and Iterators

* `ListInvariant`: in the middle of an `Insert` the node is linked at exactly
  the levels below `insert.level`; each level is sorted and contains those
  above it; a search stands on a node of its level, before its target.
* `NoSearchMisses`: a search misses no key that was in the list when it began,
  since every turn of the loop keeps those keys ahead of the search or behind
  its target. `ListTypes`, `LevelsAlwaysNest` and `JunkIsNeverRead` follow
  too.
* `IterInvariant`: `IterInv` is inductive. `MergeOK` says that the children
  stand where the entries they have still to go to are those from the current
  one on (`Ahead`) or, going back, up to it (`Behind`), as far as the snapshot
  sees them: an insert may put an entry between a child and its next one, but
  only one that the snapshot does not see. A change of direction is right
  because it moves every other child to the other side of the current key.
  `WalkOK` says what is still to be found: going forward, keys up to `skip` are
  done with; going back, `saved` is the newest entry of its key so far, and
  the walk may stop only at an entry of another key.
* `IteratorIsRight`: the key and entry shown are those an iterator over the map
  of the snapshot would show after the same calls, for any number of children,
  keys, entries and inserts.

`DatabaseProofs`, of PersistentConnection and Repo

* `ConnInvariant`: `ConnInv` is inductive. It is the types, `NeverStranded` and
  `RestoresOnce`: a connection not ready for writes has restored nothing, only
  the first credential of a socket carries the flag that restores, and it is
  at the head exactly while the connection is authenticating. The refinement
  needs the last, `NeverStranded` only the first two.
* `ConnectionNeverStranded` follows, and `ConnectionKeepsLink` by `LinkSteps`:
  each step is a step of `ServerLink` or invisible.
* `RepoInvariant`: `RepoInv` is inductive. A handler of Repo is a chain of
  operators on `w` in the middle of which answers are at hand that were removed
  from the puts and whose callbacks are still to come; so the invariant is a
  predicate `Sound(v, c)` on the writes and a context `c`: the answers at hand,
  whether writes are sent, whether a purge is under way, and the server. It
  says that puts and answers share no transaction (`Apart`); that a set is in
  `FWriteTree` and its block not called exactly while its put or its answer is
  there (`SetsSound`), and a transaction as its status says (`TxSound`); that
  what is sent is one put, in front of the queue (`SentTogether`,
  `SentInFront`, by `OrdersSound`), without which the count in
  `abortTransactionsAtNode:` would remove the wrong ones; that the wire
  carries the puts once, in their order, all of them while the link is up
  (`WireSound`); and what the server has taken or cannot have seen
  (`Delivered`, `Unseen`, `Final`). Each operator has a lemma on the fields it
  changes (`AckIs` to `AbortIs`) and one that it leaves the writes sound in the
  next context. Between two handlers the answers at hand are those held, and
  nothing in the queue is to be aborted (`Good`, `Clean`).
* An ack that `FWriteTree` refuses raises, so `PurgeStep` shows of a purge that
  it leaves Good writes or raises, and that it raises only while answers are
  held; no other handler raises.
* `SetsEndOnce`, `ServerTakesOnce` and `SuccessIsFinal` follow: `WritesEndOnce`,
  `TransactionsApplyOnce` and `AcksAreFinal` for any number of calls, retries,
  listens, purges and lost connections.
* The callbacks of a sequence of answers are a recursive function, treated as
  the loops of LRUCache below (`CallsExist`, `CallbacksAre`); that a sorted
  list of keys has each once, and ascends, is `AscendingLists`.

`FacebookLoginProofs`

* `LoginInvariant`: every handler is an operator on the record `s`, so the
  invariant is a predicate on records (`Sound`), with one lemma for each
  operator; most of them follow from `KeptIsSound`, which says what a step that
  makes no attempt must leave alone. `OwnAnswer` alone is not inductive: the
  handler that is called is the one of the moment, and it is the right one
  because the challenge, the pending URL and the handler belong to one manager
  whenever the challenge is set (`Expected`), also for the answers that wait
  for the user's ID; a launch's manager has no handler to call.
* In the middle of `OpeningEnds` a manager has lost its openURL and is not yet
  idle: `Sound` takes the manager that is excepted, `nil` between steps.
* `AnswersAreOwn` and `ButtonsComeBack` follow, for any number of managers and
  taps.

`RecoveryProofs`

* `FilesInvariant`: `FilesInv` is inductive. What a restart finds depends on
  the state the descriptor comes back with, of which there are two while a
  record of it is not synced (`Says`). For each of them `DescsSound` says that
  its tables are whole, that its numbers are above what it names, and that its
  tables and logs hold what was promised to survive. `Replayed` and `Begun` are
  the store being opened: what was read and what is still to be read make up
  what the disk says, and the new log and descriptor are there before CURRENT
  names them. `Running` is the open store: tables in use are whole and those
  being written are pending (`TablesSound`), numbers are fresh (`Numbered`),
  the memtables are in the logs and nothing that was flushed is needed from
  them (`Stored`), descriptor and version differ by the edit under way only
  (`Described`), and the edit adds what it takes away (`EditSound`).
* `NoWriteIsLost`, `SyncedWritesSurvive`, `NoReadMisses`, `NeededTablesStay`
  and `NumbersStayFresh` follow, for any number of writes, readers, files,
  stops and errors. `OpeningSucceeds` assumes `StopWhileCreating = FALSE`, the
  one value for which it is true: the run `db_newdb` shows the other.

`LRUCacheProofs`

* `CacheInvariant`: every operation is a function of the cache, so the
  invariant is a predicate (`Sound`) on a cache and the number of handles held
  to each of its entries, with one lemma for each operation. `Insert` and
  `Erase` take an entry out of the table before `FinishErase` takes it out of
  the lists: `SoundBut` takes the one entry that the table does not find,
  `Null` between operations. Most lemmas follow from `SoundAfter`, which says
  what must be true of the one entry an operation touches.
* `CacheStaysSound`: a handle in use is of an entry that is there, of the key
  its thread looked up, because its thread is counted (`UsingIsHeld`) and no
  operation takes an entry with handles for another key (`Keeps`); lists,
  counts, table and `usage_` agree.
* The loops that evict, and the sum of the charges, are recursive functions.
  That there is such a function, and what holds of it after n turns, is shown
  from the least number for which it would fail (`Induction`, `TurnsExist`,
  `EvictionsSound`); so is that the loop of `Insert` stops.

Only model-checked:

* The liveness properties of the app and of the write queue, which are out of
  the prover's reach.
* Levels with `CompactRange` or with outputs cut inside a key while there are
  snapshots: no theorem says when the files of a level then stay apart, and in
  general they do not (`levels_overlap`, `levels_boundary`). `levels_core` has
  a late `CompactRange`.
* `TableWalksAreTrue` and `LookupsAgree`: SortedTable has recursive operators.
* The seven disagreements.

## Assumptions and what is left out

App and sign-in:

* A touch on a button reaches the method it names, and a screen handles one
  touch per event.
* A kill between the keychain write and the assignment of `_currentUser` is a
  kill after the block: memory is gone in both cases.
* Deallocated screens: the model keeps `Login(i)` for ever, as its home does.
* The Facebook token does not expire by itself; the Facebook and Google sheets
  end with success or without, at any time.
* Fields are taken to pass the checks of the form.
* Facebook: the server configuration does not change in a behaviour; iOS 11 or
  later; permissions, profiles, system accounts and the web dialogue are left
  out. `OwnAnswer` does not speak of tokens that replace another one, which
  the code checks by the user's ID.

Database client:

* Handlers run one at a time, on the queue all of them are dispatched to.
* The server answers the requests of one connection in their order, and takes
  or refuses puts in it; nothing of an old socket arrives on a new one, since
  its callbacks are forgotten (`requestCBHash`).
* Delays, statistics, keep-alives, the host cache, values and hashes, merges,
  onDisconnect operations and persistence are left out; all sets and
  transactions are at one path.
* A refused put of a transaction is `datastale` or `denied`; a block that is
  run again goes on or aborts, as it likes.
* Hazards met here that no property covers: the operations queued with
  `requestCBHash` at a disconnect never hear an answer
  (`FPersistentConnection.m:326`); a forced token refresh is forgotten when
  the retry is scheduled again (394); a token fetched before a refresh
  replaces the refreshed one (434); after the first pass of
  `rerunTransactionQueue` events are added to nil (`FRepo.m:933`).

leveldb:

* Creating, renaming and deleting files survives a stop of the machine in the
  order it was done; what was synced stays.
* A batch is one entry; a value is the number of its write. Checksums find
  every damaged or missing byte.
* `reuse_logs` (off by default), errors while opening, `DestroyDB`, the lock
  file, readers of a log that start in its middle, read samples, compression
  and the bits of bloom filters are left out.
* A write whose log record was appended in part leaves no background error,
  and records after it may be unreadable; `ReaderIsTrue` speaks of
  records before it, and Recovery keeps such writes out.

## Not modelled

* **Login form**: its checks are guards on constants, its alerts and dialogue
  UIKit; what a submit does afterwards is PoolsApp's `SubmitForm`.
* **Token refresh**: nothing in the app turns auto refresh on, since it never
  opens the Firebase database.
* **leveldb repair**: called by hand only, and it promises no more than as
  much of the contents as possible.
* **leveldb environment, C binding, tools**: the modules state what they
  expect of files, threads and locks.
* **Sync tree, views, persistence and snapshots of the database**: functions
  on trees of values, whose results reach Repo as events or their absence.
* **nanopb**, a coder of bytes without state between calls, and
  **GTMSessionFetcher, Bolts, FBSDKCoreKit**, which the modules above see as
  an answer, an error or a URL.
* **Binary frameworks** (Google sign-in, ads, analytics, Crashlytics): the
  tree has their headers only.
* Of the C, C++ and header lines of the tree (about 58,600) leveldb's are
  about 16,000; most others are declarations. What the modules map is
  therefore a small share of the whole, although it covers the code of the
  tree in which concurrency, crashes or formats decide what is correct.
* **Details screen, cells, designable views, layout**: no state of their own.

## Plan

1. Done: the app and its engine, Facebook's login, the database's connection
   and writes, the parts of leveldb above, their runs and the proofs above.
2. `TokenRefresh`: access token, the serial task queue with its suspend and
   resume, the timer with back-off, foreground and background, composed with
   sign-out and sign-in.
3. Repair after a `Recovery` that lost its descriptor; batches of several
   entries across `WriteQueue`, `LogFormat` and `Recovery`; several paths and
   onDisconnect operations in `Repo`.

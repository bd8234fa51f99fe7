---------------------------- MODULE LibraryParts ----------------------------
(***************************************************************************)
(* TLC instances of the parts under leveldb's DBImpl, of Facebook's login, *)
(* of FIRAuth and of Firebase's database: a behaviour runs the part named  *)
(* by `part` and leaves the others alone.  Each part has its own module;   *)
(* none refers to another's variables, so nothing is lost by not running   *)
(* two of them in one behaviour.  The parts with theorems are extended, so *)
(* that their properties are checked as they are proved; their constants   *)
(* are in the cfg.                                                         *)
(***************************************************************************)
EXTENDS Recovery, LogFormat, LRUCache, SkipList, Iterators,
        FacebookLogin, AuthSession, PersistentConnection, Repo

CONSTANTS
    r1              \* a reader of the list

VARIABLES
    part,
    dataBlock, blocks, index, pending, offset, filters, filterKeys, built, bad, iter, want

\* 3 is the greatest byte; a user key that begins another, and one of that byte only.
Table == INSTANCE SortedTable WITH
    UserKeys <- {<<1>>, <<1, 3>>, <<2>>, <<3, 3>>}, MaxByte <- 3, MaxSeq <- 2,
    MaxEntries <- 3, RestartInterval <- 2, FilterBase <- 2, BlockSizes <- {1, 3}, phase <- built

NoIterators ==
    /\ data = <<>> /\ snapshot = 0 /\ places = <<>> /\ child = 0 /\ forward = TRUE
    /\ walk = Ready /\ wanted = 0

StoreParts  == {"files", "log", "cache", "list", "iterators", "table"}
ClientParts == {"facebook", "auth", "connection", "database"}

PartsInit ==
    /\ part \in StoreParts \cup ClientParts
    /\ FilesInit /\ LogInit /\ CacheInit /\ ListInit /\ Table!TableInit
    /\ Init /\ ConnInit /\ RepoInit
    /\ IF part = "iterators" THEN IterInit ELSE NoIterators
    /\ FbInit /\ (part # "facebook" => s.uses.first = "session")

tableVars ==
    <<dataBlock, blocks, index, pending, offset, filters, filterKeys, built,
      bad, iter, want>>

storeVars == <<filesVars, logVars, cacheVars, listVars, iterVars, tableVars>>
clientVars == <<fbVars, authVars, connVars, repoVars>>

\* The parts that rest are named first: TLC then copies them once for all the
\* steps of the part that runs.
StoreNext ==
    \/ /\ part = "files" /\ UNCHANGED <<logVars, cacheVars, listVars, iterVars, tableVars>>
       /\ FilesNext
    \/ /\ part = "log" /\ UNCHANGED <<filesVars, cacheVars, listVars, iterVars, tableVars>>
       /\ LogNext
    \/ /\ part = "cache" /\ UNCHANGED <<filesVars, logVars, listVars, iterVars, tableVars>>
       /\ CacheNext
    \/ /\ part = "list" /\ UNCHANGED <<filesVars, logVars, cacheVars, iterVars, tableVars>>
       /\ ListNext
    \/ /\ part = "iterators" /\ UNCHANGED <<filesVars, logVars, cacheVars, listVars, tableVars>>
       /\ IterNext
    \/ /\ part = "table" /\ UNCHANGED <<filesVars, logVars, cacheVars, listVars, iterVars>>
       /\ Table!TableNext

ClientNext ==
    \/ /\ part = "facebook" /\ UNCHANGED <<authVars, connVars, repoVars>>
       /\ FbNext
    \/ /\ part = "auth" /\ UNCHANGED <<fbVars, connVars, repoVars>>
       /\ Next
    \/ /\ part = "connection" /\ UNCHANGED <<fbVars, authVars, repoVars>>
       /\ ConnNext
    \/ /\ part = "database" /\ UNCHANGED <<fbVars, authVars, connVars>>
       /\ RepoNext

PartsNext ==
    /\ UNCHANGED part
    /\ \/ part \in StoreParts /\ UNCHANGED clientVars /\ StoreNext
       \/ part \in ClientParts /\ UNCHANGED storeVars /\ ClientNext

partsVars == <<part, storeVars, clientVars>>

PartsSpec == PartsInit /\ [][PartsNext]_partsVars

-----------------------------------------------------------------------------
(* The instances' properties under their own names; those of the modules     *)
(* extended are there already.                                               *)

\* SortedTable: a walk shows what was added, and says when it left something out.
TableWalksAreTrue == part = "table" => Table!TableWalksAreTrue

\* SortedTable: a lookup finds the entry in the one block it looks at.
LookupsAgree == part = "table" => Table!LookupsAgree
=============================================================================

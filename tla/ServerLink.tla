----------------------------- MODULE ServerLink -----------------------------
(***************************************************************************)
(* What FRepo relies on: the connection as its writes and listens see it.  *)
(* Listens are sent while the link is not down, writes while it is up, and *)
(* each connection restores the state once, when it comes up.              *)
(***************************************************************************)
EXTENDS Naturals

VARIABLES
    link,           \* down; authorizing: -connected; up: -canSendWrites as well
    linkRestores    \* calls of restoreState on this connection

linkVars == <<link, linkRestores>>

LinkInit == link = "down" /\ linkRestores = 0

Authorize == link = "down" /\ link' = "authorizing" /\ UNCHANGED linkRestores

ComeUp == link # "up" /\ link' = "up" /\ linkRestores' = 1

GoDown == link # "down" /\ link' = "down" /\ linkRestores' = 0

LinkNext == Authorize \/ ComeUp \/ GoDown

LinkSpec == LinkInit /\ [][LinkNext]_linkVars
=============================================================================

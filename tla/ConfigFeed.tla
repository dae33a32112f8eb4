------------------------------- MODULE ConfigFeed -------------------------------
(***************************************************************************)
(* What a configuration provider promises its host, without maps, caches   *)
(* or watchers: for every URL the host runs with bodies that URL has       *)
(* served, and a polled URL is caught up with unless the host gives up.    *)
(***************************************************************************)
EXTENDS Naturals

CONSTANTS Urls, Polled, MaxVersion, Sha256, None,
          InOrder    \* TRUE if the host never goes back to an older body
                     \* and, once it has given up, never tries again

VARIABLES served,    \* served[u]: the version the server of u answers with
          running,   \* running[u]: the version of u the host runs with
          halted     \* TRUE while the host is not owed anything

feedVars == <<served, running, halted>>

FeedInit ==
    /\ served = [u \in Urls |-> 1]
    /\ running = [u \in Urls |-> None]
    /\ halted = FALSE

FeedPublish(u) ==
    /\ served[u] < MaxVersion
    /\ served' = [served EXCEPT ![u] = @ + 1]
    /\ UNCHANGED <<running, halted>>

(* The host switches to a body that u serves or has served.                *)
Adopt(u, v) ==
    /\ v <= served[u]
    /\ InOrder /\ running[u] # None => running[u] <= v
    /\ running' = [running EXCEPT ![u] = v]
    /\ UNCHANGED <<served, halted>>

Halt ==
    /\ ~halted
    /\ halted' = TRUE
    /\ UNCHANGED <<served, running>>

Resume ==
    /\ halted
    /\ ~InOrder
    /\ halted' = FALSE
    /\ UNCHANGED <<served, running>>

UpToDate(u) == running[u] # None /\ Sha256[running[u]] = Sha256[served[u]]

CatchUp(u) == ~halted /\ ~UpToDate(u) /\ Adopt(u, served[u])

FeedNext ==
    \/ \E u \in Urls : FeedPublish(u) \/ \E v \in 1 .. MaxVersion : Adopt(u, v)
    \/ Halt
    \/ Resume

FeedSafety == FeedInit /\ [][FeedNext]_feedVars

FeedSpec == FeedSafety /\ \A u \in Polled : WF_feedVars(CatchUp(u))
================================================================================

--------------------------- MODULE LatestRefresh ---------------------------
(***************************************************************************)
(* What the refreshes of one pipeline promise, without rows, leases, claim *)
(* numbers or candidates: a newer refresh takes the place of the open one, *)
(* at most one worker builds it at a time, and what is served is only ever *)
(* replaced by the newest refresh, while it is open and by the worker that *)
(* holds it.  RefreshRun is checked and proved to implement it.            *)
(***************************************************************************)
EXTENDS Naturals

CONSTANT Workers

VARIABLES newest,     \* how many refreshes were asked for
          open,       \* the newest one is neither published nor given up
          holders,    \* the workers that may publish it
          published   \* the refresh that is served, 0 before the first

latestVars == <<newest, open, holders, published>>

Init == newest = 0 /\ open = FALSE /\ holders = {} /\ published = 0

(* The refresh that was open, held or not, is superseded. *)
Offer == /\ newest' = newest + 1
         /\ open' = TRUE
         /\ holders' = {}
         /\ UNCHANGED published

(* Only a refresh nobody holds can be taken. *)
Take(w) == /\ open
           /\ holders = {}
           /\ holders' = {w}
           /\ UNCHANGED <<newest, open, published>>

(* A stalled, dead or refused worker no longer holds it. *)
Lose == /\ holders' = {}
        /\ UNCHANGED <<newest, open, published>>

(* Publishing takes the hold, and ends the refresh. *)
Publish(w) == /\ open
              /\ holders = {w}
              /\ published' = newest
              /\ open' = FALSE
              /\ holders' = {}
              /\ UNCHANGED newest

(* It is cancelled, or failed by its worker or by its producer. *)
GiveUp == /\ open
          /\ open' = FALSE
          /\ holders' = {}
          /\ UNCHANGED <<newest, published>>

Next == Lose \/ Offer \/ GiveUp \/ \E w \in Workers : Take(w) \/ Publish(w)

Spec == Init /\ [][Next]_latestVars
=============================================================================

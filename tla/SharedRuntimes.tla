--------------------------- MODULE SharedRuntimes ---------------------------
(***************************************************************************)
(* What the runtime host promises its readers, without reference counts,   *)
(* tombstones, workers or calls: a runtime is built once for a place,      *)
(* serves it until another one takes over there, is handed out only while  *)
(* it serves, and is closed once, after every reader has returned it.      *)
(* RuntimeHost is checked and proved to implement it.                      *)
(***************************************************************************)
CONSTANTS Runtimes,    \* runtimes that may be built
          Places,      \* where one serves at a time
          Readers,     \* whoever may hold one
          Nothing      \* what a reader without a runtime holds

VARIABLES life,        \* life[g]: absent, ready, serving, retired or closed
          home,        \* home[g]: the place g was built for
          held         \* held[r]: the runtime reader r works with

sharedVars == <<life, home, held>>

Init == /\ life = [g \in Runtimes |-> "absent"]
        /\ home = [g \in Runtimes |-> Nothing]
        /\ held = [r \in Readers |-> Nothing]

ServingAt(w) == {g \in Runtimes : life[g] = "serving" /\ home[g] = w}

(* Runtimes are built, each for its place: all are ready then, or none is  *)
(* ever used.                                                              *)
Build(G, at, as) ==
  /\ as \in {"ready", "closed"}
  /\ \A g \in G : life[g] = "absent"
  /\ life' = [g \in Runtimes |-> IF g \in G THEN as ELSE life[g]]
  /\ home' = [g \in Runtimes |-> IF g \in G THEN at[g] ELSE home[g]]
  /\ UNCHANGED held

(* The first runtime of a place is built and serves at once. *)
Start(g, w) ==
  /\ life[g] = "absent"
  /\ ServingAt(w) = {}
  /\ life' = [life EXCEPT ![g] = "serving"]
  /\ home' = [home EXCEPT ![g] = w]
  /\ UNCHANGED held

(* Runtimes that never served are closed. *)
Discard(G) ==
  /\ \A g \in G : life[g] = "ready"
  /\ life' = [g \in Runtimes |-> IF g \in G THEN "closed" ELSE life[g]]
  /\ UNCHANGED <<home, held>>

(* A ready runtime serves its place in the stead of the one before. *)
TakeOver(g) ==
  /\ life[g] = "ready"
  /\ life' = [h \in Runtimes |->
                IF h = g THEN "serving"
                ELSE IF h \in ServingAt(home[g]) THEN "retired" ELSE life[h]]
  /\ UNCHANGED <<home, held>>

(* A place is given up. *)
Withdraw(g) ==
  /\ life[g] = "serving"
  /\ life' = [life EXCEPT ![g] = "retired"]
  /\ UNCHANGED <<home, held>>

Take(r, g) ==
  /\ held[r] = Nothing
  /\ life[g] = "serving"
  /\ held' = [held EXCEPT ![r] = g]
  /\ UNCHANGED <<life, home>>

Return(r) ==
  /\ held[r] # Nothing
  /\ held' = [held EXCEPT ![r] = Nothing]
  /\ UNCHANGED <<life, home>>

(* Nobody works with a runtime that is closed. *)
Close(g) ==
  /\ life[g] = "retired"
  /\ \A r \in Readers : held[r] # g
  /\ life' = [life EXCEPT ![g] = "closed"]
  /\ UNCHANGED <<home, held>>

Next ==
  \/ \E G \in SUBSET Runtimes : Discard(G)
  \/ \E r \in Readers : Return(r) \/ \E g \in Runtimes : Take(r, g)
  \/ \E g \in Runtimes : TakeOver(g) \/ Withdraw(g) \/ Close(g)
  \/ \E g \in Runtimes, w \in Places : Start(g, w)
  \/ \E G \in SUBSET Runtimes, as \in {"ready", "closed"} :
       \E at \in [G -> Places] : Build(G, at, as)

Spec == Init /\ [][Next]_sharedVars
=============================================================================

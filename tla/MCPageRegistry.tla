---------------------------- MODULE MCPageRegistry ----------------------------
(* TLC instance of PageRegistry.                                            *)
EXTENDS PageRegistry, TLC

CONSTANTS t1, t2, t3

\* Two of three tabs show the same url.
TwoUrls == t1 :> "a" @@ t2 :> "a" @@ t3 :> "b"

\* What no guard and no property reads is left out, and states that differ in
\* nothing else are explored once: which tab the viewer shows or is about to
\* show, which tabs had been taken off the list before they were closed (a
\* closed tab does not open again), and, while ActiveListed holds, which
\* numbers the entries have been given: only their order tells.
Place(id) == IF id \in Ids THEN Position(id) ELSE 0

Relevant ==
  <<tabs, [i \in DOMAIN entries |-> entries[i].tab], Place(active),
    ActiveListed, frame, tracker, seen, follower, watch = None,
    [c \in Conns |-> IF conn[c].at = "starting" THEN "starting"
                     ELSE [conn[c] EXCEPT !.id = Place(@)]],
    opened, refreshes, adopted, unlisted \cap tabs>>
=============================================================================

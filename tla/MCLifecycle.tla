----------------------------- MODULE MCLifecycle -----------------------------
(* TLC instance of Lifecycle.                                               *)
EXTENDS Lifecycle, TLC

Symmetry == Permutations(Clients) \cup Permutations(Daemons)

\* Which browsers run is read by no guard, and which profile a client or the
\* manifest names is read only to kill them.  States that differ in nothing
\* else need to be explored once when no property looks at the browsers.
BrowsersAside ==
  <<pidFile, socket, IF manifest = None THEN None ELSE manifest.health, lock,
    state, syncing, inbox, at, job, retried, ran, before, orphaned>>
=============================================================================

------------------------------ MODULE PageSearch ------------------------------
(***************************************************************************)
(* The two scripts that search a page they do not control, act on it, wait *)
(* a fixed time and believe what is shown then: the k-th result of a paged *)
(* list (chooseOrdinalResult, workflow_runtime.rs) and the number a page   *)
(* keeps secret (feedback_loop_value, action_runtime.rs).                  *)
(*                                                                         *)
(* Abstractions.                                                           *)
(*  - The waits are not timed: what a click asks for may be shown before   *)
(*    or after the script's next look.                                     *)
(*  - A result is its visible text, a page of results the sequence of      *)
(*    them; the signature of a page is that sequence.                      *)
(*  - The feedback text is the set of verdicts whose words it contains.    *)
(***************************************************************************)
EXTENDS Integers, Sequences, FiniteSets, FiniteSetsExt

CONSTANTS
  Texts,        \* visible texts of results
  SitePages,    \* bound: pages of results
  PageLength,   \* bound: results on a page
  OtherLength,  \* bound: what is taken for results in place of a page
  MaxPages,     \* maxResultPages
  Calls,        \* calls of chooseOrdinalResult: [100, 250, 500]
  Numbers,      \* the numbers that can be secret
  MaxAttempts,  \* maxAttempts
  None

ASSUME SearchAssumption ==
  /\ {SitePages, PageLength, MaxPages, Calls, MaxAttempts} \subseteq Nat \ {0}
  /\ OtherLength \in Nat
  /\ Numbers \subseteq Int /\ None \notin Int

\* Halving: what one attempt less does to the range it can cover.
ASSUME PowersOfTwo == \A n \in 0 .. MaxAttempts - 1 : 2 ^ (n + 1) = 2 * 2 ^ n

VARIABLES
  search,  \* which script runs, and what it was asked for
  site,    \* the page: fixed while the script runs
  shown,   \* what the page shows
  due,     \* what it was last asked to show
  walk,    \* chooseOrdinalResult: call, pageIndex, seen, visited
  probe,   \* feedback_loop_value: low, high, tried, attempt, guess
  found,   \* the result clicked, the number reported, or None
  pc,
  late     \* history: the script looked before its click had its effect

vars == <<search, site, shown, due, walk, probe, found, pc, late>>

Verdicts == {"success", "too_high", "too_low", "wrong"}

NoWalk  == [call |-> 0, index |-> 0, seen |-> 0, visited |-> {}]
NoProbe == [low |-> 0, high |-> 0, tried |-> {}, attempt |-> 0, guess |-> 0]

-------------------------------------------------------------------------------
(* The page. *)

\* How a list labels its results (data-result): not at all, from zero through
\* all pages, or anew on each page.
Labelling == {"none", "throughout", "per page"}

\* What is found where no results are shown: an older list, or links of the
\* body; and whether there is a Next.
Others == [results : UNION {[1 .. m -> Texts] : m \in 0 .. OtherLength},
           next : BOOLEAN]

ResultSites ==
  [pages : UNION {[1 .. n -> UNION {[1 .. m -> Texts] : m \in 1 .. PageLength}]
                    : n \in 1 .. SitePages},
   labels : Labelling,
   other : Others,
   endless : BOOLEAN,  \* whether the last page has a Next, to itself
   blank : BOOLEAN]    \* whether the old results go before the new ones come

\* Words of verdicts: in the standing text, of the acceptance, and in every
\* refusal besides its own ("not quite right"); whether old messages stay,
\* and whether a refusal says in which direction the guess is wrong.
Words == {{}} \cup {{w} : w \in Verdicts}
GuessSites == [standing : Words, accepts : {{}, {"success"}}, refuses : Words,
               keeps : BOOLEAN, directs : BOOLEAN]

\* The results of the whole list, each by its page and its place there.
Places == {a \in (1 .. SitePages) \X (1 .. PageLength) :
             a[1] <= Len(site.pages) /\ a[2] <= Len(site.pages[a[1]])}

\* The number of results on the first pages of the list.
Total(upto) == Cardinality({a \in Places : a[1] <= upto})

\* Why the page refuses a number, and what it says of any.
Refusal(n) == IF ~site.directs THEN "wrong"
              ELSE IF n > search.secret THEN "too_high" ELSE "too_low"
Says(n) == IF n = search.secret THEN site.accepts ELSE {Refusal(n)} \cup site.refuses

\* The page shows what was asked of it, at any time.
Arrive == /\ pc # "done" /\ shown # due
          /\ shown' = due
          /\ UNCHANGED <<search, site, due, walk, probe, found, pc, late>>

-------------------------------------------------------------------------------
(* chooseOrdinalResult: resultOrdinal counts from 0, -1 is the last result. *)

Ordinals == -1 .. SitePages * PageLength

\* A page number of 0 is a page that shows no results yet: the script takes
\* what is there for results, and a Next for theirs.
Candidates == IF shown = 0 THEN site.other.results ELSE site.pages[shown]
HasNext    == IF shown = 0 THEN site.other.next ELSE site.endless \/ shown < Len(site.pages)

Label(n) == CASE site.labels = "none"       -> None
              [] site.labels = "throughout" -> Total(shown - 1) + n - 1
              [] site.labels = "per page"   -> n - 1

Exact == {n \in DOMAIN Candidates : search.ordinal >= 0 /\ Label(n) = search.ordinal}

Chosen ==
  IF Exact # {} THEN Min(Exact)
  ELSE IF search.ordinal = -1 THEN IF HasNext THEN 0 ELSE Len(Candidates)
  ELSE IF search.ordinal < walk.seen + Len(Candidates)
       THEN Max({0, search.ordinal - walk.seen}) + 1
  ELSE 0

Looking == pc = "look" /\ search.kind = "ordinal"

\* The script looks while what was asked for has not come.
IsLate == shown # due
\* That is no harm when the first results have not, nothing is clicked, and
\* another call will count from the beginning.
IsHarmless == due = 1 /\ walk.call < Calls

ClickResult ==
  /\ Looking /\ Candidates # <<>> /\ Chosen # 0
  /\ found' = <<shown, Chosen>> /\ pc' = "done"
  /\ late' = (late \/ IsLate)
  /\ UNCHANGED <<search, site, shown, due, walk, probe>>

NoneHere == Looking /\ (Candidates = <<>> \/ Chosen = 0)

\* Mutant of Passed: the count is not carried over to the next page.
PassedHereOnly == Len(Candidates)

\* The count of results on the pages passed.
Passed == walk.seen + Len(Candidates)

Turns == Candidates \notin walk.visited /\ HasNext

\* What a click on Next asks for: the page after the one shown, or after one
\* that is on its way.
Asked == LET further == (shown + 1 .. due + 1) \cap DOMAIN site.pages
         IN IF further # {} THEN further ELSE {due}

\* Next is clicked; the old results stay until the new ones come, or go.
TurnPage ==
  /\ NoneHere /\ Turns
  /\ walk' = [walk EXCEPT !.index = @ + 1, !.seen = Passed,
                          !.visited = @ \cup {Candidates}]
  /\ due' \in Asked
  /\ shown' = IF site.blank THEN 0 ELSE shown
  /\ pc' = IF walk.index + 1 < MaxPages THEN "look" ELSE "over"
  /\ late' = (late \/ IsLate)
  /\ UNCHANGED <<search, site, probe, found>>

BreakOff == /\ NoneHere /\ ~Turns
            /\ pc' = "over" /\ late' = (late \/ (IsLate /\ ~IsHarmless))
            /\ UNCHANGED <<search, site, shown, due, walk, probe, found>>

\* The outer loop calls again, which starts counting on the page shown now.
CallAgain ==
  /\ pc = "over" /\ search.kind = "ordinal"
  /\ IF walk.call < Calls
     THEN walk' = [NoWalk EXCEPT !.call = walk.call + 1] /\ pc' = "look"
     ELSE walk' = walk /\ pc' = "done"
  /\ UNCHANGED <<search, site, shown, due, probe, found, late>>

-------------------------------------------------------------------------------
(* feedback_loop_value. *)

Middle == (probe.low + probe.high) \div 2

Untried == (probe.low .. probe.high) \ probe.tried

Guesses == IF Middle \notin probe.tried THEN {Middle}
           ELSE IF Untried = {} THEN {} ELSE {Min(Untried)}

Guessing == pc = "guess" /\ probe.attempt < MaxAttempts /\ probe.low <= probe.high

\* The number is set and submitted.
Submit ==
  /\ Guessing
  /\ \E n \in Guesses :
       /\ probe' = [probe EXCEPT !.guess = n, !.tried = @ \cup {n},
                                 !.attempt = @ + 1]
       /\ due' = Says(n) \cup (IF site.keeps THEN due ELSE site.standing)
  /\ pc' = "read"
  /\ UNCHANGED <<search, site, shown, walk, found, late>>

GiveUp == /\ pc = "guess" /\ (Guessing => Guesses = {})
          /\ pc' = "done"
          /\ UNCHANGED <<search, site, shown, due, walk, probe, found, late>>

\* classifyFeedback: the first of these whose words the text has.
Classification ==
  CASE "success" \in shown  -> "success"
    [] "success" \notin shown /\ "too_high" \in shown -> "too_high"
    [] shown \cap {"success", "too_high"} = {} /\ "too_low" \in shown -> "too_low"
    [] OTHER -> "unknown"

\* Mutant of Narrowed: a guess that was too high stays in the range.
NarrowedToGuess ==
  CASE Classification = "too_high" -> [probe EXCEPT !.high = probe.guess]
    [] Classification = "too_low"  -> [probe EXCEPT !.low = probe.guess]
    [] OTHER -> probe

Narrowed ==
  CASE Classification = "too_high" -> [probe EXCEPT !.high = probe.guess - 1]
    [] Classification = "too_low"  -> [probe EXCEPT !.low = probe.guess + 1]
    [] OTHER -> IF probe.guess = probe.low
                THEN [probe EXCEPT !.low = @ + 1]
                ELSE [probe EXCEPT !.high = probe.guess - 1]

\* The feedback is read 180 ms after the submission.
ReadFeedback ==
  /\ pc = "read"
  /\ late' = (late \/ shown # due)
  /\ IF Classification = "success"
     THEN found' = probe.guess /\ pc' = "done" /\ UNCHANGED probe
     ELSE probe' = Narrowed /\ pc' = "guess" /\ UNCHANGED found
  /\ UNCHANGED <<search, site, shown, due, walk>>

-------------------------------------------------------------------------------

InitOrdinal ==
  /\ search \in [kind : {"ordinal"}, ordinal : Ordinals]
  /\ site \in ResultSites
  /\ due = 1 /\ shown \in {0, 1}
  /\ walk = [NoWalk EXCEPT !.call = 1]
  /\ probe = NoProbe
  /\ pc = "look"

InitFeedback ==
  /\ search \in [kind : {"feedback"}, secret : Numbers, min : Numbers, max : Numbers]
  /\ search.min < search.max
  /\ site \in GuessSites
  /\ due = site.standing /\ shown = site.standing
  /\ walk = NoWalk
  /\ probe = [NoProbe EXCEPT !.low = search.min, !.high = search.max]
  /\ pc = "guess"

Init == (InitOrdinal \/ InitFeedback) /\ found = None /\ late = FALSE

Next == \/ Arrive
        \/ ClickResult \/ TurnPage \/ BreakOff \/ CallAgain
        \/ Submit \/ ReadFeedback \/ GiveUp
        \/ pc = "done" /\ UNCHANGED vars

Spec == Init /\ [][Next]_vars

-------------------------------------------------------------------------------
(* Properties. *)

\* The results in the order of the list.
Before(a, b) == a[1] < b[1] \/ (a[1] = b[1] /\ a[2] < b[2])
Rank(a) == Cardinality({b \in Places : Before(b, a)})

Target ==
  LET asked == IF search.ordinal = -1 THEN Cardinality(Places) - 1 ELSE search.ordinal
  IN IF asked < Cardinality(Places) THEN CHOOSE a \in Places : Rank(a) = asked ELSE None

\* The lists the script counts right: the labels, if any, count the list, Next
\* ends with it, no two pages read the same, and the result is on the first
\* MaxPages pages.
Countable ==
  /\ site.labels # "per page" /\ ~site.endless
  /\ \A a, b \in DOMAIN site.pages : site.pages[a] = site.pages[b] => a = b
  /\ \/ Len(site.pages) <= MaxPages
     \/ search.ordinal \in 0 .. Total(MaxPages) - 1

\* The result clicked is the one asked for, counted over all pages, and none
\* is clicked when the list is shorter.  The first results may come as late
\* as the last call, while a page without them shows nothing that is clicked,
\* no result and no Next; not so a page that came later than the waits for
\* it, or a list that is not one the script counts right.
OrdinalIsExact ==
  search.kind = "ordinal" /\ pc = "done" /\ ~late /\ Countable => found = Target

\* The page accepts in words that are known, refuses with a direction and no
\* words of another verdict, and shows nothing older.
Plain ==
  /\ site.directs /\ ~site.keeps /\ "success" \in site.accepts
  /\ site.standing \cup site.refuses \subseteq {"wrong"}

\* A number is reported as accepted only if the page accepted it, and a page
\* that tells the direction is searched to the end within the attempts, where
\* there are enough of them for the range.  Not so when an answer came after
\* it was read, nor when the standing text or the refusals of the page have
\* words of success: classifyFeedback looks for those first, and reports the
\* number of a "not quite right".
FeedbackFindsValue ==
  search.kind = "feedback" /\ pc = "done" /\ ~late =>
    /\ found # None => \/ found = search.secret
                        \/ "success" \in site.standing \cup site.refuses
    /\ Plain /\ search.secret \in search.min .. search.max
         /\ search.max - search.min + 1 < 2 ^ MaxAttempts
         => found = search.secret
=============================================================================

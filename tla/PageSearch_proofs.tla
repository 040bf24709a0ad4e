--------------------------- MODULE PageSearch_proofs ---------------------------
(***************************************************************************)
(* Proofs about PageSearch: the search for a number by the page's answers, *)
(* for every range and number of attempts, and the search for the k-th     *)
(* result, for every list, number of pages looked at and number of calls.  *)
(***************************************************************************)
EXTENDS PageSearch, FiniteSetTheorems, SequenceTheorems,
        WellFoundedInduction, TLAPS

\* Of a search by feedback.
Types ==
  /\ search.secret \in Int /\ search.min \in Int /\ search.max \in Int
  /\ site \in GuessSites
  /\ shown \in SUBSET Verdicts /\ due \in SUBSET Verdicts
  /\ probe \in [low : Int, high : Int, tried : SUBSET Int,
                attempt : 0 .. MaxAttempts, guess : Int]
  /\ pc \in {"guess", "read", "done"}
  /\ late \in BOOLEAN
  /\ pc # "done" => found = None
  /\ pc = "read" => probe.attempt # 0

\* The page shows words of success only if the last number was accepted, or
\* where its standing text or its refusals have such words.
AcceptedByPage ==
  "success" \in due =>
    \/ "success" \in site.standing \cup site.refuses
    \/ pc = "read" /\ probe.guess = search.secret

\* A page that tells the direction, and a range the attempts can search.
Searchable ==
  /\ Plain
  /\ search.secret \in search.min .. search.max
  /\ search.max - search.min + 1 < 2 ^ MaxAttempts

Left == MaxAttempts - probe.attempt

\* The range holds the secret and nothing tried, and is small enough for the
\* attempts left.
RangeBeforeGuess ==
  /\ search.secret \in probe.low .. probe.high
  /\ probe.tried \cap (probe.low .. probe.high) = {}
  /\ probe.high - probe.low + 1 < 2 ^ Left
\* The same while an answer is awaited, the guess in its middle aside.
RangeAfterGuess ==
  /\ search.secret \in probe.low .. probe.high
  /\ probe.guess = Middle
  /\ probe.tried \cap (probe.low .. probe.high) = {probe.guess}
  /\ probe.high - probe.low + 1 < 2 ^ (Left + 1)
  /\ due = Says(probe.guess) \cup site.standing

Narrowing ==
  Searchable =>
    /\ pc = "guess" => RangeBeforeGuess
    /\ pc = "read" => RangeAfterGuess

\* The page shows what it was asked to when the script is about to guess.
IInv ==
  search.kind = "feedback" =>
    /\ Types
    /\ ~late /\ pc = "guess" => shown = due
    /\ ~late /\ pc # "done" => AcceptedByPage /\ Narrowing
    /\ FeedbackFindsValue

-------------------------------------------------------------------------------
(* Numbers.                                                                *)

\* An attempt less is half the range.
LEMMA PowerLess ==
  ASSUME NEW a \in 0 .. MaxAttempts, a < MaxAttempts
  PROVE  /\ 2 ^ (MaxAttempts - a) = 2 * 2 ^ (MaxAttempts - (a + 1))
         /\ 2 ^ (MaxAttempts - (a + 1)) \in Int
PROOF
  <1> DEFINE n == MaxAttempts - (a + 1)
  <1>1. n \in 0 .. MaxAttempts - 1 /\ MaxAttempts - a = n + 1
    BY SearchAssumption
  <1>2. 2 ^ (n + 1) = 2 * 2 ^ n
    BY <1>1, PowersOfTwo
  <1>3. 2 ^ n \in Int
    BY <1>1
  <1> QED BY <1>1, <1>2, <1>3

\* With no attempt left the last range holds one number.
LEMMA PowerZero == 2 ^ 0 = 1
PROOF OBVIOUS

\* A part of a range that is not empty has a least member, and Min is in it.
LEMMA MinInRange ==
  ASSUME NEW low \in Int, NEW high \in Int, NEW T,
         T \subseteq low .. high, T # {}
  PROVE  Min(T) \in T
PROOF
  <1> DEFINE LessThan == {p \in Nat \X Nat : p[1] < p[2]}
             Offsets == {x - low : x \in T}
  <1>1. OpToRel(<, Nat) = LessThan
    BY Zenon DEF OpToRel
  <1>2. IsWellFoundedOn(LessThan, Nat)
    BY <1>1, NatLessThanWellFounded, Zenon
  <1>3. Offsets \subseteq Nat /\ Offsets # {}
    OBVIOUS
  <1>4. PICK m \in Offsets : \A k \in Offsets : <<k, m>> \notin LessThan
    BY <1>2, <1>3, WFMin
  <1>5. ASSUME NEW k \in Offsets PROVE m <= k
    <2>1. k \in Nat /\ m \in Nat /\ <<k, m>> \notin LessThan
      BY <1>3, <1>4
    <2>2. ~(k < m)
      BY <2>1
    <2> QED BY <2>1, <2>2
  <1>6. PICK x \in T : m = x - low
    BY <1>4
  <1>7. \A y \in T : x <= y
    <2> SUFFICES ASSUME NEW y \in T PROVE x <= y
      OBVIOUS
    <2>1. m <= y - low
      BY <1>5
    <2> QED BY <1>6, <2>1
  <1> QED BY <1>6, <1>7 DEF Min

\* Each half of a range, its middle left out, is less than half as wide.
LEMMA Halves ==
  ASSUME NEW low \in Int, NEW high \in Int, NEW m \in Int, NEW w \in Int,
         low <= high, m = (low + high) \div 2, high - low + 1 < 2 * w
  PROVE  /\ m \in low .. high
         /\ (m - 1) - low + 1 < w
         /\ high - (m + 1) + 1 < w
PROOF OBVIOUS

-------------------------------------------------------------------------------
(* What the page says, and how it is read.                                 *)

\* The answer to a guess has words of the four verdicts.
LEMMA SaysVerdicts ==
  ASSUME NEW n, site \in GuessSites PROVE Says(n) \subseteq Verdicts
PROOF BY DEF Says, Refusal, Verdicts, GuessSites, Words

\* An answer read in time, on a page that accepts and refuses in plain words
\* and says in which direction a guess is wrong, is what the page said.
LEMMA ReadAsSaid ==
  ASSUME NEW n \in Int, search.secret \in Int, site \in GuessSites, Plain,
         shown = Says(n) \cup site.standing
  PROVE  Classification = IF n = search.secret THEN "success" ELSE Refusal(n)
PROOF
  <1>1. site.standing \cup site.refuses \subseteq {"wrong"} /\ site.directs
        /\ "success" \in site.accepts
    BY DEF Plain
  <1>2. CASE n = search.secret
    <2>1. "success" \in Says(n)
      BY <1>1, <1>2 DEF Says
    <2> QED BY <1>2, <2>1 DEF Classification
  <1>3. CASE n > search.secret
    <2>1. Refusal(n) = "too_high"
      BY <1>1, <1>3 DEF Refusal
    <2>2. "too_high" \in shown /\ "success" \notin shown
      BY <1>1, <1>3, <2>1 DEF Says
    <2> QED BY <1>3, <2>1, <2>2 DEF Classification
  <1>4. CASE n < search.secret
    <2>1. Refusal(n) = "too_low"
      BY <1>1, <1>4 DEF Refusal
    <2>2. "too_low" \in shown /\ shown \cap {"success", "too_high"} = {}
      BY <1>1, <1>4, <2>1 DEF Says
    <2> QED BY <1>4, <2>1, <2>2 DEF Classification
  <1> QED BY <1>2, <1>3, <1>4

-------------------------------------------------------------------------------
(* The steps.                                                              *)

\* At the start the whole range is open.
LEMMA InitStep == Init => IInv
PROOF
  <1> SUFFICES ASSUME Init, search.kind = "feedback" PROVE IInv
    BY DEF IInv
  <1>1. InitFeedback /\ found = None /\ late = FALSE
    BY DEF Init, InitOrdinal
  <1>2. /\ search.secret \in Int /\ search.min \in Int /\ search.max \in Int
        /\ search.min < search.max
    BY <1>1, SearchAssumption DEF InitFeedback
  <1>3. probe = [low |-> search.min, high |-> search.max, tried |-> {},
                 attempt |-> 0, guess |-> 0]
    BY <1>1 DEF InitFeedback, NoProbe
  <1>4. /\ site \in GuessSites /\ due = site.standing /\ shown = due
        /\ pc = "guess"
    BY <1>1 DEF InitFeedback
  <1>5. Types
    <2>1. 0 \in 0 .. MaxAttempts
      BY SearchAssumption
    <2>2. due \in SUBSET Verdicts
      BY <1>4 DEF GuessSites, Words
    <2>3. probe \in [low : Int, high : Int, tried : SUBSET Int,
                     attempt : 0 .. MaxAttempts, guess : Int]
      BY <1>2, <1>3, <2>1
    <2> QED BY <1>1, <1>2, <1>4, <2>2, <2>3 DEF Types
  <1>6. AcceptedByPage
    BY <1>4 DEF AcceptedByPage
  <1>7. Narrowing
    <2>1. ASSUME Searchable PROVE RangeBeforeGuess
      <3>1. Left = MaxAttempts
        BY <1>3, SearchAssumption DEF Left
      <3> QED BY <1>3, <2>1, <3>1 DEF RangeBeforeGuess, Searchable
    <2> QED BY <1>4, <2>1 DEF Narrowing
  <1>8. FeedbackFindsValue
    BY <1>4 DEF FeedbackFindsValue
  <1> QED BY <1>4, <1>5, <1>6, <1>7, <1>8 DEF IInv

\* The page's answer may come at any time.
LEMMA ArriveStep ==
  ASSUME IInv, Arrive
  PROVE  IInv'
PROOF
  <1> SUFFICES ASSUME search.kind = "feedback" PROVE IInv'
    BY DEF IInv, Arrive
  <1>1. /\ pc # "done" /\ shown' = due
        /\ UNCHANGED <<search, site, due, walk, probe, found, pc, late>>
    BY DEF Arrive
  <1>2. Types'
    BY <1>1 DEF IInv, Types
  <1>3. ~late /\ pc # "done" => AcceptedByPage' /\ Narrowing'
    BY <1>1 DEF IInv, AcceptedByPage, Narrowing, Searchable, Plain,
         RangeBeforeGuess, RangeAfterGuess, Left, Middle, Says, Refusal
  <1> QED BY <1>1, <1>2, <1>3 DEF IInv, FeedbackFindsValue

\* A guess is a number of the range: its middle where nothing is tried yet.
LEMMA SubmitStep ==
  ASSUME IInv, Submit
  PROVE  IInv'
PROOF
  <1> SUFFICES ASSUME search.kind = "feedback" PROVE IInv'
    BY DEF IInv, Submit
  <1>1. PICK n \in Guesses :
          /\ probe' = [probe EXCEPT !.guess = n, !.tried = @ \cup {n},
                                    !.attempt = @ + 1]
          /\ due' = Says(n) \cup (IF site.keeps THEN due ELSE site.standing)
    BY DEF Submit
  <1>2. /\ pc = "guess" /\ pc' = "read" /\ probe.attempt < MaxAttempts
        /\ probe.low <= probe.high
        /\ UNCHANGED <<search, site, shown, walk, found, late>>
    BY DEF Submit, Guessing
  <1>3. Types
    BY DEF IInv
  <1>4. n \in Int
    <2>1. /\ Middle \in Int /\ Untried \subseteq probe.low .. probe.high
          /\ probe.low \in Int /\ probe.high \in Int
      BY <1>3 DEF Types, Middle, Untried
    <2>2. CASE Middle \notin probe.tried
      BY <1>1, <2>1, <2>2 DEF Guesses
    <2>3. CASE Middle \in probe.tried
      <3>1. n = Min(Untried) /\ Untried # {}
        BY <1>1, <2>3 DEF Guesses
      <3>2. n \in Untried
        BY <2>1, <3>1, MinInRange
      <3> QED BY <2>1, <3>2
    <2> QED BY <2>2, <2>3
  <1>5. Types'
    <2>1. Says(n) \subseteq Verdicts /\ site.standing \subseteq Verdicts
      BY <1>3, SaysVerdicts DEF Types, GuessSites, Words
    <2>2. due' \in SUBSET Verdicts
      BY <1>1, <1>3, <2>1 DEF Types
    <2>3. probe.attempt + 1 \in 0 .. MaxAttempts /\ probe.attempt + 1 # 0
      BY <1>2, <1>3, SearchAssumption DEF Types
    <2>4. /\ probe' \in [low : Int, high : Int, tried : SUBSET Int,
                         attempt : 0 .. MaxAttempts, guess : Int]
          /\ probe'.attempt # 0
      BY <1>1, <1>3, <1>4, <2>3 DEF Types
    <2> QED BY <1>2, <1>3, <2>2, <2>4 DEF Types
  <1>6. ASSUME ~late PROVE AcceptedByPage'
    <2>1. "success" \in due => "success" \in site.standing \cup site.refuses
      BY <1>2, <1>6 DEF IInv, AcceptedByPage
    <2>2. "success" \in Says(n) => n = search.secret \/ "success" \in site.refuses
      BY DEF Says, Refusal
    <2>3. probe'.guess = n
      BY <1>1, <1>3 DEF Types
    <2> QED BY <1>1, <1>2, <2>1, <2>2, <2>3 DEF AcceptedByPage
  <1>7. ASSUME ~late, Searchable PROVE RangeAfterGuess'
    <2>1. RangeBeforeGuess /\ ~site.keeps
      BY <1>2, <1>7 DEF IInv, Narrowing, Searchable, Plain
    <2>2. /\ probe.low \in Int /\ probe.high \in Int /\ probe.tried \subseteq Int
          /\ Middle \in probe.low .. probe.high
      BY <1>2, <1>3 DEF Types, Middle
    <2>3. n = Middle
      BY <1>1, <2>1, <2>2 DEF Guesses, RangeBeforeGuess
    <2>4. /\ probe'.low = probe.low /\ probe'.high = probe.high
          /\ probe'.guess = n /\ probe'.tried = probe.tried \cup {n}
          /\ probe'.attempt = probe.attempt + 1
      BY <1>1, <1>3 DEF Types
    <2>5. Left' + 1 = Left
      BY <1>3, <2>4, SearchAssumption DEF Left, Types
    <2>6. probe'.tried \cap (probe'.low .. probe'.high) = {n}
      BY <2>1, <2>2, <2>3, <2>4 DEF RangeBeforeGuess
    <2>7. due' = Says(n) \cup site.standing
      BY <1>1, <2>1
    <2>8. Middle' = Middle /\ Says(n)' = Says(n)
      BY <1>2, <2>4 DEF Middle, Says, Refusal
    <2> QED BY <1>2, <2>1, <2>3, <2>4, <2>5, <2>6, <2>7, <2>8
         DEF RangeAfterGuess, RangeBeforeGuess
  <1>8. ~late => AcceptedByPage' /\ Narrowing'
    BY <1>2, <1>6, <1>7 DEF Narrowing, Searchable, Plain
  <1>9. FeedbackFindsValue'
    BY <1>2 DEF FeedbackFindsValue
  <1> QED BY <1>2, <1>5, <1>8, <1>9 DEF IInv

\* A search is not given up while it can succeed: the secret is in the range,
\* which an attempt less than none would have emptied.
LEMMA GiveUpStep ==
  ASSUME IInv, GiveUp
  PROVE  IInv'
PROOF
  <1> SUFFICES ASSUME search.kind = "feedback" PROVE IInv'
    BY DEF IInv, GiveUp
  <1>1. /\ pc = "guess" /\ pc' = "done" /\ (Guessing => Guesses = {})
        /\ UNCHANGED <<search, site, shown, due, walk, probe, found, late>>
    BY DEF GiveUp
  <1>2. Types /\ found = None
    BY <1>1 DEF IInv, Types
  <1>3. Types'
    BY <1>1, <1>2 DEF Types
  <1>4. ASSUME ~late, Searchable PROVE FALSE
    <2>1. RangeBeforeGuess
      BY <1>1, <1>4 DEF IInv, Narrowing
    <2>2. /\ probe.low \in Int /\ probe.high \in Int /\ search.secret \in Int
          /\ probe.attempt \in 0 .. MaxAttempts /\ MaxAttempts \in Nat
      BY <1>2, SearchAssumption DEF Types
    <2>3. probe.low <= probe.high /\ Middle \in probe.low .. probe.high
      BY <2>1, <2>2 DEF RangeBeforeGuess, Middle
    <2>4. Guesses = {Middle}
      BY <2>1, <2>3 DEF Guesses, RangeBeforeGuess
    <2>5. probe.attempt = MaxAttempts
      BY <1>1, <2>2, <2>3, <2>4 DEF Guessing
    <2>6. 2 ^ Left = 1
      BY <2>2, <2>5, PowerZero DEF Left
    <2> QED BY <2>1, <2>2, <2>3, <2>6 DEF RangeBeforeGuess
  <1>5. FeedbackFindsValue'
    BY <1>1, <1>2, <1>4 DEF FeedbackFindsValue, Searchable, Plain
  <1> QED BY <1>1, <1>3, <1>5 DEF IInv

\* An answer cuts the range at the guess, on the side it names, and a number
\* reported is one the page accepted.
LEMMA ReadStep ==
  ASSUME IInv, ReadFeedback
  PROVE  IInv'
PROOF
  <1> SUFFICES ASSUME search.kind = "feedback" PROVE IInv'
    BY DEF IInv, ReadFeedback
  <1>1. /\ pc = "read"
        /\ late' = (late \/ shown # due)
        /\ UNCHANGED <<search, site, shown, due, walk>>
    BY DEF ReadFeedback
  <1>2. Types /\ found = None /\ late' \in BOOLEAN
    BY <1>1 DEF IInv, Types
  <1>3. ASSUME ~late'
        PROVE  ~late /\ shown = due /\ AcceptedByPage /\ Narrowing
    BY <1>1, <1>2, <1>3 DEF IInv
  <1>4. ASSUME ~late', Searchable
        PROVE  /\ RangeAfterGuess
               /\ Classification = IF probe.guess = search.secret THEN "success"
                                   ELSE Refusal(probe.guess)
               /\ search.secret \in Int /\ probe.guess \in Int
    <2>1. RangeAfterGuess /\ Plain
      BY <1>1, <1>3, <1>4 DEF Narrowing, Searchable
    <2>2. /\ search.secret \in Int /\ probe.guess \in Int /\ site \in GuessSites
      BY <1>2 DEF Types
    <2>3. shown = Says(probe.guess) \cup site.standing
      BY <1>3, <1>4, <2>1 DEF RangeAfterGuess
    <2>4. Classification = IF probe.guess = search.secret THEN "success"
                           ELSE Refusal(probe.guess)
      BY <2>1, <2>2, <2>3, ReadAsSaid
    <2> QED BY <2>1, <2>2, <2>4
  <1>5. CASE Classification = "success"
    <2>1. found' = probe.guess /\ pc' = "done" /\ UNCHANGED probe
      BY <1>5 DEF ReadFeedback
    <2>2. Types'
      BY <1>1, <1>2, <2>1 DEF Types
    <2>3. ASSUME ~late'
          PROVE  \/ found' = search.secret
                 \/ "success" \in site.standing \cup site.refuses
      <3>1. "success" \in shown
        BY <1>5 DEF Classification
      <3> QED BY <1>3, <2>1, <2>3, <3>1 DEF AcceptedByPage
    <2>4. ASSUME ~late', Searchable PROVE found' = search.secret
      BY <1>4, <1>5, <2>1, <2>4 DEF Refusal
    <2>5. FeedbackFindsValue'
      BY <1>1, <2>3, <2>4 DEF FeedbackFindsValue, Searchable, Plain
    <2> QED BY <2>1, <2>2, <2>5 DEF IInv
  <1>6. CASE Classification # "success"
    <2>1. probe' = Narrowed /\ pc' = "guess" /\ UNCHANGED found
      BY <1>6 DEF ReadFeedback
    <2>2. /\ probe.low \in Int /\ probe.high \in Int /\ probe.guess \in Int
          /\ probe.attempt \in 1 .. MaxAttempts /\ probe.tried \subseteq Int
          /\ MaxAttempts \in Nat
          /\ probe \in [low : Int, high : Int, tried : SUBSET Int,
                        attempt : 0 .. MaxAttempts, guess : Int]
      BY <1>1, <1>2, SearchAssumption DEF Types
    <2>3. Narrowed \in {[probe EXCEPT !.high = probe.guess - 1],
                        [probe EXCEPT !.low = probe.guess + 1],
                        [probe EXCEPT !.low = @ + 1]}
      BY DEF Narrowed
    <2>4. probe' \in [low : Int, high : Int, tried : SUBSET Int,
                      attempt : 0 .. MaxAttempts, guess : Int]
      BY <2>1, <2>2, <2>3
    <2>5. Types'
      BY <1>1, <1>2, <2>1, <2>4 DEF Types
    <2>6. ASSUME ~late' PROVE shown' = due' /\ AcceptedByPage'
      <3>1. "success" \notin shown
        BY <1>6 DEF Classification
      <3> QED BY <1>1, <1>3, <2>6, <3>1 DEF AcceptedByPage
    <2>7. ASSUME ~late', Searchable PROVE RangeBeforeGuess'
      <3> DEFINE w == 2 ^ Left
      <3>1. /\ RangeAfterGuess
            /\ Classification = IF probe.guess = search.secret THEN "success"
                                ELSE Refusal(probe.guess)
            /\ search.secret \in Int
        BY <1>4, <2>7
      <3>2. 2 ^ (Left + 1) = 2 * w /\ w \in Int
        <4>1. /\ probe.attempt - 1 \in 0 .. MaxAttempts
              /\ probe.attempt - 1 < MaxAttempts
              /\ Left + 1 = MaxAttempts - (probe.attempt - 1)
              /\ Left = MaxAttempts - ((probe.attempt - 1) + 1)
          BY <2>2 DEF Left
        <4> QED BY <4>1, PowerLess
      <3>3. /\ probe.low <= probe.high
            /\ probe.guess = (probe.low + probe.high) \div 2
            /\ probe.high - probe.low + 1 < 2 * w
            /\ search.secret \in probe.low .. probe.high
            /\ probe.tried \cap (probe.low .. probe.high) = {probe.guess}
        BY <2>2, <3>1, <3>2 DEF RangeAfterGuess, Middle
      <3>4. /\ probe.guess \in probe.low .. probe.high
            /\ (probe.guess - 1) - probe.low + 1 < w
            /\ probe.high - (probe.guess + 1) + 1 < w
        <4> HIDE DEF w
        <4> QED BY <2>2, <3>2, <3>3, Halves
      <3>5. CASE probe.guess > search.secret
        <4>1. Classification = "too_high"
          BY <2>2, <3>1, <3>5, <2>7 DEF Refusal, Searchable, Plain
        <4>2. probe' = [probe EXCEPT !.high = probe.guess - 1]
          BY <2>1, <4>1 DEF Narrowed
        <4>3. /\ probe'.low = probe.low /\ probe'.high = probe.guess - 1
              /\ probe'.tried = probe.tried /\ probe'.attempt = probe.attempt
          BY <2>2, <4>2
        <4>4. Left' = Left
          BY <4>3 DEF Left
        <4>5. probe'.tried \cap (probe'.low .. probe'.high) = {}
          BY <2>2, <3>3, <3>4, <4>3
        <4>6. search.secret \in probe'.low .. probe'.high
          BY <2>2, <3>1, <3>3, <3>5, <4>3
        <4>7. probe'.high - probe'.low + 1 < 2 ^ Left'
          BY <3>4, <4>3, <4>4
        <4> QED BY <1>1, <4>5, <4>6, <4>7 DEF RangeBeforeGuess
      <3>6. CASE probe.guess < search.secret
        <4>1. Classification = "too_low"
          BY <2>2, <3>1, <3>6, <2>7 DEF Refusal, Searchable, Plain
        <4>2. probe' = [probe EXCEPT !.low = probe.guess + 1]
          BY <2>1, <4>1 DEF Narrowed
        <4>3. /\ probe'.low = probe.guess + 1 /\ probe'.high = probe.high
              /\ probe'.tried = probe.tried /\ probe'.attempt = probe.attempt
          BY <2>2, <4>2
        <4>4. Left' = Left
          BY <4>3 DEF Left
        <4>5. probe'.tried \cap (probe'.low .. probe'.high) = {}
          BY <2>2, <3>3, <3>4, <4>3
        <4>6. search.secret \in probe'.low .. probe'.high
          BY <2>2, <3>1, <3>3, <3>6, <4>3
        <4>7. probe'.high - probe'.low + 1 < 2 ^ Left'
          BY <3>4, <4>3, <4>4
        <4> QED BY <1>1, <4>5, <4>6, <4>7 DEF RangeBeforeGuess
      <3>7. probe.guess # search.secret
        BY <1>6, <3>1
      <3> QED BY <2>2, <3>1, <3>5, <3>6, <3>7
    <2>8. ~late' => AcceptedByPage' /\ Narrowing'
      BY <1>1, <2>1, <2>6, <2>7 DEF Narrowing, Searchable, Plain
    <2>9. FeedbackFindsValue'
      BY <2>1 DEF FeedbackFindsValue
    <2> QED BY <2>1, <2>5, <2>6, <2>8, <2>9 DEF IInv
  <1> QED BY <1>5, <1>6

\* The steps of the search by ordinal are not steps of this one.
LEMMA OrdinalSteps ==
  ASSUME IInv, ClickResult \/ TurnPage \/ BreakOff \/ CallAgain
  PROVE  IInv'
PROOF
  <1>1. search.kind = "ordinal" /\ search' = search
    BY DEF ClickResult, TurnPage, BreakOff, CallAgain, NoneHere, Looking
  <1> QED BY <1>1 DEF IInv

\* A step that changes nothing keeps the invariant.
LEMMA StutterStep ==
  ASSUME IInv, UNCHANGED vars
  PROVE  IInv'
PROOF BY DEF IInv, vars, Types, AcceptedByPage, Narrowing, Searchable, Plain,
  RangeBeforeGuess, RangeAfterGuess, Left, Middle, Says, Refusal,
  FeedbackFindsValue

-------------------------------------------------------------------------------
(* Theorems.                                                               *)

\* The invariant of the search for a number: while its answers come in time,
\* what is left of the range holds the secret and fits the attempts left
\* (action_runtime.rs, the loop over maxAttempts).
THEOREM Invariance == Spec => []IInv
PROOF
  <1>1. IInv /\ [Next]_vars => IInv'
    BY ArriveStep, SubmitStep, ReadStep, GiveUpStep, OrdinalSteps, StutterStep
       DEF Next
  <1> QED BY <1>1, InitStep, PTL DEF Spec

\* Bisection as feedback_loop_value does it, with its floor, its attempts and
\* its reading of the answers, finds every number of every range narrower than
\* 2 ^ MaxAttempts, on a page that tells the direction, and reports no number
\* the page has not accepted.
THEOREM FeedbackSafety == Spec => []FeedbackFindsValue
PROOF
  <1>1. IInv => FeedbackFindsValue
    BY DEF IInv, FeedbackFindsValue
  <1> QED BY <1>1, Invariance, PTL

-------------------------------------------------------------------------------
(* The count of a list of results.                                         *)

\* The pages of a list and the results on them are numbered from one.
LEMMA ListShape ==
  ASSUME site \in ResultSites
  PROVE  /\ Len(site.pages) \in 1 .. SitePages
         /\ DOMAIN site.pages = 1 .. Len(site.pages)
         /\ \A p \in 1 .. Len(site.pages) :
              /\ Len(site.pages[p]) \in 1 .. PageLength
              /\ DOMAIN site.pages[p] = 1 .. Len(site.pages[p])
PROOF
  <1> DEFINE Page == UNION {[1 .. m -> Texts] : m \in 1 .. PageLength}
  <1>1. ASSUME NEW S, NEW m \in Nat, NEW s \in [1 .. m -> S]
        PROVE  Len(s) = m
    <2>1. s \in Seq(S)
      BY SeqDef
    <2> QED BY <2>1, LenProperties
  <1>2. PICK n \in 1 .. SitePages : site.pages \in [1 .. n -> Page]
    BY DEF ResultSites
  <1>3. Len(site.pages) = n /\ DOMAIN site.pages = 1 .. n
    BY <1>1, <1>2
  <1>4. ASSUME NEW p \in 1 .. n
        PROVE  /\ Len(site.pages[p]) \in 1 .. PageLength
               /\ DOMAIN site.pages[p] = 1 .. Len(site.pages[p])
    <2>1. site.pages[p] \in Page
      BY <1>2
    <2>2. PICK m \in 1 .. PageLength : site.pages[p] \in [1 .. m -> Texts]
      BY <2>1
    <2>3. m \in Nat /\ Len(site.pages[p]) = m
      BY <1>1, <2>2, SearchAssumption
    <2> QED BY <2>2, <2>3
  <1> QED BY <1>3, <1>4

\* The results of the first pages.
First(upto) == {a \in Places : a[1] <= upto}
\* The first results of a page.
TopOf(p, n) == {p} \X (1 .. n)

\* There are finitely many results.
LEMMA ListFinite ==
  ASSUME NEW S, S \subseteq Places
  PROVE  IsFiniteSet(S) /\ Cardinality(S) \in Nat
PROOF
  <1> DEFINE All == (1 .. SitePages) \X (1 .. PageLength)
  <1>1. IsFiniteSet(All)
    <2>1. IsFiniteSet(1 .. SitePages) /\ IsFiniteSet(1 .. PageLength)
      BY SearchAssumption, FS_Interval
    <2> QED BY <2>1, FS_Product
  <1>2. S \in SUBSET All
    BY DEF Places
  <1> QED BY <1>1, <1>2, FS_Subset, FS_CardinalityType

\* A page has as many results as it is long.
LEMMA HeadSize ==
  ASSUME NEW p \in Nat, NEW n \in Nat
  PROVE  IsFiniteSet(TopOf(p, n)) /\ Cardinality(TopOf(p, n)) = n
PROOF
  <1>1. IsFiniteSet({p}) /\ Cardinality({p}) = 1
    BY FS_Singleton
  <1>2. IsFiniteSet(1 .. n) /\ Cardinality(1 .. n) = n
    BY FS_Interval
  <1>3. /\ IsFiniteSet({p} \X (1 .. n))
        /\ Cardinality({p} \X (1 .. n)) = Cardinality({p}) * Cardinality(1 .. n)
    <2>1. IsFiniteSet({p}) /\ IsFiniteSet(1 .. n)
      BY <1>1, <1>2
    <2> QED BY <2>1, FS_Product, Zenon
  <1> QED BY <1>1, <1>2, <1>3 DEF TopOf

\* The results of the pages before and the first ones of this page.
LEMMA FirstAndHead ==
  ASSUME site \in ResultSites, NEW p \in 1 .. Len(site.pages),
         NEW n \in 0 .. Len(site.pages[p])
  PROVE  Cardinality(First(p - 1) \cup TopOf(p, n)) = Total(p - 1) + n
PROOF
  <1>1. p \in Nat /\ n \in Nat
    BY ListShape
  <1>2. First(p - 1) \cap TopOf(p, n) = {}
    BY <1>1 DEF First, TopOf
  <1>3. /\ IsFiniteSet(First(p - 1)) /\ Cardinality(First(p - 1)) \in Nat
        /\ Total(p - 1) = Cardinality(First(p - 1))
    BY ListFinite DEF First, Total
  <1>4. IsFiniteSet(TopOf(p, n)) /\ Cardinality(TopOf(p, n)) = n
    BY <1>1, HeadSize
  <1>5. Cardinality(First(p - 1) \cup TopOf(p, n)) =
          Cardinality(First(p - 1)) + Cardinality(TopOf(p, n))
            - Cardinality(First(p - 1) \cap TopOf(p, n))
    BY <1>3, <1>4, FS_Union
  <1>6. Cardinality(First(p - 1) \cap TopOf(p, n)) = 0
    BY <1>2, FS_EmptySet
  <1> QED BY <1>1, <1>3, <1>4, <1>5, <1>6

\* Each page adds its results to the count of those before.
LEMMA TotalStep ==
  ASSUME site \in ResultSites, NEW p \in 1 .. Len(site.pages)
  PROVE  Total(p) = Total(p - 1) + Len(site.pages[p])
PROOF
  <1>1. /\ p \in 1 .. SitePages /\ SitePages \in Nat /\ PageLength \in Nat
        /\ Len(site.pages) \in Nat
        /\ Len(site.pages[p]) \in 1 .. PageLength
    BY ListShape, SearchAssumption
  <1>2. First(p) = First(p - 1) \cup TopOf(p, Len(site.pages[p]))
    <2>1. ASSUME NEW a \in First(p), a \notin First(p - 1)
          PROVE  a \in TopOf(p, Len(site.pages[p]))
      <3>1. /\ a \in (1 .. SitePages) \X (1 .. PageLength)
            /\ a[2] <= Len(site.pages[a[1]]) /\ a[1] <= p /\ ~(a[1] <= p - 1)
        BY <2>1 DEF First, Places
      <3>2. a[1] = p /\ a[2] \in 1 .. Len(site.pages[p]) /\ a = <<a[1], a[2]>>
        BY <1>1, <3>1
      <3> QED BY <3>2 DEF TopOf
    <2>2. TopOf(p, Len(site.pages[p])) \subseteq First(p)
      BY <1>1 DEF TopOf, First, Places
    <2>3. First(p - 1) \subseteq First(p)
      BY <1>1 DEF First, Places
    <2> QED BY <2>1, <2>2, <2>3
  <1>3. Total(p) = Cardinality(First(p))
    BY DEF Total, First
  <1> QED BY <1>1, <1>2, <1>3, FirstAndHead

\* Before the first page there is nothing, on all pages everything, and more
\* pages have more results.
LEMMA TotalBounds ==
  ASSUME site \in ResultSites
  PROVE  /\ Total(0) = 0 /\ Total(Len(site.pages)) = Cardinality(Places)
         /\ \A p \in Int : Total(p) \in Nat
         /\ \A p, q \in Int : p <= q => Total(p) <= Total(q)
PROOF
  <1>1. /\ SitePages \in Nat /\ Len(site.pages) \in Nat
        /\ Places \subseteq (1 .. SitePages) \X (1 .. PageLength)
        /\ \A a \in Places : a[1] \in 1 .. SitePages /\ a[1] <= Len(site.pages)
    BY ListShape, SearchAssumption DEF Places
  <1>2. First(0) = {} /\ First(Len(site.pages)) = Places
    BY <1>1 DEF First
  <1>3. \A p \in Int : Total(p) = Cardinality(First(p)) /\ Total(p) \in Nat
    BY ListFinite DEF First, Total
  <1>4. ASSUME NEW p \in Int, NEW q \in Int, p <= q
        PROVE  Total(p) <= Total(q)
    <2>1. First(p) \in SUBSET First(q)
      BY <1>1, <1>4 DEF First
    <2>2. IsFiniteSet(First(q))
      BY ListFinite DEF First
    <2>3. Cardinality(First(p)) <= Cardinality(First(q))
      BY <2>1, <2>2, FS_Subset
    <2> QED BY <1>3, <2>3
  <1>5. Total(0) = 0 /\ Total(Len(site.pages)) = Cardinality(Places)
    <2>1. /\ Total(0) = Cardinality(First(0))
          /\ Total(Len(site.pages)) = Cardinality(First(Len(site.pages)))
      BY <1>1, <1>3
    <2>2. Cardinality({}) = 0
      BY FS_EmptySet
    <2> QED BY <1>2, <2>1, <2>2
  <1> QED BY <1>3, <1>4, <1>5

\* A result's rank is the number of results on the pages before its own, and
\* before it on its own.
LEMMA RankOf ==
  ASSUME site \in ResultSites, NEW p \in 1 .. Len(site.pages),
         NEW n \in 1 .. Len(site.pages[p])
  PROVE  <<p, n>> \in Places /\ Rank(<<p, n>>) = Total(p - 1) + (n - 1)
PROOF
  <1>1. /\ p \in 1 .. SitePages /\ SitePages \in Nat /\ PageLength \in Nat
        /\ Len(site.pages) \in Nat
        /\ Len(site.pages[p]) \in 1 .. PageLength
    BY ListShape, SearchAssumption
  <1>2. <<p, n>> \in Places
    BY <1>1 DEF Places
  <1>3. {b \in Places : Before(b, <<p, n>>)} = First(p - 1) \cup TopOf(p, n - 1)
    <2>1. ASSUME NEW b \in Places
          PROVE  Before(b, <<p, n>>) <=> b \in First(p - 1) \cup TopOf(p, n - 1)
      <3>1. /\ b = <<b[1], b[2]>>
            /\ b[1] \in 1 .. SitePages /\ b[2] \in 1 .. PageLength
        BY DEF Places
      <3>2. b \in TopOf(p, n - 1) <=> b[1] = p /\ b[2] \in 1 .. n - 1
        BY <3>1 DEF TopOf
      <3>3. b \in First(p - 1) <=> b[1] <= p - 1
        BY DEF First
      <3>4. Before(b, <<p, n>>) <=> b[1] < p \/ (b[1] = p /\ b[2] < n)
        BY DEF Before
      <3> QED BY <1>1, <3>1, <3>2, <3>3, <3>4
    <2>2. First(p - 1) \subseteq Places
      BY DEF First
    <2>3. TopOf(p, n - 1) \subseteq Places
      BY <1>1 DEF TopOf, Places
    <2> QED BY <2>1, <2>2, <2>3
  <1>4. n - 1 \in 0 .. Len(site.pages[p])
    BY <1>1
  <1> QED BY <1>2, <1>3, <1>4, FirstAndHead DEF Rank

\* No two results have the same rank, and each rank is below their number.
LEMMA RankOrders ==
  ASSUME site \in ResultSites
  PROVE  /\ \A a, b \in Places : Rank(a) = Rank(b) => a = b
         /\ \A a \in Places : Rank(a) \in Nat /\ Rank(a) < Cardinality(Places)
PROOF
  <1> DEFINE Earlier(a) == {b \in Places : Before(b, a)}
  <1>1. \A a \in Places : /\ a = <<a[1], a[2]>> /\ a[1] \in Int /\ a[2] \in Int
    BY SearchAssumption DEF Places
  <1>2. ASSUME NEW a \in Places
        PROVE  /\ IsFiniteSet(Earlier(a)) /\ Rank(a) = Cardinality(Earlier(a))
               /\ Rank(a) \in Nat /\ a \notin Earlier(a)
    BY <1>1, ListFinite DEF Rank, Before
  <1>3. ASSUME NEW a \in Places, NEW b \in Places, Before(a, b)
        PROVE  Rank(a) < Rank(b)
    <2>1. Earlier(a) \in SUBSET Earlier(b)
      BY <1>1, <1>3 DEF Before
    <2>2. Earlier(a) # Earlier(b)
      BY <1>2, <1>3
    <2>3. /\ Cardinality(Earlier(a)) <= Cardinality(Earlier(b))
          /\ Cardinality(Earlier(a)) # Cardinality(Earlier(b))
      <3> HIDE DEF Earlier
      <3>1. IsFiniteSet(Earlier(b))
        BY <1>2
      <3> QED BY <2>1, <2>2, <3>1, FS_Subset
    <2> QED BY <1>2, <2>3
  <1>4. ASSUME NEW a \in Places, NEW b \in Places, Rank(a) = Rank(b)
        PROVE  a = b
    <2>1. ~Before(a, b) /\ ~Before(b, a)
      <3>1. Before(a, b) => Rank(a) < Rank(b)
        BY <1>3
      <3>2. Before(b, a) => Rank(b) < Rank(a)
        BY <1>3
      <3>3. Rank(a) \in Nat
        BY <1>2
      <3> QED BY <1>4, <3>1, <3>2, <3>3
    <2> QED BY <1>1, <2>1 DEF Before
  <1>5. ASSUME NEW a \in Places
        PROVE  Rank(a) < Cardinality(Places)
    <2>1. Earlier(a) \in SUBSET Places /\ Earlier(a) # Places
      BY <1>2
    <2>2. IsFiniteSet(Places) /\ Cardinality(Places) \in Nat
      BY ListFinite
    <2>3. /\ Cardinality(Earlier(a)) <= Cardinality(Places)
          /\ Cardinality(Earlier(a)) # Cardinality(Places)
      <3> HIDE DEF Earlier
      <3> QED BY <2>1, <2>2, FS_Subset
    <2> QED BY <1>2, <2>2, <2>3
  <1> QED BY <1>2, <1>4, <1>5

-------------------------------------------------------------------------------
(* The search by ordinal.                                                  *)

\* What the script may take for the results of a page.
Lists == {site.pages[n] : n \in DOMAIN site.pages} \cup {site.other.results}

\* Of a search by ordinal.
ListTypes ==
  /\ search.ordinal \in Ordinals /\ site \in ResultSites
  /\ shown \in 0 .. Len(site.pages) /\ due \in 1 .. Len(site.pages)
  /\ due = 1 => shown \in {0, 1}
  /\ walk \in [call : 1 .. Calls, index : Nat, seen : Nat,
               visited : SUBSET Lists]
  /\ pc \in {"look", "over", "done"}
  /\ late \in BOOLEAN
  /\ pc # "done" => found = None

\* The script stands on the page that is as far as it has turned, has counted
\* the pages before it, and the result is not on them.
Counting ==
  /\ walk.index < MaxPages /\ due = walk.index + 1
  /\ walk.seen = Total(walk.index)
  /\ walk.visited = {site.pages[n] : n \in 1 .. walk.index}
  /\ search.ordinal = -1 \/ search.ordinal >= walk.seen

\* It stands on the last page of a list that is shorter than was asked for.
Beyond == search.ordinal >= Total(Len(site.pages)) /\ due = Len(site.pages)

\* A call that is over will be repeated on the first page, or nothing is left
\* to be found.
CountInv ==
  search.kind = "ordinal" =>
    /\ ListTypes
    /\ ~late /\ Countable =>
         /\ pc = "look" => Counting \/ (Beyond /\ walk.seen = 0)
         /\ pc = "over" => (due = 1 /\ walk.call < Calls) \/ Beyond
    /\ OrdinalIsExact

\* What there is to know of the numbers of a list.
LEMMA ListNumbers ==
  ASSUME ListTypes
  PROVE  /\ Len(site.pages) \in Nat \ {0}
         /\ DOMAIN site.pages = 1 .. Len(site.pages)
         /\ MaxPages \in Nat \ {0} /\ Calls \in Nat \ {0}
         /\ search.ordinal \in Int /\ search.ordinal >= -1
         /\ walk.index \in Nat /\ walk.seen \in Nat /\ walk.call \in 1 .. Calls
PROOF
  <1>1. site \in ResultSites /\ search.ordinal \in Ordinals
    BY DEF ListTypes
  <1>2. /\ SitePages \in Nat /\ PageLength \in Nat
        /\ MaxPages \in Nat \ {0} /\ Calls \in Nat \ {0}
    BY SearchAssumption
  <1>3. search.ordinal \in Int /\ search.ordinal >= -1
    <2>1. /\ Ordinals = -1 .. SitePages * PageLength
          /\ SitePages * PageLength \in Int
      BY <1>2 DEF Ordinals
    <2> QED BY <1>1, <2>1
  <1>4. /\ Len(site.pages) \in Nat \ {0}
        /\ DOMAIN site.pages = 1 .. Len(site.pages)
    BY <1>1, <1>2, ListShape
  <1>5. walk.index \in Nat /\ walk.seen \in Nat /\ walk.call \in 1 .. Calls
    BY DEF ListTypes
  <1> QED BY <1>2, <1>3, <1>4, <1>5

\* And of its pages.
LEMMA PageNumbers ==
  ASSUME ListTypes, NEW p \in 1 .. Len(site.pages)
  PROVE  /\ p \in Int
         /\ Len(site.pages[p]) \in Nat \ {0}
         /\ DOMAIN site.pages[p] = 1 .. Len(site.pages[p])
         /\ Total(p) = Total(p - 1) + Len(site.pages[p])
         /\ Total(p) \in Nat /\ Total(p - 1) \in Nat
PROOF
  <1>1. site \in ResultSites
    BY DEF ListTypes
  <1>2. /\ Len(site.pages[p]) \in 1 .. PageLength /\ PageLength \in Nat
        /\ DOMAIN site.pages[p] = 1 .. Len(site.pages[p])
    BY <1>1, ListShape, SearchAssumption
  <1>3. p \in Int /\ p - 1 \in Int
    BY ListNumbers
  <1>4. Total(p) \in Nat /\ Total(p - 1) \in Nat
    BY <1>1, <1>3, TotalBounds
  <1>5. Total(p) = Total(p - 1) + Len(site.pages[p])
    BY <1>1, TotalStep
  <1> QED BY <1>2, <1>3, <1>4, <1>5

\* What there is to know of the page shown.
LEMMA ShownNumbers ==
  ASSUME ListTypes, shown = due
  PROVE  /\ shown \in 1 .. Len(site.pages) /\ shown \in Int
         /\ Candidates = site.pages[shown] /\ Candidates # <<>>
         /\ DOMAIN Candidates = 1 .. Len(Candidates)
         /\ Len(Candidates) \in Nat \ {0} /\ Total(shown - 1) \in Nat
         /\ Total(shown) = Total(shown - 1) + Len(Candidates)
         /\ ~site.endless => (HasNext <=> shown # Len(site.pages))
PROOF
  <1>1. shown \in 1 .. Len(site.pages) /\ Len(site.pages) \in Nat
    <2>1. Len(site.pages) \in Nat
      BY ListNumbers
    <2> QED BY <2>1 DEF ListTypes
  <1>2. Candidates = site.pages[shown]
    BY <1>1 DEF Candidates
  <1>3. /\ DOMAIN Candidates = 1 .. Len(Candidates)
        /\ Len(Candidates) \in Nat \ {0}
        /\ Total(shown) = Total(shown - 1) + Len(Candidates)
    BY <1>1, <1>2, PageNumbers
  <1>4. shown \in Int
    BY <1>1
  <1>5. Total(shown - 1) \in Nat
    BY <1>1, PageNumbers
  <1>6. Candidates # <<>>
    BY <1>3
  <1>7. ~site.endless => (HasNext <=> shown # Len(site.pages))
    BY <1>1 DEF HasNext
  <1> QED BY <1>1, <1>2, <1>3, <1>4, <1>5, <1>6, <1>7

\* The result of a rank is the one asked for.
LEMMA TargetIs ==
  ASSUME ListTypes, NEW p \in 1 .. Len(site.pages),
         NEW n \in 1 .. Len(site.pages[p]),
         \/ search.ordinal # -1 /\ search.ordinal = Total(p - 1) + (n - 1)
         \/ /\ search.ordinal = -1
            /\ p = Len(site.pages) /\ n = Len(site.pages[p])
  PROVE  Target = <<p, n>>
PROOF
  <1> DEFINE asked == IF search.ordinal = -1 THEN Cardinality(Places) - 1
                      ELSE search.ordinal
             a == <<p, n>>
  <1>1. site \in ResultSites
    BY DEF ListTypes
  <1>2. a \in Places /\ Rank(a) = Total(p - 1) + (n - 1)
    BY <1>1, RankOf
  <1>3. Rank(a) = asked
    <2>1. CASE search.ordinal = -1
      <3>1. Total(p) = Cardinality(Places)
        BY <1>1, <2>1, TotalBounds
      <3>2. /\ Total(p) = Total(p - 1) + Len(site.pages[p])
            /\ Total(p - 1) \in Nat /\ p \in Int /\ Len(site.pages[p]) \in Int
        BY PageNumbers
      <3> QED BY <1>2, <2>1, <3>1, <3>2
    <2>2. CASE search.ordinal # -1
      BY <1>2, <2>2
    <2> QED BY <2>1, <2>2
  <1>4. asked < Cardinality(Places)
    BY <1>1, <1>2, <1>3, RankOrders
  <1>5. \A b \in Places : Rank(b) = asked => b = a
    BY <1>1, <1>2, <1>3, RankOrders
  <1>6. Target = CHOOSE b \in Places : Rank(b) = asked
    BY <1>4 DEF Target
  <1> QED BY <1>2, <1>3, <1>5, <1>6

\* Nothing is the target in a list that is shorter.
LEMMA NoTarget ==
  ASSUME ListTypes, search.ordinal >= Total(Len(site.pages))
  PROVE  Target = None
PROOF
  <1>1. site \in ResultSites
    BY DEF ListTypes
  <1>2. /\ Total(Len(site.pages)) = Cardinality(Places)
        /\ Cardinality(Places) \in Nat
    BY <1>1, TotalBounds, ListFinite
  <1>3. search.ordinal \in Int
    BY ListNumbers
  <1> QED BY <1>2, <1>3 DEF Target

\* The greatest of zero and a number.
LEMMA MaxWithZero ==
  ASSUME NEW n \in Int
  PROVE  Max({0, n}) = IF n >= 0 THEN n ELSE 0
PROOF BY DEF Max

\* What the script clicks on the page it has counted up to.
LEMMA ChosenIs ==
  ASSUME ListTypes, Counting, shown = due, Countable, Chosen # 0
  PROVE  <<shown, Chosen>> = Target
PROOF
  <1> DEFINE p == shown
             size == Len(site.pages[p])
  <1>1. /\ p \in 1 .. Len(site.pages) /\ p \in Int
        /\ Candidates = site.pages[p] /\ walk.seen = Total(p - 1)
        /\ DOMAIN Candidates = 1 .. size /\ Len(Candidates) = size
        /\ size \in Nat \ {0} /\ Total(p - 1) \in Nat
        /\ Total(p) = Total(p - 1) + size
    <2>1. walk.index = p - 1
      <3>1. walk.index \in Nat
        BY ListNumbers
      <3> QED BY <3>1 DEF Counting
    <2> QED BY <2>1, ShownNumbers DEF Counting
  <1>2. search.ordinal \in Int /\ search.ordinal >= -1
    BY ListNumbers
  <1>3. \A n \in DOMAIN Candidates : n \in Exact =>
          search.ordinal # -1 /\ search.ordinal = Total(p - 1) + (n - 1)
    <2> SUFFICES ASSUME NEW n \in DOMAIN Candidates, n \in Exact
                 PROVE  /\ search.ordinal # -1
                        /\ search.ordinal = Total(p - 1) + (n - 1)
      OBVIOUS
    <2>1. search.ordinal >= 0 /\ Label(n) = search.ordinal
      BY DEF Exact
    <2>2. site.labels \in {"none", "throughout"}
      BY DEF ListTypes, ResultSites, Labelling, Countable
    <2>3. site.labels = "throughout"
      BY <1>2, <2>1, <2>2, SearchAssumption DEF Label
    <2> QED BY <1>1, <1>2, <2>1, <2>3 DEF Label
  <1>4. CASE Exact # {}
    <2>1. PICK n \in Exact : TRUE
      BY <1>4
    <2>2. n \in 1 .. size /\ Exact = {n}
      BY <1>1, <1>3, <2>1 DEF Exact
    <2>3. Chosen = n
      BY <2>2 DEF Chosen, Min
    <2>4. search.ordinal # -1 /\ search.ordinal = Total(p - 1) + (n - 1)
      BY <1>1, <1>3, <2>2
    <2> QED BY <1>1, <2>2, <2>3, <2>4, TargetIs
  <1>5. CASE Exact = {} /\ search.ordinal = -1
    <2>1. ~HasNext /\ Chosen = size
      BY <1>1, <1>5 DEF Chosen
    <2>2. p = Len(site.pages)
      BY <2>1, ShownNumbers DEF Countable
    <2> QED BY <1>1, <1>5, <2>1, <2>2, TargetIs
  <1>6. CASE Exact = {} /\ search.ordinal # -1
    <2> DEFINE n == search.ordinal - walk.seen + 1
    <2>1. search.ordinal < walk.seen + size
      BY <1>1, <1>6 DEF Chosen
    <2>2. search.ordinal >= walk.seen
      BY <1>6 DEF Counting
    <2>3. Max({0, search.ordinal - walk.seen}) = search.ordinal - walk.seen
      BY <1>1, <1>2, <2>2, MaxWithZero
    <2>4. Chosen = n
      BY <1>1, <1>6, <2>1, <2>3 DEF Chosen
    <2>5. n \in 1 .. size /\ search.ordinal = Total(p - 1) + (n - 1)
      BY <1>1, <1>2, <2>1, <2>2
    <2> QED BY <1>1, <1>6, <2>4, <2>5, TargetIs
  <1> QED BY <1>4, <1>5, <1>6

\* When nothing is clicked on the page counted up to, the result is not on it.
LEMMA NotChosen ==
  ASSUME ListTypes, Counting, shown = due, Candidates = <<>> \/ Chosen = 0
  PROVE  /\ Chosen = 0 /\ Candidates = site.pages[shown]
         /\ shown \in 1 .. Len(site.pages) /\ shown = walk.index + 1
         /\ Passed = Total(shown)
         /\ \/ search.ordinal = -1 /\ HasNext
            \/ search.ordinal # -1 /\ search.ordinal >= Total(shown)
PROOF
  <1> DEFINE p == shown
             size == Len(site.pages[p])
  <1>1. /\ p \in 1 .. Len(site.pages) /\ p \in Int /\ p = walk.index + 1
        /\ Candidates = site.pages[p] /\ walk.seen = Total(p - 1)
        /\ DOMAIN Candidates = 1 .. size /\ Len(Candidates) = size
        /\ size \in Nat \ {0} /\ Total(p - 1) \in Nat
        /\ Total(p) = Total(p - 1) + size
    <2>1. walk.index = p - 1
      <3>1. walk.index \in Nat
        BY ListNumbers
      <3> QED BY <3>1 DEF Counting
    <2> QED BY <2>1, ShownNumbers DEF Counting
  <1>2. search.ordinal \in Int /\ search.ordinal >= -1
    BY ListNumbers
  <1>3. Chosen = 0
    <2>1. Candidates # <<>>
      BY <1>1
    <2> QED BY <2>1
  <1>4. Exact = {}
    <2> SUFFICES ASSUME Exact # {} PROVE FALSE
      OBVIOUS
    <2>1. Exact \subseteq 1 .. size
      BY <1>1 DEF Exact
    <2>2. Min(Exact) \in Exact
      <3>1. 1 \in Int /\ size \in Int
        BY <1>1
      <3> HIDE DEF size
      <3> QED BY <2>1, <3>1, MinInRange
    <2> QED BY <1>1, <1>3, <2>1, <2>2 DEF Chosen
  <1>5. CASE search.ordinal = -1
    BY <1>1, <1>3, <1>4, <1>5 DEF Chosen, Passed
  <1>6. CASE search.ordinal # -1
    <2>1. ~(search.ordinal < walk.seen + size)
      <3> SUFFICES ASSUME search.ordinal < walk.seen + size PROVE FALSE
        OBVIOUS
      <3>1. Max({0, search.ordinal - walk.seen}) + 1 >= 1
        BY <1>1, <1>2, MaxWithZero
      <3> QED BY <1>1, <1>3, <1>4, <1>6, <3>1 DEF Chosen
    <2> QED BY <1>1, <1>2, <1>3, <1>6, <2>1 DEF Passed
  <1> QED BY <1>1, <1>3, <1>5, <1>6 DEF Passed

\* Past the end there is nothing to click.
LEMMA NothingBeyond ==
  ASSUME ListTypes, Beyond, walk.seen = 0, Countable,
         shown = due
  PROVE  Candidates # <<>> => Chosen = 0
PROOF
  <1> DEFINE p == shown
             size == Len(site.pages[p])
  <1>1. /\ p \in 1 .. Len(site.pages) /\ p \in Int
        /\ Candidates = site.pages[p] /\ DOMAIN Candidates = 1 .. size
        /\ size \in Nat \ {0} /\ Total(p - 1) \in Nat
        /\ Total(p) = Total(p - 1) + size /\ search.ordinal >= Total(p)
        /\ Len(Candidates) = size
    BY ShownNumbers DEF Beyond
  <1>2. search.ordinal \in Int
    BY ListNumbers
  <1>3. Exact = {}
    <2> SUFFICES ASSUME NEW n \in Exact PROVE FALSE
      OBVIOUS
    <2>1. n \in 1 .. size /\ Label(n) = search.ordinal
      BY <1>1 DEF Exact
    <2>2. site.labels \in {"none", "throughout"}
      BY DEF ListTypes, ResultSites, Labelling, Countable
    <2>3. Label(n) \in {None, Total(p - 1) + n - 1}
      BY <2>2 DEF Label
    <2> QED BY <1>1, <1>2, <2>1, <2>3, SearchAssumption
  <1> QED BY <1>1, <1>2, <1>3 DEF Chosen

\* What is asked for, the list and the properties of both stay.
LEMMA SameList ==
  ASSUME UNCHANGED <<search, site>>
  PROVE  /\ \A n : Total(n)' = Total(n)
         /\ Countable' = Countable /\ Target' = Target
PROOF BY DEF Total, Places, Countable, Target, Rank, Before

\* A search by ordinal begins on the first page, with a count of nothing.
LEMMA InitCount == Init => CountInv
PROOF
  <1> SUFFICES ASSUME Init, search.kind = "ordinal" PROVE CountInv
    BY DEF CountInv
  <1>1. /\ search \in [kind : {"ordinal"}, ordinal : Ordinals]
        /\ site \in ResultSites /\ due = 1 /\ shown \in {0, 1}
        /\ walk = [call |-> 1, index |-> 0, seen |-> 0, visited |-> {}]
        /\ pc = "look" /\ found = None /\ late = FALSE
    BY DEF Init, InitOrdinal, InitFeedback, NoWalk
  <1>2. ListTypes
    <2>1. Len(site.pages) \in 1 .. SitePages /\ SitePages \in Nat
      BY <1>1, ListShape, SearchAssumption
    <2>2. Len(site.pages) \in Nat \ {0}
      BY <2>1
    <2>3. walk \in [call : 1 .. Calls, index : Nat, seen : Nat,
                    visited : SUBSET Lists]
      <3>1. 1 \in 1 .. Calls
        BY SearchAssumption
      <3> QED BY <1>1, <3>1
    <2>4. /\ search.ordinal \in Ordinals /\ pc \in {"look", "over", "done"}
          /\ late \in BOOLEAN /\ due = 1 => shown \in {0, 1}
      BY <1>1
    <2>5. shown \in 0 .. Len(site.pages) /\ due \in 1 .. Len(site.pages)
      BY <1>1, <2>2
    <2> QED BY <1>1, <2>3, <2>4, <2>5 DEF ListTypes, Lists
  <1>3. Counting
    <2>1. Total(0) = 0
      BY <1>1, TotalBounds
    <2>2. {site.pages[n] : n \in 1 .. 0} = {}
      OBVIOUS
    <2>3. search.ordinal = -1 \/ search.ordinal >= 0
      BY <1>2, ListNumbers
    <2> QED BY <1>1, <2>1, <2>2, <2>3, SearchAssumption DEF Counting
  <1> QED BY <1>1, <1>2, <1>3 DEF CountInv, OrdinalIsExact

\* A page may come at any time.
LEMMA ArriveCount ==
  ASSUME CountInv, Arrive
  PROVE  CountInv'
PROOF
  <1> SUFFICES ASSUME search.kind = "ordinal" PROVE CountInv'
    BY DEF CountInv, Arrive
  <1>1. /\ pc # "done" /\ shown' = due
        /\ UNCHANGED <<search, site, due, walk, probe, found, pc, late>>
    BY DEF Arrive
  <1>2. ListTypes
    BY DEF CountInv
  <1>3. ListTypes'
    <2>1. due \in 0 .. Len(site.pages)
      <3>1. Len(site.pages) \in Nat /\ due \in 1 .. Len(site.pages)
        BY <1>2, ListNumbers DEF ListTypes
      <3> QED BY <3>1
    <2> QED BY <1>1, <1>2, <2>1 DEF ListTypes, Lists
  <1>4. /\ Counting' = Counting /\ Beyond' = Beyond
        /\ Countable' = Countable
    BY <1>1, SameList DEF Counting, Beyond
  <1> QED BY <1>1, <1>3, <1>4 DEF CountInv, OrdinalIsExact

\* A result that is clicked is the one asked for.
LEMMA ClickCount ==
  ASSUME CountInv, ClickResult
  PROVE  CountInv'
PROOF
  <1> SUFFICES ASSUME search.kind = "ordinal" PROVE CountInv'
    BY DEF CountInv, ClickResult
  <1>1. /\ pc = "look" /\ Candidates # <<>> /\ Chosen # 0
        /\ found' = <<shown, Chosen>> /\ pc' = "done"
        /\ late' = (late \/ IsLate)
        /\ UNCHANGED <<search, site, shown, due, walk, probe>>
    BY DEF ClickResult, Looking
  <1>2. ListTypes
    BY DEF CountInv
  <1>3. ListTypes'
    BY <1>1, <1>2 DEF ListTypes, Lists, IsLate
  <1>4. ASSUME ~late', Countable' PROVE found' = Target'
    <2>1. ~late /\ ~IsLate /\ Countable /\ Target' = Target
      BY <1>1, <1>4, SameList
    <2>2. shown = due
      BY <2>1 DEF IsLate
    <2>3. Counting \/ (Beyond /\ walk.seen = 0)
      BY <1>1, <2>1 DEF CountInv
    <2>4. Counting
      BY <1>1, <1>2, <2>1, <2>2, <2>3, NothingBeyond
    <2> QED BY <1>1, <1>2, <2>1, <2>2, <2>4, ChosenIs
  <1> QED BY <1>1, <1>3, <1>4 DEF CountInv, OrdinalIsExact

\* The count goes on with the next page: the pages before it are counted, and
\* the result is not on them.
LEMMA TurnCount ==
  ASSUME CountInv, TurnPage
  PROVE  CountInv'
PROOF
  <1> SUFFICES ASSUME search.kind = "ordinal" PROVE CountInv'
    BY DEF CountInv, TurnPage
  <1>1. /\ pc = "look" /\ NoneHere /\ Turns
        /\ walk' = [walk EXCEPT !.index = @ + 1, !.seen = Passed,
                                !.visited = @ \cup {Candidates}]
        /\ due' \in Asked
        /\ shown' = IF site.blank THEN 0 ELSE shown
        /\ pc' = IF walk.index + 1 < MaxPages THEN "look" ELSE "over"
        /\ late' = (late \/ IsLate)
        /\ UNCHANGED <<search, site, probe, found>>
    BY DEF TurnPage, NoneHere, Looking
  <1>2. ListTypes
    BY DEF CountInv
  <1>3. /\ Len(site.pages) \in Nat \ {0} /\ DOMAIN site.pages = 1 .. Len(site.pages)
        /\ shown \in 0 .. Len(site.pages) /\ due \in 1 .. Len(site.pages)
    BY <1>2, ListNumbers DEF ListTypes
  <1>4. /\ walk'.call = walk.call /\ walk'.index = walk.index + 1
        /\ walk'.seen = Passed /\ walk'.visited = walk.visited \cup {Candidates}
    BY <1>1, <1>2 DEF ListTypes
  <1>5. ListTypes'
    <2>1. /\ due' \in 1 .. Len(site.pages) /\ shown' \in 0 .. Len(site.pages)
          /\ due' = 1 => shown' \in {0, 1}
      <3>1. due' \in 1 .. Len(site.pages) /\ (due' >= shown + 1 \/ due' = due)
        BY <1>1, <1>3 DEF Asked
      <3>2. shown' \in {0, shown}
        BY <1>1
      <3> QED BY <1>2, <1>3, <3>1, <3>2 DEF ListTypes
    <2>2. Candidates \in Lists /\ Len(Candidates) \in Nat
      <3>1. CASE shown = 0
        <4>1. site.other \in Others
          BY <1>2 DEF ListTypes, ResultSites
        <4>2. PICK m \in 0 .. OtherLength : site.other.results \in [1 .. m -> Texts]
          BY <4>1 DEF Others
        <4>3. m \in Nat
          BY SearchAssumption
        <4>4. site.other.results \in Seq(Texts)
          BY <4>2, <4>3, SeqDef
        <4> QED BY <3>1, <4>4, LenProperties DEF Candidates, Lists
      <3>2. CASE shown # 0
        <4>1. shown \in 1 .. Len(site.pages)
          BY <1>3, <3>2
        <4> QED BY <1>2, <1>3, <3>2, <4>1, PageNumbers DEF Candidates, Lists
      <3> QED BY <3>1, <3>2
    <2>3. Passed \in Nat
      <3>1. walk.seen \in Nat
        BY <1>2, ListNumbers
      <3> QED BY <2>2, <3>1 DEF Passed
    <2>4. walk' \in [call : 1 .. Calls, index : Nat, seen : Nat,
                     visited : SUBSET Lists]
      <3>1. /\ walk \in [call : 1 .. Calls, index : Nat, seen : Nat,
                         visited : SUBSET Lists]
            /\ Candidates \in Lists
        BY <1>2, <2>2 DEF ListTypes
      <3>2. /\ walk.visited \cup {Candidates} \in SUBSET Lists
            /\ walk.index + 1 \in Nat
        BY <3>1
      <3> QED BY <1>1, <2>3, <3>1, <3>2
    <2>5. Lists' = Lists
      BY <1>1 DEF Lists
    <2> QED BY <1>1, <1>2, <2>1, <2>4, <2>5 DEF ListTypes, IsLate
  <1>6. ASSUME ~late', Countable' PROVE pc' = "look" /\ Counting'
    <2>1. ~late /\ ~IsLate /\ Countable /\ \A n : Total(n)' = Total(n)
      BY <1>1, <1>6, SameList
    <2>2. /\ shown = due /\ shown \in 1 .. Len(site.pages) - 1
          /\ Candidates = site.pages[shown]
      <3>1. shown = due /\ HasNext /\ ~site.endless
        BY <1>1, <2>1 DEF IsLate, Turns, Countable
      <3> QED BY <1>2, <1>3, <3>1, ShownNumbers
    <2>3. Counting
      BY <1>1, <1>3, <2>1, <2>2 DEF CountInv, Beyond
    <2>7. due' = shown + 1
      BY <1>1, <1>3, <2>2 DEF Asked
    <2>4. /\ shown = walk.index + 1 /\ Passed = Total(shown)
          /\ search.ordinal = -1 \/ search.ordinal >= Total(shown)
      BY <1>1, <1>2, <2>2, <2>3, NotChosen DEF NoneHere
    <2>5. walk.index + 1 < MaxPages
      <3>1. /\ MaxPages \in Nat /\ walk.index \in Nat /\ walk.index < MaxPages
            /\ search.ordinal \in Int
        BY <1>2, <2>3, ListNumbers DEF Counting
      <3>2. CASE Len(site.pages) <= MaxPages
        BY <1>3, <2>2, <2>4, <3>1, <3>2
      <3>3. CASE search.ordinal \in 0 .. Total(MaxPages) - 1
        <4>1. search.ordinal >= Total(shown)
          BY <2>4, <3>3
        <4>2. shown # MaxPages
          <5>1. shown \in 1 .. Len(site.pages)
            BY <1>3, <2>2
          <5>2. Total(shown) \in Nat
            BY <1>2, <5>1, PageNumbers
          <5> QED BY <3>1, <3>3, <4>1, <5>2
        <4> QED BY <2>4, <3>1, <4>2
      <3> QED BY <2>1, <3>2, <3>3 DEF Countable
    <2>6. walk'.visited = {site.pages[n] : n \in 1 .. walk.index + 1}
      <3>1. 1 .. walk.index + 1 = (1 .. walk.index) \cup {shown}
        <4>1. walk.index \in Nat
          BY <1>2, ListNumbers
        <4> QED BY <2>4, <4>1
      <3> QED BY <2>2, <1>4, <2>3, <3>1 DEF Counting
    <2> QED BY <1>1, <1>4, <2>1, <2>4, <2>5, <2>6, <2>7 DEF Counting
  <1> QED BY <1>1, <1>5, <1>6 DEF CountInv, OrdinalIsExact

\* A call that breaks off has come to the end of the list, or to a first page
\* that shows nothing yet.
LEMMA BreakOffCount ==
  ASSUME CountInv, BreakOff
  PROVE  CountInv'
PROOF
  <1> SUFFICES ASSUME search.kind = "ordinal" PROVE CountInv'
    BY DEF CountInv, BreakOff
  <1>1. /\ pc = "look" /\ NoneHere /\ ~Turns
        /\ pc' = "over" /\ late' = (late \/ (IsLate /\ ~IsHarmless))
        /\ UNCHANGED <<search, site, shown, due, walk, probe, found>>
    BY DEF BreakOff, NoneHere, Looking
  <1>2. ListTypes
    BY DEF CountInv
  <1>3. ListTypes'
    BY <1>1, <1>2 DEF ListTypes, Lists
  <1>4. ASSUME ~late', Countable'
        PROVE  (due' = 1 /\ walk'.call < Calls) \/ Beyond'
    <2>1. /\ ~late /\ (IsLate => IsHarmless) /\ Countable /\ \A n : Total(n)' = Total(n)
      BY <1>1, <1>4, SameList
    <2>2. Beyond' = Beyond
      BY <1>1, <2>1 DEF Beyond
    <2>3. Counting \/ Beyond
      BY <1>1, <2>1 DEF CountInv
    <2>4. CASE shown = due /\ Counting
      <3>1. /\ Candidates = site.pages[shown] /\ shown = walk.index + 1
            /\ shown \in 1 .. Len(site.pages)
            /\ \/ search.ordinal = -1 /\ HasNext
               \/ search.ordinal # -1 /\ search.ordinal >= Total(shown)
        BY <1>1, <1>2, <2>4, NotChosen DEF NoneHere
      <3>2. Candidates \notin walk.visited
        <4> SUFFICES ASSUME Candidates \in walk.visited PROVE FALSE
          OBVIOUS
        <4>1. PICK n \in 1 .. walk.index : site.pages[n] = site.pages[shown]
          BY <2>4, <3>1 DEF Counting
        <4>2. /\ n \in DOMAIN site.pages /\ shown \in DOMAIN site.pages
              /\ n # shown
          <5>1. walk.index \in Nat /\ Len(site.pages) \in Nat
                /\ DOMAIN site.pages = 1 .. Len(site.pages)
            BY <1>2, ListNumbers
          <5> QED BY <3>1, <5>1
        <4> QED BY <2>1, <4>1, <4>2 DEF Countable
      <3>3. ~HasNext
        BY <1>1, <3>2 DEF Turns
      <3>4. shown = Len(site.pages)
        BY <1>2, <2>1, <2>4, <3>3, ShownNumbers DEF Countable
      <3> QED BY <2>2, <2>4, <3>1, <3>3, <3>4 DEF Beyond
    <2>5. CASE shown # due
      BY <1>1, <2>1, <2>5 DEF IsLate, IsHarmless
    <2> QED BY <2>2, <2>3, <2>4, <2>5
  <1> QED BY <1>1, <1>3, <1>4 DEF CountInv, OrdinalIsExact

\* A call that is repeated counts from the first page or past the end; when
\* there is none left, there is no such result.
LEMMA CallAgainCount ==
  ASSUME CountInv, CallAgain
  PROVE  CountInv'
PROOF
  <1> SUFFICES ASSUME search.kind = "ordinal" PROVE CountInv'
    BY DEF CountInv, CallAgain
  <1>1. /\ pc = "over"
        /\ UNCHANGED <<search, site, shown, due, probe, found, late>>
    BY DEF CallAgain
  <1>2. ListTypes
    BY DEF CountInv
  <1>3. CASE walk.call < Calls
    <2>1. /\ walk' = [call |-> walk.call + 1, index |-> 0, seen |-> 0,
                      visited |-> {}]
          /\ pc' = "look"
      BY <1>3 DEF CallAgain, NoWalk
    <2>2. ListTypes'
      <3>1. walk.call + 1 \in 1 .. Calls
        BY <1>2, <1>3, ListNumbers
      <3>2. walk' \in [call : 1 .. Calls, index : Nat, seen : Nat,
                       visited : SUBSET Lists]
        BY <2>1, <3>1
      <3>3. Lists' = Lists
        BY <1>1 DEF Lists
      <3> QED BY <1>1, <1>2, <2>1, <3>2, <3>3 DEF ListTypes
    <2>3. ASSUME ~late', Countable'
          PROVE  Counting' \/ (Beyond' /\ walk'.seen = 0)
      <3>1. ~late /\ Countable /\ \A n : Total(n)' = Total(n)
        BY <1>1, <2>3, SameList
      <3>2. due = 1 \/ Beyond
        BY <1>1, <3>1 DEF CountInv
      <3>3. CASE due = 1
        <4>1. Total(0) = 0
          BY <1>2, TotalBounds DEF ListTypes
        <4>2. {site.pages[n] : n \in 1 .. 0} = {}
          OBVIOUS
        <4>3. search.ordinal = -1 \/ search.ordinal >= 0
          BY <1>2, ListNumbers
        <4>4. 0 < MaxPages
          BY SearchAssumption
        <4> QED BY <1>1, <2>1, <3>1, <3>3, <4>1, <4>2, <4>3, <4>4 DEF Counting
      <3>4. CASE Beyond
        BY <1>1, <2>1, <3>1, <3>4 DEF Beyond
      <3> QED BY <3>2, <3>3, <3>4
    <2> QED BY <1>1, <2>1, <2>2, <2>3 DEF CountInv, OrdinalIsExact
  <1>4. CASE ~(walk.call < Calls)
    <2>1. walk' = walk /\ pc' = "done"
      BY <1>4 DEF CallAgain
    <2>2. ListTypes'
      BY <1>1, <1>2, <2>1 DEF ListTypes, Lists
    <2>3. ASSUME ~late', Countable' PROVE found' = Target'
      <3>1. ~late /\ Countable /\ Target' = Target
        BY <1>1, <2>3, SameList
      <3>2. Beyond
        BY <1>1, <1>4, <3>1 DEF CountInv
      <3>3. Target = None
        BY <1>2, <3>2, NoTarget DEF Beyond
      <3>4. found = None
        BY <1>1, <1>2 DEF ListTypes
      <3> QED BY <1>1, <3>1, <3>3, <3>4
    <2> QED BY <2>1, <2>2, <2>3 DEF CountInv, OrdinalIsExact
  <1> QED BY <1>3, <1>4

\* The steps of the search for a number are not steps of this one.
LEMMA FeedbackSteps ==
  ASSUME CountInv, Submit \/ ReadFeedback \/ GiveUp
  PROVE  CountInv'
PROOF
  <1>1. pc \in {"guess", "read"} /\ search' = search
    BY DEF Submit, ReadFeedback, GiveUp, Guessing
  <1>2. search.kind # "ordinal"
    BY <1>1 DEF CountInv, ListTypes
  <1> QED BY <1>1, <1>2 DEF CountInv

\* A step that changes nothing keeps the count.
LEMMA StutterCount ==
  ASSUME CountInv, UNCHANGED vars
  PROVE  CountInv'
PROOF
  <1>1. UNCHANGED <<search, site, shown, due, walk, found, pc, late>>
    BY DEF vars
  <1>2. /\ ListTypes' = ListTypes /\ Counting' = Counting /\ Beyond' = Beyond
        /\ Countable' = Countable /\ Target' = Target
    BY <1>1, SameList DEF ListTypes, Lists, Counting, Beyond
  <1> QED BY <1>1, <1>2 DEF CountInv, OrdinalIsExact

\* The invariant of the search by ordinal: until the result is found, exactly
\* the pages before the one asked for last are counted, and it is not on them
\* (workflow_runtime.rs, the loop over maxResultPages and its repetitions).
THEOREM CountInvariance == Spec => []CountInv
PROOF
  <1>1. CountInv /\ [Next]_vars => CountInv'
    BY ArriveCount, ClickCount, TurnCount, BreakOffCount, CallAgainCount,
       FeedbackSteps, StutterCount
       DEF Next
  <1> QED BY <1>1, InitCount, PTL DEF Spec

\* chooseOrdinalResult, called as often as it is, clicks the result asked for
\* in every list it counts right, of any number of pages and results, and none
\* where the list is shorter, unless a page came later than its waits.
THEOREM OrdinalSafety == Spec => []OrdinalIsExact
PROOF
  <1>1. CountInv => OrdinalIsExact
    BY DEF CountInv, OrdinalIsExact
  <1> QED BY <1>1, CountInvariance, PTL
=============================================================================

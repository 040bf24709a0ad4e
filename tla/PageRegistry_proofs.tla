-------------------------- MODULE PageRegistry_proofs --------------------------
(***************************************************************************)
(* Proofs about PageRegistry, for any tabs and any number of connections   *)
(* and recoveries.  What each operation of the registry does to the list   *)
(* is a lemma of its own (RegisterKeeps, SetActiveKeeps, RemoveKeeps,      *)
(* ReplaceKeeps); RegistrySteps says of every step what it does to the     *)
(* list and to the active page, and the invariants follow from that and    *)
(* from who clears the frame (FrameSteps) and who holds a tab (Holding).   *)
(***************************************************************************)
EXTENDS PageRegistry, SequenceTheorems, WellFoundedInduction, TLAPS

Listings == [id : Nat \ {0}, tab : Targets]

RegistryOK ==
  /\ entries \in Seq(Listings)
  /\ active \in Nat
  /\ nextId \in Nat \ {0}
  /\ ActiveListed

\* A tab that is listed more than once.
Twice(t) ==
  \E i, j \in DOMAIN entries :
    i # j /\ entries[i].tab = t /\ entries[j].tab = t

\* Who is under way with a tab has one, the tracker one that was opened.  The
\* tab it has just made active is listed until close_page or a recovery takes
\* it off the list.
Holding ==
  /\ core.at \in {"checking", "attaching", "activated"} => core.tab \in Targets
  /\ core.at \in {"idle", "asking", "discovering"} => core.tab = None
  /\ core.at \in {"attaching", "activated"} => core.tab \in opened
  /\ core.at = "activated" /\ core.tab \in tabs =>
       core.tab \in Listed \cup unlisted
  /\ follower.at # "idle" => follower.tab \in Targets
  /\ \A c \in Conns : conn[c].at = "applying" => conn[c].tab \in Targets

\* A tab reported as created has been opened, one reported as destroyed is
\* gone for good.
Announced == \A i \in DOMAIN created : created[i] \in opened
Gone == \A i \in DOMAIN destroyed : destroyed[i] \in opened \ tabs

IInv ==
  /\ TypeOK
  /\ ActiveListed
  /\ OneEntryPerTab
  /\ NoStaleFrame
  /\ OpenTabsGetListed
  /\ Holding
  /\ Announced
  /\ Gone

-----------------------------------------------------------------------------
(* Sequences and positions.                                                *)

\* A set of naturals that is not empty has a least member.
LEMMA LeastNatural ==
  ASSUME NEW T, T \subseteq Nat, T # {}
  PROVE  \E m \in T : \A n \in T : m <= n
PROOF
  <1> DEFINE LessThan == {p \in Nat \X Nat : p[1] < p[2]}
  <1>1. OpToRel(<, Nat) = LessThan
    BY Zenon DEF OpToRel
  <1>2. IsWellFoundedOn(LessThan, Nat)
    BY <1>1, NatLessThanWellFounded, Zenon
  <1>3. PICK m \in T : \A n \in T : <<n, m>> \notin LessThan
    BY <1>2, WFMin
  <1>4. ASSUME NEW n \in T PROVE m <= n
    <2>1. n \in Nat /\ m \in Nat /\ <<n, m>> \notin LessThan
      BY <1>3
    <2>2. ~(n < m)
      BY <2>1
    <2> QED BY <2>1, <2>2
  <1> QED BY <1>4

\* A sequence without one of its elements.
LEMMA RemoveAtIs ==
  ASSUME NEW S, NEW s \in Seq(S), NEW i \in 1 .. Len(s)
  PROVE  LET r == Seqs!RemoveAt(s, i) IN
         /\ r \in Seq(S)
         /\ Len(r) = Len(s) - 1
         /\ \A j \in 1 .. Len(r) : r[j] = IF j < i THEN s[j] ELSE s[j + 1]
PROOF
  <1> DEFINE a == SubSeq(s, 1, i - 1)
             b == SubSeq(s, i + 1, Len(s))
  <1>1. Len(s) \in Nat /\ \A j \in 1 .. Len(s) : s[j] \in S
    BY ElementOfSeq
  <1>2. /\ a \in Seq(S) /\ Len(a) = i - 1
        /\ \A j \in 1 .. i - 1 : a[j] = s[j]
    <2>1. \A j \in 1 .. i - 1 : s[j] \in S
      BY <1>1
    <2> QED BY <1>1, <2>1, SubSeqProperties
  <1>3. /\ b \in Seq(S) /\ Len(b) = Len(s) - i
        /\ \A j \in 1 .. Len(s) - i : b[j] = s[i + j]
    <2>1. \A j \in i + 1 .. Len(s) : s[j] \in S
      BY <1>1
    <2> QED BY <1>1, <2>1, SubSeqProperties
  <1> HIDE DEF a, b
  <1>4. /\ a \o b \in Seq(S)
        /\ Len(a \o b) = Len(a) + Len(b)
        /\ \A j \in 1 .. Len(a) + Len(b) :
             (a \o b)[j] = IF j <= Len(a) THEN a[j] ELSE b[j - Len(a)]
    BY <1>2, <1>3, ConcatProperties
  <1>5. ASSUME NEW j \in 1 .. Len(s) - 1
        PROVE  (a \o b)[j] = IF j < i THEN s[j] ELSE s[j + 1]
    <2>1. CASE j < i
      BY <1>1, <1>2, <1>3, <1>4, <2>1
    <2>2. CASE ~(j < i)
      <3>1. (a \o b)[j] = b[j - Len(a)] /\ j - Len(a) \in 1 .. Len(s) - i
        BY <1>1, <1>2, <1>3, <1>4, <2>2
      <3>2. i + (j - Len(a)) = j + 1
        BY <1>2
      <3> QED BY <1>3, <2>2, <3>1, <3>2
    <2> QED BY <2>1, <2>2
  <1>6. Seqs!RemoveAt(s, i) = a \o b
    BY DEF Seqs!RemoveAt, a, b
  <1>7. Len(a \o b) = Len(s) - 1
    BY <1>1, <1>2, <1>3, <1>4
  <1> QED BY <1>4, <1>5, <1>6, <1>7

\* Ids ascend, so an id that is listed has exactly one position.
LEMMA PositionIs ==
  ASSUME RegistryOK, NEW id \in Ids
  PROVE  /\ Position(id) \in 1 .. Len(entries)
         /\ entries[Position(id)].id = id
         /\ \A i \in 1 .. Len(entries) : entries[i].id = id => i = Position(id)
PROOF
  <1>1. DOMAIN entries = 1 .. Len(entries) /\ Len(entries) \in Nat
        /\ \A i \in 1 .. Len(entries) : entries[i].id \in Nat
    <2>1. \A i \in 1 .. Len(entries) : entries[i] \in Listings
      BY ElementOfSeq DEF RegistryOK
    <2> QED BY <2>1 DEF RegistryOK, Listings
  <1>2. \E i \in DOMAIN entries : entries[i].id = id
    BY DEF Ids
  <1>3. Position(id) \in DOMAIN entries /\ entries[Position(id)].id = id
    BY <1>2 DEF Position
  <1>4. \A i, j \in DOMAIN entries : i < j => entries[i].id < entries[j].id
    BY DEF RegistryOK, ActiveListed
  <1>5. ASSUME NEW i \in 1 .. Len(entries), entries[i].id = id
        PROVE  i = Position(id)
    <2>1. Position(id) \in 1 .. Len(entries)
      BY <1>1, <1>3
    <2> HIDE DEF Position
    <2>2. ~(i < Position(id)) /\ ~(Position(id) < i)
      BY <1>1, <1>3, <1>4, <1>5, <2>1
    <2> QED BY <2>1, <2>2
  <1> QED BY <1>1, <1>3, <1>5

\* The active page is the tab of the entry with the active id, ...
ActiveShown ==
  /\ ActivePage \in Listed
  /\ \A i \in DOMAIN entries : entries[i].id = active =>
       ActivePage = entries[i].tab

\* An entry with the active id shows the active page.
LEMMA ActivePageIs == RegistryOK => ActiveShown
PROOF
  <1> SUFFICES ASSUME RegistryOK PROVE ActiveShown
    OBVIOUS
  <1>1. active \in Ids /\ DOMAIN entries = 1 .. Len(entries)
    BY DEF RegistryOK, ActiveListed
  <1> QED BY <1>1, PositionIs DEF ActiveShown, ActivePage, Entry, Listed

\* ... also in the next state.
LEMMA ActivePageIsNext == RegistryOK' => ActiveShown'
PROOF BY ActivePageIs, PTL

\* A listed tab is found.
LEMMA FindsListed ==
  ASSUME RegistryOK, NEW t \in Listed
  PROVE  FindByTarget(t) \in Ids /\ Entry(FindByTarget(t)).tab = t
PROOF
  <1> DEFINE T == {i \in DOMAIN entries : entries[i].tab = t}
             IsFirst(i) == /\ entries[i].tab = t
                           /\ \A j \in 1 .. i - 1 : entries[j].tab # t
  <1>1. DOMAIN entries = 1 .. Len(entries) /\ Len(entries) \in Nat
    BY DEF RegistryOK
  <1>2. T \subseteq Nat /\ T # {}
    BY <1>1 DEF Listed
  <1>3. PICK m \in T : \A n \in T : m <= n
    BY <1>2, LeastNatural
  <1>4. m \in DOMAIN entries /\ IsFirst(m)
    <2>1. ASSUME NEW j \in 1 .. m - 1 PROVE entries[j].tab # t
      <3>1. j \in DOMAIN entries /\ ~(m <= j)
        BY <1>1, <1>3
      <3> QED BY <1>3, <3>1
    <2> QED BY <1>3, <2>1
  <1>5. PICK i \in DOMAIN entries :
          /\ IsFirst(i)
          /\ FindByTarget(t) = entries[i].id
    <2> DEFINE f == CHOOSE i \in DOMAIN entries : IsFirst(i)
    <2>1. f \in DOMAIN entries /\ IsFirst(f)
      BY <1>4
    <2>2. FindByTarget(t) = entries[f].id
      BY DEF FindByTarget
    <2> QED BY <2>1, <2>2
  <1>6. FindByTarget(t) \in Ids
    BY <1>5 DEF Ids
  <1>7. i = Position(FindByTarget(t))
    BY <1>1, <1>5, <1>6, PositionIs
  <1> QED BY <1>5, <1>6, <1>7 DEF Entry

-----------------------------------------------------------------------------
(* The operations of the registry.                                         *)

LEMMA RegisterKeeps ==
  ASSUME RegistryOK, NEW t \in Targets, NEW a \in BOOLEAN, Register(t, a)
  PROVE  /\ RegistryOK'
         /\ Listed' = Listed \cup {t}
         /\ \A u : Twice(u)' => Twice(u) \/ (u = t /\ t \in Listed)
         /\ a = FALSE => ActivePage' = ActivePage
PROOF
  <1> DEFINE e == [id |-> nextId, tab |-> t]
  <1>1. /\ entries \in Seq(Listings) /\ active \in Nat /\ nextId \in Nat \ {0}
        /\ Len(entries) \in Nat /\ DOMAIN entries = 1 .. Len(entries)
    BY DEF RegistryOK
  <1>2. entries # << >>
    BY DEF RegistryOK, ActiveListed, Ids
  <1>3. e \in Listings /\ e.id = nextId /\ e.tab = t
    BY <1>1 DEF Listings
  <1>4. /\ entries' = Append(entries, e) /\ nextId' = nextId + 1
        /\ active' = IF a THEN nextId ELSE active
    BY <1>2 DEF Register
  <1> HIDE DEF e
  <1>5. /\ entries' \in Seq(Listings) /\ Len(entries') = Len(entries) + 1
        /\ \A i \in 1 .. Len(entries) : entries'[i] = entries[i]
        /\ entries'[Len(entries) + 1] = e
    BY <1>1, <1>3, <1>4, AppendProperties
  <1>6. /\ DOMAIN entries' = 1 .. Len(entries) + 1
        /\ \A i \in 1 .. Len(entries) + 1 :
             i \in 1 .. Len(entries) \/ i = Len(entries) + 1
    BY <1>1, <1>5
  <1>7. RegistryOK'
    <2>1. active' \in Ids' /\ active' \in Nat
      <3>1. active \in Ids'
        <4>1. PICK i \in 1 .. Len(entries) : entries[i].id = active
          BY <1>1 DEF RegistryOK, ActiveListed, Ids
        <4> QED BY <1>5, <1>6, <4>1 DEF Ids
      <3>2. nextId \in Ids'
        BY <1>1, <1>3, <1>5, <1>6 DEF Ids
      <3> QED BY <1>1, <1>4, <3>1, <3>2
    <2>2. \A i \in 1 .. Len(entries) :
            entries[i].id < nextId /\ entries[i].id \in Nat
      <3>1. \A i \in 1 .. Len(entries) : entries[i] \in Listings
        BY <1>1, ElementOfSeq
      <3> QED BY <1>1, <3>1 DEF RegistryOK, ActiveListed, Listings
    <2>3. \A i, j \in 1 .. Len(entries) :
            i < j => entries[i].id < entries[j].id
      BY <1>1 DEF RegistryOK, ActiveListed
    <2>4. \A i \in DOMAIN entries' : entries'[i].id < nextId'
      BY <1>1, <1>3, <1>4, <1>5, <1>6, <2>2
    <2>5. ASSUME NEW i \in DOMAIN entries', NEW j \in DOMAIN entries', i < j
          PROVE  entries'[i].id < entries'[j].id
      <3>1. i \in 1 .. Len(entries)
        BY <1>1, <1>6, <2>5
      <3> QED BY <1>1, <1>3, <1>5, <1>6, <2>2, <2>3, <2>5, <3>1
    <2> QED BY <1>1, <1>4, <1>5, <2>1, <2>4, <2>5 DEF RegistryOK, ActiveListed
  <1>8. Listed' = Listed \cup {t}
    BY <1>1, <1>3, <1>5, <1>6 DEF Listed
  <1>9. ASSUME NEW u, Twice(u)' PROVE Twice(u) \/ (u = t /\ t \in Listed)
    <2>1. PICK i, j \in 1 .. Len(entries) + 1 :
            i # j /\ entries'[i].tab = u /\ entries'[j].tab = u
      BY <1>6, <1>9 DEF Twice
    <2>2. CASE i \in 1 .. Len(entries) /\ j \in 1 .. Len(entries)
      BY <1>1, <1>5, <2>1, <2>2 DEF Twice
    <2>3. CASE i = Len(entries) + 1 \/ j = Len(entries) + 1
      BY <1>1, <1>3, <1>5, <1>6, <2>1, <2>3 DEF Listed
    <2> QED BY <1>6, <2>2, <2>3
  <1>10. ASSUME a = FALSE PROVE ActivePage' = ActivePage
    <2>1. PICK i \in 1 .. Len(entries) : entries[i].id = active
      BY <1>1 DEF RegistryOK, ActiveListed, Ids
    <2>2. ActivePage = entries[i].tab
      BY <1>1, <2>1, ActivePageIs DEF ActiveShown
    <2>3. i \in DOMAIN entries' /\ entries'[i] = entries[i] /\ active' = active
      BY <1>4, <1>5, <1>6, <1>10, <2>1
    <2> QED BY <1>7, <2>1, <2>2, <2>3, ActivePageIsNext DEF ActiveShown
  <1> QED BY <1>7, <1>8, <1>9, <1>10

\* set_active, given a listed id, changes no entry.
LEMMA SetActiveKeeps ==
  ASSUME RegistryOK, NEW id \in Ids, SetActive(id)
  PROVE  RegistryOK' /\ UNCHANGED entries
PROOF
  <1>1. active' = id /\ UNCHANGED <<entries, nextId>>
    BY DEF SetActive
  <1>2. Ids' = Ids /\ \A i \in DOMAIN entries : entries[i].id \in Nat
    <2>1. \A i \in DOMAIN entries : entries[i] \in Listings
      BY ElementOfSeq DEF RegistryOK
    <2> QED BY <1>1, <2>1 DEF Ids, Listings
  <1>3. id \in Nat
    BY <1>2 DEF Ids
  <1> QED BY <1>1, <1>2, <1>3 DEF RegistryOK, ActiveListed

\* remove takes one entry away: no other tab is forgotten, none is listed twice
\* that was not before.
LEMMA RemoveKeeps ==
  ASSUME RegistryOK, NEW id \in Ids, Remove(id)
  PROVE  /\ RegistryOK'
         /\ Listed' \subseteq Listed
         /\ \A u \in Listed : u \in Listed' \/ u = Entry(id).tab
         /\ \A u : Twice(u)' => Twice(u)
PROOF
  <1> DEFINE p == Position(id)
             From(j) == IF j < p THEN j ELSE j + 1
  <1>1. /\ entries \in Seq(Listings) /\ active \in Nat /\ nextId \in Nat \ {0}
        /\ Len(entries) \in Nat /\ DOMAIN entries = 1 .. Len(entries)
    BY DEF RegistryOK
  <1>2. /\ p \in 1 .. Len(entries) /\ entries[p].id = id
        /\ \A i \in 1 .. Len(entries) : entries[i].id = id => i = p
    BY PositionIs
  <1>3. /\ Len(entries) > 1 /\ nextId' = nextId
        /\ entries' = Seqs!RemoveAt(entries, p)
        /\ active' = IF active = id THEN Head(entries').id ELSE active
    BY DEF Remove
  <1>4. Entry(id) = entries[p]
    BY DEF Entry
  <1> HIDE DEF p
  <1>5. LET r == Seqs!RemoveAt(entries, p) IN
        /\ r \in Seq(Listings) /\ Len(r) = Len(entries) - 1
        /\ \A j \in 1 .. Len(r) :
             r[j] = IF j < p THEN entries[j] ELSE entries[j + 1]
    BY <1>1, <1>2, RemoveAtIs
  <1>6. /\ entries' \in Seq(Listings) /\ Len(entries') = Len(entries) - 1
        /\ DOMAIN entries' = 1 .. Len(entries) - 1
        /\ \A j \in 1 .. Len(entries) - 1 : entries'[j] = entries[From(j)]
    BY <1>3, <1>5
  <1>7. \A j \in 1 .. Len(entries) - 1 : From(j) \in 1 .. Len(entries) \ {p}
    BY <1>1, <1>2
  <1>8. \A i, j \in 1 .. Len(entries) - 1 : i < j => From(i) < From(j)
    BY <1>1, <1>2
  <1>9. ASSUME NEW i \in 1 .. Len(entries), i # p
        PROVE  \E j \in 1 .. Len(entries) - 1 : From(j) = i
    <2>1. CASE i < p
      <3>1. i \in 1 .. Len(entries) - 1
        BY <1>1, <1>2, <2>1
      <3> QED BY <2>1, <3>1
    <2>2. CASE i > p
      <3>1. i - 1 \in 1 .. Len(entries) - 1 /\ ~(i - 1 < p) /\ (i - 1) + 1 = i
        BY <1>1, <1>2, <2>2
      <3> QED BY <3>1
    <2> QED BY <1>1, <1>2, <1>9, <2>1, <2>2
  <1> HIDE DEF From
  <1>10. \A i \in 1 .. Len(entries) :
           /\ entries[i] \in Listings /\ entries[i].id \in Nat
           /\ entries[i].id < nextId
    <2>1. \A i \in 1 .. Len(entries) : entries[i] \in Listings
      BY <1>1, ElementOfSeq
    <2> QED BY <1>1, <2>1 DEF RegistryOK, ActiveListed, Listings
  <1>11. RegistryOK'
    <2>1. active' \in Ids' /\ active' \in Nat
      <3>1. CASE active = id
        <4>1. 1 \in 1 .. Len(entries) - 1 /\ Head(entries') = entries'[1]
          BY <1>1, <1>3, <1>6
        <4>2. active' = entries'[1].id
          BY <1>3, <3>1, <4>1
        <4>3. entries'[1].id \in Nat
          BY <1>6, <1>7, <1>10, <4>1
        <4> QED BY <1>6, <4>1, <4>2, <4>3 DEF Ids
      <3>2. CASE active # id
        <4>1. PICK i \in 1 .. Len(entries) : entries[i].id = active
          BY <1>1 DEF RegistryOK, ActiveListed, Ids
        <4>2. i # p
          BY <1>2, <3>2, <4>1
        <4>3. PICK j \in 1 .. Len(entries) - 1 : From(j) = i
          BY <1>9, <4>2
        <4>4. entries'[j].id = active
          BY <1>6, <4>1, <4>3
        <4> QED BY <1>1, <1>3, <1>6, <3>2, <4>4 DEF Ids
      <3> QED BY <3>1, <3>2
    <2>2. \A i \in DOMAIN entries' : entries'[i].id < nextId'
      BY <1>3, <1>6, <1>7, <1>10
    <2>3. ASSUME NEW i \in DOMAIN entries', NEW j \in DOMAIN entries', i < j
          PROVE  entries'[i].id < entries'[j].id
      <3>1. /\ From(i) \in DOMAIN entries /\ From(j) \in DOMAIN entries
            /\ From(i) < From(j)
        BY <1>1, <1>6, <1>7, <1>8, <2>3
      <3>2. entries[From(i)].id < entries[From(j)].id
        BY <3>1 DEF RegistryOK, ActiveListed
      <3> QED BY <1>6, <3>2
    <2> QED BY <1>1, <1>3, <1>6, <2>1, <2>2, <2>3 DEF RegistryOK, ActiveListed
  <1>12. Listed' \subseteq Listed
    BY <1>1, <1>6, <1>7 DEF Listed
  <1>13. ASSUME NEW u \in Listed PROVE u \in Listed' \/ u = Entry(id).tab
    <2>1. PICK i \in 1 .. Len(entries) : entries[i].tab = u
      BY <1>1 DEF Listed
    <2>2. CASE i = p
      BY <1>4, <2>1, <2>2
    <2>3. CASE i # p
      <3>1. PICK j \in 1 .. Len(entries) - 1 : From(j) = i
        BY <1>9, <2>3
      <3> QED BY <1>6, <2>1, <3>1 DEF Listed
    <2> QED BY <2>2, <2>3
  <1>14. ASSUME NEW u, Twice(u)' PROVE Twice(u)
    <2>1. PICK i, j \in 1 .. Len(entries) - 1 :
            i # j /\ entries'[i].tab = u /\ entries'[j].tab = u
      BY <1>6, <1>14 DEF Twice
    <2>2. From(i) # From(j)
      <3>1. From(i) \in Int /\ From(j) \in Int
        BY <1>1, <1>7
      <3> QED BY <1>8, <2>1, <3>1
    <2> QED BY <1>1, <1>6, <1>7, <2>1, <2>2 DEF Twice
  <1> QED BY <1>11, <1>12, <1>13, <1>14

\* replace_page_handle turns one entry into the given tab; every other tab is
\* listed as it was.
LEMMA ReplaceKeeps ==
  ASSUME RegistryOK, NEW id \in Ids, NEW t \in Targets,
         ReplacePageHandle(id, t)
  PROVE  /\ RegistryOK'
         /\ Listed' \subseteq Listed \cup {t}
         /\ t \in Listed'
         /\ \A u \in Listed : u \in Listed' \/ u = Entry(id).tab
         /\ \A u : Twice(u)' => Twice(u) \/ u = t
PROOF
  <1> DEFINE e == [id |-> id, tab |-> t]
  <1>1. /\ entries \in Seq(Listings) /\ active \in Nat /\ nextId \in Nat \ {0}
        /\ Len(entries) \in Nat /\ DOMAIN entries = 1 .. Len(entries)
    BY DEF RegistryOK
  <1>2. \A i \in 1 .. Len(entries) : entries[i] \in Listings
    BY <1>1, ElementOfSeq
  <1>3. /\ Position(id) \in 1 .. Len(entries) /\ entries[Position(id)].id = id
        /\ \A i \in 1 .. Len(entries) : entries[i].id = id => i = Position(id)
        /\ Entry(id) = entries[Position(id)]
    BY PositionIs DEF Entry
  <1>4. /\ entries' = [i \in 1 .. Len(entries) |->
                         IF entries[i].id = id THEN e ELSE entries[i]]
        /\ active' = id /\ nextId' = nextId
    BY <1>1 DEF ReplacePageHandle
  <1>5. id \in Nat \ {0} /\ e \in Listings /\ e.id = id /\ e.tab = t
    BY <1>2, <1>3 DEF Listings
  <1> HIDE DEF e
  <1>6. /\ entries' \in Seq(Listings) /\ Len(entries') = Len(entries)
        /\ DOMAIN entries' = 1 .. Len(entries)
    <2>1. entries' \in [1 .. Len(entries) -> Listings]
      BY <1>2, <1>4, <1>5
    <2> QED BY <1>1, <2>1
  <1>7. \A i \in 1 .. Len(entries) :
          /\ entries'[i].id = entries[i].id
          /\ entries'[i].tab = IF i = Position(id) THEN t ELSE entries[i].tab
    BY <1>3, <1>4, <1>5
  <1>8. RegistryOK'
    BY <1>1, <1>3, <1>4, <1>5, <1>6, <1>7 DEF RegistryOK, ActiveListed, Ids
  <1>9. Listed' \subseteq Listed \cup {t} /\ t \in Listed'
    BY <1>1, <1>3, <1>6, <1>7 DEF Listed
  <1>10. \A u \in Listed : u \in Listed' \/ u = Entry(id).tab
    BY <1>1, <1>3, <1>6, <1>7 DEF Listed
  <1>11. ASSUME NEW u, Twice(u)', u # t PROVE Twice(u)
    BY <1>1, <1>6, <1>7, <1>11 DEF Twice
  <1> QED BY <1>8, <1>9, <1>10, <1>11

-----------------------------------------------------------------------------
(* The steps.                                                              *)

\* What any step may do to the registry: only a recovery lists a tab twice,
\* who moves the active page will clear the frame, and an open tab leaves the
\* list only where the history says so.
Outcome ==
  /\ RegistryOK'
  /\ \A u : Twice(u)' => Twice(u) \/ u \in adopted'
  /\ adopted \subseteq adopted'
  /\ ActivePage' = ActivePage \/ FrameIsBeingCleared'
  /\ \A u \in Listed : u \in Listed' \cup unlisted' \/ u \notin tabs'

\* A step that leaves the registry alone has no other effect on it.
LEMMA QuietStep ==
  ASSUME RegistryOK, UNCHANGED registry, adopted' = adopted
  PROVE  Outcome
PROOF
  <1>1. UNCHANGED <<entries, active, nextId>>
    BY DEF registry
  <1>2. RegistryOK' /\ Listed' = Listed /\ \A u : Twice(u)' = Twice(u)
    BY <1>1 DEF RegistryOK, ActiveListed, Ids, Listed, Twice
  <1>3. ActivePage' = ActivePage
    BY <1>1 DEF ActivePage, Entry, Position
  <1> QED BY <1>2, <1>3 DEF Outcome

\* These actions leave the registry alone.
Quiet ==
  \/ Browser \/ AskPages
  \/ \E t \in Targets : Discover(t)
  \/ Discovered \/ CoreLookup \/ CoreGivesUp \/ CoreClearFrame
  \/ DestroyedClearFrame
  \/ FollowLookup \/ FollowGivesUp \/ FollowSwitchesViewer
  \/ \E c \in Conns :
       \/ View(c) \/ ViewStarts(c) \/ SelectFrame(c) \/ ClearFrame(c)
       \/ CloseTarget(c) \/ Refresh(c) \/ NoBrowserPage(c)
       \/ \E t \in Targets : SelectBrowserPage(c, t)

\* The steps that write the registry, and all others.
LEMMA NextCases ==
  ASSUME Next
  PROVE  \/ Quiet
         \/ RegisterFound \/ CoreRegister \/ TargetDestroyed \/ FollowRegister
         \/ \E c \in Conns :
              \/ \E id \in Ids : SwitchPage(c, id) \/ ClosePage(c, id)
              \/ ApplyRefresh(c)
PROOF BY DEF Next, CoreTask, DestroyedTask, FollowTask, Command, Quiet

\* Whatever step is taken, the registry changes only in the ways of Outcome.
LEMMA RegistrySteps ==
  ASSUME IInv, Next
  PROVE  Outcome
PROOF
  <1>1. /\ RegistryOK
        /\ conn \in [Conns -> [at : {"idle", "starting", "changed", "closing",
                                     "selecting", "applying"},
                               tab : Targets \cup {None}, id : Nat]]
    BY DEF IInv, TypeOK, RegistryOK, Listings
  <1>2. CASE Quiet
    <2>1. UNCHANGED registry /\ adopted' = adopted
      BY <1>2 DEF Quiet, Browser, OpenTab, CloseTab, AskPages,
        Discover, PassOver, Discovered,
        CoreLookup, CoreGivesUp, CoreClearFrame, DestroyedClearFrame,
        FollowLookup, FollowGivesUp, FollowSwitchesViewer, View, ViewStarts,
        SelectFrame, ClearFrame, CloseTarget, Refresh, NoBrowserPage,
        SelectBrowserPage, history, registry
    <2> QED BY <1>1, <2>1, QuietStep
  <1>3. CASE RegisterFound
    <2>1. core.tab \in Targets /\ UNCHANGED <<adopted, history>>
      BY <1>3 DEF RegisterFound, history, IInv, Holding
    <2>2. CASE core.tab \in Listed
      BY <1>1, <1>3, <2>1, <2>2, QuietStep DEF RegisterFound
    <2>3. CASE core.tab \notin Listed
      <3>1. Register(core.tab, FALSE)
        BY <1>3, <2>3 DEF RegisterFound
      <3> QED BY <1>1, <2>1, <2>3, <3>1, RegisterKeeps DEF Outcome
    <2> QED BY <2>2, <2>3
  <1>4. CASE CoreRegister
    <2>1. core.tab \in Targets /\ UNCHANGED <<adopted, history>>
      BY <1>4 DEF CoreRegister, history, IInv, Holding
    <2>2. FrameIsBeingCleared'
      BY <1>4 DEF CoreRegister, CoreIs, FrameIsBeingCleared, IInv, TypeOK
    <2>3. CASE core.tab \in Listed
      BY <1>1, <1>4, <2>1, <2>3, QuietStep DEF CoreRegister
    <2>4. CASE core.tab \notin Listed
      <3>1. Register(core.tab, TRUE)
        BY <1>4, <2>4 DEF CoreRegister
      <3> QED BY <1>1, <2>1, <2>2, <2>4, <3>1, RegisterKeeps DEF Outcome
    <2> QED BY <2>3, <2>4
  <1>5. CASE TargetDestroyed
    <2> DEFINE t == Head(destroyed)
    <2>1. UNCHANGED <<adopted, history>> /\ tabs' = tabs /\ destroyed # << >>
      BY <1>5 DEF TargetDestroyed, history
    <2>2. t \notin tabs
      <3>1. destroyed \in Seq(Targets)
        BY DEF IInv, TypeOK
      <3>2. 1 \in DOMAIN destroyed /\ t = destroyed[1]
        BY <2>1, <3>1
      <3> QED BY <3>2 DEF IInv, Gone
    <2>3. CASE t \in Listed /\ Len(entries) > 1
      <3>1. Remove(FindByTarget(t)) /\ cleaning' = TRUE
        BY <1>5, <2>3 DEF TargetDestroyed
      <3>2. FindByTarget(t) \in Ids /\ Entry(FindByTarget(t)).tab = t
        BY <1>1, <2>3, FindsListed
      <3>3. FrameIsBeingCleared'
        BY <3>1 DEF FrameIsBeingCleared
      <3> HIDE DEF t
      <3> QED BY <1>1, <2>1, <2>2, <3>1, <3>2, <3>3, RemoveKeeps DEF Outcome
    <2>4. CASE ~(t \in Listed /\ Len(entries) > 1)
      BY <1>1, <1>5, <2>1, <2>4, QuietStep DEF TargetDestroyed
    <2> QED BY <2>3, <2>4
  <1>6. CASE FollowRegister
    <2> DEFINE t == follower.tab
    <2>1. t \in Targets /\ UNCHANGED <<adopted, history>>
      BY <1>6 DEF FollowRegister, history, IInv, Holding
    <2>2. FrameIsBeingCleared'
      BY <1>6 DEF FollowRegister, Job, FrameIsBeingCleared
    <2>3. CASE t \in Listed
      <3>1. SetActive(FindByTarget(t)) /\ FindByTarget(t) \in Ids
        BY <1>1, <1>6, <2>3, FindsListed DEF FollowRegister
      <3>2. RegistryOK' /\ UNCHANGED entries
        BY <1>1, <3>1, SetActiveKeeps
      <3> QED BY <2>1, <2>2, <3>2 DEF Outcome, Twice, Listed
    <2>4. CASE t \notin Listed
      <3>1. Register(t, TRUE)
        BY <1>6, <2>4 DEF FollowRegister
      <3> QED BY <1>1, <2>1, <2>2, <2>4, <3>1, RegisterKeeps DEF Outcome
    <2> QED BY <2>3, <2>4
  <1>7. ASSUME NEW c \in Conns, NEW id \in Ids, SwitchPage(c, id) PROVE Outcome
    <2>1. RegistryOK' /\ UNCHANGED entries
      BY <1>1, <1>7, SetActiveKeeps DEF SwitchPage
    <2>2. FrameIsBeingCleared'
      BY <1>1, <1>7 DEF SwitchPage, Go, FrameIsBeingCleared
    <2>3. adopted' = adopted
      BY <1>7 DEF SwitchPage, history
    <2> QED BY <2>1, <2>2, <2>3 DEF Outcome, Twice, Listed
  <1>8. ASSUME NEW c \in Conns, NEW id \in Ids, ClosePage(c, id) PROVE Outcome
    <2>1. Remove(id) /\ Entry(id).tab \in unlisted' /\ adopted' = adopted
      BY <1>8 DEF ClosePage
    <2>2. FrameIsBeingCleared'
      BY <1>1, <1>8 DEF ClosePage, Go, FrameIsBeingCleared
    <2> QED BY <1>1, <2>1, <2>2, RemoveKeeps DEF Outcome
  <1>9. ASSUME NEW c \in Conns, ApplyRefresh(c) PROVE Outcome
    <2> DEFINE t == conn[c].tab
               id == conn[c].id
    <2>1. t \in Targets /\ adopted' = adopted \cup {t}
      BY <1>9 DEF ApplyRefresh, IInv, Holding
    <2>2. FrameIsBeingCleared'
      BY <1>1, <1>9 DEF ApplyRefresh, Go, FrameIsBeingCleared
    <2>3. CASE id \in Ids
      <3>1. /\ ReplacePageHandle(id, t)
            /\ unlisted' = unlisted \cup ({Entry(id).tab} \ {t})
        BY <1>9, <2>3 DEF ApplyRefresh
      <3> HIDE DEF t, id
      <3>2. /\ RegistryOK' /\ t \in Listed'
            /\ \A u \in Listed : u \in Listed' \/ u = Entry(id).tab
            /\ \A u : Twice(u)' => Twice(u) \/ u = t
        BY <1>1, <2>1, <2>3, <3>1, ReplaceKeeps
      <3> QED BY <2>1, <2>2, <3>1, <3>2 DEF Outcome
    <2>4. CASE id \notin Ids
      <3>1. Register(t, TRUE)
        BY <1>9, <2>4 DEF ApplyRefresh
      <3> HIDE DEF t, id
      <3> QED BY <1>1, <2>1, <2>2, <3>1, RegisterKeeps DEF Outcome
    <2> QED BY <2>3, <2>4
  <1> QED
    BY <1>2, <1>3, <1>4, <1>5, <1>6, <1>7, <1>8, <1>9, NextCases

\* Who is about to clear the frame goes on being so until it is cleared.
LEMMA FrameSteps ==
  ASSUME IInv, Next
  PROVE  \/ frame' = None
         \/ frame' = ActivePage /\ UNCHANGED registry
         \/ frame' = frame /\ (FrameIsBeingCleared => FrameIsBeingCleared')
PROOF
  <1>1. conn \in [Conns -> [at : {"idle", "starting", "changed", "closing",
                                  "selecting", "applying"},
                            tab : Targets \cup {None}, id : Nat]]
    BY DEF IInv, TypeOK
  <1>2. core \in [at : Steps \cup {"asking", "discovering", "checking"},
                  tab : Targets \cup {None}, left : SUBSET Targets]
    BY DEF IInv, TypeOK
  <1>3. ASSUME UNCHANGED <<frame, cleaning, follower, conn>>,
               core.at = "activated" => core'.at = "activated"
        PROVE  frame' = frame /\ (FrameIsBeingCleared => FrameIsBeingCleared')
    BY <1>3 DEF FrameIsBeingCleared
  <1>4. ASSUME NEW c \in Conns, NEW r, r.at \in {"changed", "closing"}
                 \/ conn[c].at \notin {"changed", "closing"},
               conn' = [conn EXCEPT ![c] = r],
               UNCHANGED <<frame, cleaning, core, follower>>
        PROVE  frame' = frame /\ (FrameIsBeingCleared => FrameIsBeingCleared')
    BY <1>1, <1>4 DEF FrameIsBeingCleared
  <1>5. CASE Browser
    BY <1>3, <1>5 DEF Browser, OpenTab, CloseTab, tracker, viewer
  <1>6. CASE CoreTask
    <2>1. CASE CoreClearFrame
      BY <2>1 DEF CoreClearFrame
    <2>2. CASE ~CoreClearFrame
      <3>1. core.at # "activated"
        BY <1>6, <2>2 DEF CoreTask, AskPages,
          Discover, PassOver, RegisterFound, Discovered,
          CoreLookup, CoreGivesUp, CoreRegister
      <3> QED
        BY <1>3, <1>6, <2>2, <3>1 DEF CoreTask, AskPages,
          Discover, PassOver, RegisterFound,
          Discovered, CoreLookup, CoreGivesUp, CoreRegister, viewer
    <2> QED BY <2>1, <2>2
  <1>7. CASE DestroyedTask
    <2>1. CASE DestroyedClearFrame
      BY <2>1 DEF DestroyedClearFrame
    <2>2. CASE TargetDestroyed
      BY <2>2 DEF TargetDestroyed, viewer, FrameIsBeingCleared
    <2> QED BY <1>7, <2>1, <2>2 DEF DestroyedTask
  <1>8. CASE FollowTask
    <2>1. CASE FollowSwitchesViewer
      BY <2>1 DEF FollowSwitchesViewer
    <2>2. CASE FollowLookup \/ FollowGivesUp \/ FollowRegister
      <3>1. follower.at # "activated"
        BY <2>2 DEF FollowLookup, FollowGivesUp, FollowRegister
      <3>2. UNCHANGED <<frame, cleaning, core, conn>>
        BY <2>2 DEF FollowLookup, FollowGivesUp, FollowRegister, tracker
      <3> QED BY <3>1, <3>2 DEF FrameIsBeingCleared
    <2> QED BY <1>8, <2>1, <2>2 DEF FollowTask
  <1>9. ASSUME NEW c \in Conns, Command(c)
        PROVE  \/ frame' = None
               \/ frame' = ActivePage /\ UNCHANGED registry
               \/ frame' = frame /\ (FrameIsBeingCleared => FrameIsBeingCleared')
    <2>1. CASE SelectFrame(c)
      BY <2>1 DEF SelectFrame
    <2>2. CASE ClearFrame(c) \/ CloseTarget(c)
      BY <2>2 DEF ClearFrame, CloseTarget
    <2>3. CASE ~(SelectFrame(c) \/ ClearFrame(c) \/ CloseTarget(c))
      <3>1. UNCHANGED <<frame, cleaning, core, follower>>
        BY <1>9, <2>3 DEF Command, View, ViewStarts, SwitchPage, ClosePage,
          Refresh, NoBrowserPage, ApplyRefresh, SelectBrowserPage, tracker,
          viewer
      <3>2. conn[c].at \notin {"changed", "closing"}
        BY <1>9, <2>3 DEF Command, View, ViewStarts, SwitchPage, ClosePage,
          Refresh, NoBrowserPage, ApplyRefresh, SelectBrowserPage
      <3>3. \E r : conn' = [conn EXCEPT ![c] = r]
        BY <1>9, <2>3 DEF Command, View, ViewStarts, SwitchPage, ClosePage,
          Refresh, NoBrowserPage, ApplyRefresh, SelectBrowserPage, Go, Answer
      <3> QED BY <1>4, <3>1, <3>2, <3>3
    <2> QED BY <2>1, <2>2, <2>3
  <1> QED BY <1>5, <1>6, <1>7, <1>8, <1>9 DEF Next

\* No step leaves a frame selection behind that its page does not back.
LEMMA FrameStep ==
  ASSUME IInv, Next
  PROVE  NoStaleFrame'
PROOF
  <1>1. NoStaleFrame
    BY DEF IInv
  <1>2. ActivePage' = ActivePage \/ FrameIsBeingCleared'
    BY RegistrySteps DEF Outcome
  <1>3. CASE frame' = None
    BY <1>3 DEF NoStaleFrame
  <1>4. CASE frame' = ActivePage /\ UNCHANGED registry
    <2>1. ActivePage' = ActivePage
      BY <1>4 DEF registry, ActivePage, Entry, Position
    <2> QED BY <1>4, <2>1 DEF NoStaleFrame
  <1>5. CASE frame' = frame /\ (FrameIsBeingCleared => FrameIsBeingCleared')
    BY <1>1, <1>2, <1>5 DEF NoStaleFrame
  <1> QED BY <1>3, <1>4, <1>5, FrameSteps

\* Two entries of one tab are the work of a recovery.
LEMMA EntryStep ==
  ASSUME IInv, Next
  PROVE  OneEntryPerTab'
PROOF
  <1>1. \A u : Twice(u) => u \in adopted
    BY DEF IInv, OneEntryPerTab, Twice
  <1>2. \A u : Twice(u)' => u \in adopted'
    BY <1>1, RegistrySteps DEF Outcome
  <1> QED BY <1>2 DEF OneEntryPerTab, Twice

\* A destroyed tab does not come back.
LEMMA GoneStep ==
  ASSUME IInv, Next
  PROVE  Gone'
PROOF
  <1>1. /\ destroyed \in Seq(Targets) /\ tabs \subseteq opened
        /\ opened \subseteq Targets
        /\ \A i \in DOMAIN destroyed : destroyed[i] \in opened \ tabs
    BY DEF IInv, TypeOK, Gone
  <1>2. DOMAIN destroyed = 1 .. Len(destroyed) /\ Len(destroyed) \in Nat
    BY <1>1
  <1>3. \/ destroyed' = destroyed
        \/ destroyed # << >> /\ destroyed' = Tail(destroyed)
        \/ \E t \in tabs : /\ destroyed' = Append(destroyed, t)
                           /\ tabs' = tabs \ {t} /\ opened' = opened
    BY DEF Next, Browser, OpenTab, CloseTab, CoreTask, AskPages,
      Discover, PassOver, RegisterFound,
      Discovered, CoreLookup, CoreGivesUp, CoreRegister, CoreClearFrame,
      DestroyedTask, TargetDestroyed, DestroyedClearFrame, FollowTask,
      FollowLookup, FollowGivesUp, FollowRegister, FollowSwitchesViewer,
      Command, View, ViewStarts, SelectFrame, ClearFrame, CloseTarget,
      SwitchPage, ClosePage, Refresh, NoBrowserPage, ApplyRefresh,
      SelectBrowserPage, tracker, history
  <1>4. /\ opened \subseteq opened'
        /\ tabs' \subseteq tabs \cup (opened' \ opened)
    BY <1>1 DEF Next, Browser, OpenTab, CloseTab, CoreTask,
      AskPages, Discover, PassOver,
      RegisterFound, Discovered, CoreLookup, CoreGivesUp, CoreRegister,
      CoreClearFrame, DestroyedTask, TargetDestroyed, DestroyedClearFrame,
      FollowTask, FollowLookup, FollowGivesUp, FollowRegister,
      FollowSwitchesViewer, Command, View, ViewStarts, SelectFrame, ClearFrame,
      CloseTarget, SwitchPage, ClosePage, Refresh, NoBrowserPage, ApplyRefresh,
      SelectBrowserPage, history
  <1>5. \A u \in opened \ tabs : u \in opened' \ tabs'
    BY <1>4
  <1>6. CASE destroyed' = destroyed
    BY <1>1, <1>5, <1>6 DEF Gone
  <1>7. CASE destroyed # << >> /\ destroyed' = Tail(destroyed)
    <2>1. /\ Tail(destroyed) \in Seq(Targets)
          /\ Len(Tail(destroyed)) = Len(destroyed) - 1
          /\ \A i \in 1 .. Len(Tail(destroyed)) :
               Tail(destroyed)[i] = destroyed[i + 1]
      BY <1>1, <1>7, HeadTailProperties
    <2>2. \A i \in DOMAIN Tail(destroyed) :
            i + 1 \in DOMAIN destroyed /\ Tail(destroyed)[i] = destroyed[i + 1]
      BY <1>2, <2>1
    <2> QED BY <1>1, <1>5, <1>7, <2>2 DEF Gone
  <1>8. ASSUME NEW t \in tabs, destroyed' = Append(destroyed, t),
               tabs' = tabs \ {t}, opened' = opened
        PROVE  Gone'
    <2>1. t \in Targets
      BY <1>1
    <2>2. /\ Append(destroyed, t) \in Seq(Targets)
          /\ Len(Append(destroyed, t)) = Len(destroyed) + 1
          /\ \A i \in 1 .. Len(destroyed) : Append(destroyed, t)[i] = destroyed[i]
          /\ Append(destroyed, t)[Len(destroyed) + 1] = t
      BY <1>1, <2>1, AppendProperties
    <2>3. \A i \in DOMAIN Append(destroyed, t) :
            \/ i \in DOMAIN destroyed /\ Append(destroyed, t)[i] = destroyed[i]
            \/ Append(destroyed, t)[i] = t
      BY <1>2, <2>2
    <2> QED BY <1>1, <1>8, <2>3 DEF Gone
  <1> QED BY <1>3, <1>6, <1>7, <1>8

\* The tracker's events and tabs.
LEMMA AnnouncedStep ==
  ASSUME IInv, Next
  PROVE  Announced'
PROOF
  <1>1. /\ created \in Seq(Targets) /\ opened \subseteq Targets
        /\ \A i \in DOMAIN created : created[i] \in opened
    BY DEF IInv, TypeOK, Announced
  <1>2. DOMAIN created = 1 .. Len(created) /\ Len(created) \in Nat
    BY <1>1
  <1>3. CASE \E t \in Targets : OpenTab(t)
    <2>1. PICK t \in Targets : OpenTab(t)
      BY <1>3
    <2>2. created' = Append(created, t) /\ opened' = opened \cup {t}
      BY <2>1 DEF OpenTab
    <2>3. /\ Append(created, t) \in Seq(Targets)
          /\ Len(Append(created, t)) = Len(created) + 1
          /\ \A i \in 1 .. Len(created) : Append(created, t)[i] = created[i]
          /\ Append(created, t)[Len(created) + 1] = t
      BY <1>1, AppendProperties
    <2>4. \A i \in DOMAIN Append(created, t) :
            \/ i \in DOMAIN created /\ Append(created, t)[i] = created[i]
            \/ Append(created, t)[i] = t
      BY <1>2, <2>3
    <2> QED BY <1>1, <2>2, <2>4 DEF Announced
  <1>4. CASE CoreLookup
    <2>1. created # << >> /\ created' = Tail(created) /\ opened' = opened
      BY <1>4 DEF CoreLookup, history
    <2>2. /\ Tail(created) \in Seq(Targets)
          /\ Len(Tail(created)) = Len(created) - 1
          /\ \A i \in 1 .. Len(Tail(created)) : Tail(created)[i] = created[i + 1]
      BY <1>1, <2>1, HeadTailProperties
    <2>3. \A i \in DOMAIN Tail(created) :
            i + 1 \in DOMAIN created /\ Tail(created)[i] = created[i + 1]
      BY <1>2, <2>2
    <2> QED BY <1>1, <2>1, <2>3 DEF Announced
  <1>5. CASE ~CoreLookup /\ ~(\E t \in Targets : OpenTab(t))
    <2>1. created' = created /\ opened' = opened
      BY <1>5 DEF Next, Browser, CloseTab, CoreTask, AskPages,
        Discover, PassOver, RegisterFound,
        Discovered, CoreGivesUp, CoreRegister, CoreClearFrame, DestroyedTask,
        TargetDestroyed, DestroyedClearFrame, FollowTask, FollowLookup,
        FollowGivesUp, FollowRegister, FollowSwitchesViewer, Command, View,
        ViewStarts, SelectFrame, ClearFrame, CloseTarget, SwitchPage, ClosePage,
        Refresh, NoBrowserPage, ApplyRefresh, SelectBrowserPage, tracker, history
    <2> QED BY <1>1, <2>1 DEF Announced
  <1> QED BY <1>3, <1>4, <1>5

\* Between two steps of the tracker the tabs it has to list stay covered: what
\* others take off the list goes to the history, what opens is announced.
LEMMA OthersSteps ==
  ASSUME IInv, Next, ~CoreTask
  PROVE  /\ core' = core /\ unlisted \subseteq unlisted'
         /\ \/ created' = created /\ tabs' \subseteq tabs /\ opened' = opened
            \/ \E t \in Targets \ opened :
                 /\ created' = Append(created, t) /\ tabs' = tabs \cup {t}
                 /\ opened' = opened \cup {t}
PROOF
  <1>1. CASE Browser
    BY <1>1 DEF Browser, OpenTab, CloseTab, history
  <1>2. CASE DestroyedTask
    BY <1>2 DEF DestroyedTask, TargetDestroyed, DestroyedClearFrame, history
  <1>3. CASE FollowTask
    BY <1>3 DEF FollowTask, FollowLookup, FollowGivesUp, FollowRegister,
      FollowSwitchesViewer, tracker, history
  <1>4. ASSUME NEW c \in Conns, Command(c)
        PROVE  /\ core' = core /\ unlisted \subseteq unlisted'
               /\ created' = created /\ tabs' \subseteq tabs /\ opened' = opened
    BY <1>4 DEF Command, View, ViewStarts, SelectFrame, ClearFrame, CloseTarget,
      SwitchPage, ClosePage, Refresh, NoBrowserPage, ApplyRefresh,
      SelectBrowserPage, tracker, history
  <1> QED BY <1>1, <1>2, <1>3, <1>4 DEF Next

\* A tab that was listed or unlisted is either while it is open.
LEMMA StaysCovered ==
  ASSUME IInv, Next, unlisted \subseteq unlisted',
         NEW u \in tabs', u \in Listed \cup unlisted
  PROVE  u \in Listed' \cup unlisted'
PROOF BY RegistrySteps DEF Outcome

\* Every task holds a tab its step may speak of, after any step.
LEMMA HoldingStep ==
  ASSUME IInv, Next
  PROVE  Holding'
PROOF
  <1>1. /\ core \in [at : Steps \cup {"asking", "discovering", "checking"},
                     tab : Targets \cup {None}, left : SUBSET Targets]
        /\ conn \in [Conns -> [at : {"idle", "starting", "changed", "closing",
                                     "selecting", "applying"},
                               tab : Targets \cup {None}, id : Nat]]
        /\ tabs \subseteq opened /\ opened \subseteq Targets
        /\ seen \in Seq(Targets) /\ created \in Seq(Targets)
    BY DEF IInv, TypeOK
  <1>2. Holding
    BY DEF IInv
  <1>3. /\ core'.at \in {"checking", "attaching", "activated"} =>
             core'.tab \in Targets
        /\ core'.at \in {"idle", "asking", "discovering"} => core'.tab = None
        /\ core'.at \in {"attaching", "activated"} => core'.tab \in opened'
        /\ core'.at = "activated" /\ core'.tab \in tabs' =>
             core'.tab \in Listed' \cup unlisted'
    <2>1. CASE ~CoreTask
      <3>1. /\ core' = core /\ unlisted \subseteq unlisted'
            /\ opened \subseteq opened'
            /\ core.tab \in opened /\ core.tab \in tabs' => core.tab \in tabs
        BY <2>1, OthersSteps
      <3>2. core.at = "activated" /\ core.tab \in tabs' =>
              core.tab \in Listed' \cup unlisted'
        BY <1>2, <3>1, StaysCovered DEF Holding
      <3> QED BY <1>2, <3>1, <3>2 DEF Holding
    <2>2. CASE CoreTask
      <3>1. ASSUME NEW t \in Targets, Discover(t)
            PROVE  \/ core'.at = "discovering" /\ core'.tab = None
                   \/ core'.at = "checking" /\ core'.tab \in Targets
        BY <1>1, <1>2, <3>1 DEF AskPages, Discover, PassOver, Holding
      <3>7. AskPages => core'.at = "discovering" /\ core'.tab = None
        BY <1>1 DEF AskPages
      <3>2. RegisterFound => core'.at = "discovering" /\ core'.tab = None
        BY <1>1 DEF RegisterFound, CoreIs
      <3>3. Discovered \/ CoreGivesUp \/ CoreClearFrame =>
              core'.at = "idle" /\ core'.tab = None
        BY <1>1 DEF Discovered, CoreGivesUp, CoreClearFrame, CoreIs
      <3>4. ASSUME CoreLookup
            PROVE  \/ core'.at = "idle" /\ core'.tab = None
                   \/ core'.at = "attaching" /\ core'.tab \in opened'
        <4>1. Head(created) = created[1] /\ 1 \in DOMAIN created
          BY <1>1, <3>4 DEF CoreLookup
        <4>2. Head(created) \in opened
          BY <4>1 DEF IInv, Announced
        <4> QED BY <1>1, <1>2, <3>4, <4>2 DEF CoreLookup, CoreIs, Holding, history
      <3>5. ASSUME CoreRegister
            PROVE  /\ core'.at = "activated" /\ core'.tab \in opened'
                   /\ core'.tab \in Listed'
        <4>1. core'.at = "activated" /\ core'.tab = core.tab
              /\ core.tab \in opened /\ opened' = opened
          BY <1>1, <1>2, <3>5 DEF CoreRegister, CoreIs, Holding, history
        <4>2. core.tab \in Listed'
          <5>1. CASE core.tab \in Listed
            BY <3>5, <5>1 DEF CoreRegister, registry, Listed
          <5>2. CASE core.tab \notin Listed
            <6>1. RegistryOK /\ core.tab \in Targets /\ Register(core.tab, TRUE)
              BY <1>1, <3>5, <4>1, <5>2
              DEF CoreRegister, IInv, TypeOK, RegistryOK, Listings
            <6> QED BY <6>1, RegisterKeeps
          <5> QED BY <5>1, <5>2
        <4> QED BY <4>1, <4>2
      <3>6. opened' = opened
        BY <2>2 DEF CoreTask, AskPages,
          Discover, PassOver, RegisterFound, Discovered, CoreLookup,
          CoreGivesUp, CoreRegister, CoreClearFrame, history
      <3> QED BY <1>1, <2>2, <3>1, <3>2, <3>3, <3>4, <3>5, <3>6, <3>7 DEF CoreTask
    <2> QED BY <2>1, <2>2
  <1>4. follower'.at # "idle" => follower'.tab \in Targets
    <2>1. CASE FollowTask
      <3>1. seen # << >> => Head(seen) \in Targets
        BY <1>1
      <3>2. FollowLookup => follower' = follower \/ follower'.tab \in Targets
        BY <3>1 DEF FollowLookup, Job
      <3>3. FollowGivesUp \/ FollowSwitchesViewer => follower'.at = "idle"
        BY DEF FollowGivesUp, FollowSwitchesViewer, NoJob
      <3>4. FollowRegister => follower'.tab \in Targets
        BY <1>2 DEF FollowRegister, Job, Holding
      <3> QED BY <1>2, <2>1, <3>2, <3>3, <3>4 DEF FollowTask, Holding
    <2>2. CASE ~FollowTask
      <3>1. follower' = follower
        BY <2>2 DEF Next, Browser, OpenTab, CloseTab, CoreTask,
          AskPages, Discover, PassOver,
          RegisterFound, Discovered, CoreLookup, CoreGivesUp, CoreRegister,
          CoreClearFrame, DestroyedTask, TargetDestroyed, DestroyedClearFrame,
          Command, View, ViewStarts, SelectFrame, ClearFrame, CloseTarget,
          SwitchPage, ClosePage, Refresh, NoBrowserPage, ApplyRefresh,
          SelectBrowserPage, viewer
      <3> QED BY <1>2, <3>1 DEF Holding
    <2> QED BY <2>1, <2>2
  <1>5. \A c \in Conns : conn'[c].at = "applying" => conn'[c].tab \in Targets
    <2>1. ASSUME NEW c \in Conns, Command(c)
          PROVE  \E r : /\ conn' = [conn EXCEPT ![c] = r] \/ conn' = conn
                        /\ r.at = "applying" => r.tab \in Targets
      <3>1. ASSUME NEW t \in Targets, SelectBrowserPage(c, t)
            PROVE  conn' = [conn EXCEPT ![c] =
                              [at |-> "applying", tab |-> t, id |-> conn[c].id]]
        BY <3>1 DEF SelectBrowserPage, Go
      <3>2. CASE \E t \in Targets : SelectBrowserPage(c, t)
        <4>1. PICK t \in Targets : SelectBrowserPage(c, t)
          BY <3>2
        <4>2. [at |-> "applying", tab |-> t, id |-> conn[c].id].tab \in Targets
          OBVIOUS
        <4> QED BY <3>1, <4>1, <4>2
      <3>3. CASE ~(\E t \in Targets : SelectBrowserPage(c, t))
        <4>1. ASSUME NEW a \in {"starting", "changed", "closing", "selecting"},
                     NEW t, NEW id, Go(c, a, t, id)
              PROVE  \E r : /\ conn' = [conn EXCEPT ![c] = r]
                            /\ r.at # "applying"
          <5> DEFINE r == [at |-> a, tab |-> t, id |-> id]
          <5>1. conn' = [conn EXCEPT ![c] = r] /\ r.at # "applying"
            BY <4>1 DEF Go
          <5> QED BY <5>1
        <4>2. ASSUME Answer(c)
              PROVE  \E r : /\ conn' = [conn EXCEPT ![c] = r]
                            /\ r.at # "applying"
          <5>1. NoRequest.at # "applying"
            BY DEF NoRequest
          <5> QED BY <4>2, <5>1 DEF Answer
        <4>3. SelectFrame(c) => conn' = conn
          BY DEF SelectFrame
        <4>4. CASE View(c) \/ Refresh(c) \/ ApplyRefresh(c)
          BY <4>1, <4>4 DEF View, Refresh, ApplyRefresh
        <4>5. ASSUME NEW id \in Ids, SwitchPage(c, id) \/ ClosePage(c, id)
              PROVE  \E r : /\ conn' = [conn EXCEPT ![c] = r]
                            /\ r.at # "applying"
          BY <4>1, <4>5 DEF SwitchPage, ClosePage
        <4>6. CASE ViewStarts(c) \/ ClearFrame(c) \/ CloseTarget(c)
                   \/ NoBrowserPage(c)
          BY <4>2, <4>6 DEF ViewStarts, ClearFrame, CloseTarget, NoBrowserPage
        <4>7. CASE SelectFrame(c)
          <5>1. NoRequest.at # "applying" /\ conn' = conn
            BY <4>3, <4>7 DEF NoRequest
          <5> QED BY <5>1
        <4> QED BY <2>1, <3>3, <4>4, <4>5, <4>6, <4>7 DEF Command
      <3> QED BY <3>2, <3>3
    <2>2. ASSUME ~(\E c \in Conns : Command(c)) PROVE conn' = conn
      BY <2>2 DEF Next, Browser, OpenTab, CloseTab, CoreTask,
        AskPages, Discover, PassOver,
        RegisterFound, Discovered, CoreLookup, CoreGivesUp, CoreRegister,
        CoreClearFrame, DestroyedTask, TargetDestroyed, DestroyedClearFrame,
        FollowTask, FollowLookup, FollowGivesUp, FollowRegister,
        FollowSwitchesViewer
    <2> QED BY <1>1, <1>2, <2>1, <2>2 DEF Holding
  <1> QED BY <1>3, <1>4, <1>5 DEF Holding

\* An open tab falls between no two steps.
LEMMA OpenTabsStep ==
  ASSUME IInv, Next
  PROVE  OpenTabsGetListed'
PROOF
  <1> DEFINE Covered(u) == \/ core.at = "asking"
                           \/ u \in Listed \cup core.left \cup {core.tab}
                                     \cup unlisted
                           \/ \E i \in DOMAIN created : created[i] = u
  <1>1. /\ core \in [at : Steps \cup {"asking", "discovering", "checking"},
                     tab : Targets \cup {None}, left : SUBSET Targets]
        /\ tabs \subseteq opened /\ opened \subseteq Targets
        /\ created \in Seq(Targets) /\ None \notin Targets
        /\ DOMAIN created = 1 .. Len(created) /\ Len(created) \in Nat
    BY TargetsAssumption DEF IInv, TypeOK
  <1>2. \A u \in tabs : Covered(u)
    BY DEF IInv, OpenTabsGetListed, Reported
  <1>3. Holding
    BY DEF IInv
  <1>4. CASE ~CoreTask
    <2>1. core' = core /\ unlisted \subseteq unlisted'
      BY <1>4, OthersSteps
    <2>2. ASSUME created' = created, tabs' \subseteq tabs
          PROVE  OpenTabsGetListed'
      <3>1. \A u \in tabs' : u \in Listed \cup unlisted =>
              u \in Listed' \cup unlisted'
        BY <2>1, StaysCovered
      <3> QED BY <1>2, <2>1, <2>2, <3>1 DEF OpenTabsGetListed, Reported
    <2>3. ASSUME NEW t \in Targets \ opened, created' = Append(created, t),
                 tabs' = tabs \cup {t}
          PROVE  OpenTabsGetListed'
      <3>1. \A u \in tabs' : u \in Listed \cup unlisted =>
              u \in Listed' \cup unlisted'
        BY <2>1, StaysCovered
      <3>2. /\ Append(created, t) \in Seq(Targets)
            /\ Len(Append(created, t)) = Len(created) + 1
            /\ \A i \in 1 .. Len(created) : Append(created, t)[i] = created[i]
            /\ Append(created, t)[Len(created) + 1] = t
        BY <1>1, AppendProperties
      <3>3. DOMAIN created' = 1 .. Len(created) + 1
        BY <1>1, <2>3, <3>2
      <3>4. \A i \in DOMAIN created :
              i \in DOMAIN created' /\ created'[i] = created[i]
        BY <1>1, <2>3, <3>2, <3>3
      <3>5. Len(created) + 1 \in DOMAIN created' /\ created'[Len(created) + 1] = t
        BY <1>1, <2>3, <3>2, <3>3
      <3> QED BY <1>2, <2>1, <2>3, <3>1, <3>4, <3>5 DEF OpenTabsGetListed, Reported
    <2> QED BY <1>4, <2>2, <2>3, OthersSteps
  <1>5. CASE CoreTask
    <2>1. tabs' = tabs /\ unlisted \subseteq unlisted'
      BY <1>5 DEF CoreTask, AskPages,
        Discover, PassOver, RegisterFound, Discovered, CoreLookup,
        CoreGivesUp, CoreRegister, CoreClearFrame, history
    <2>2. \A u \in tabs : u \in Listed \cup unlisted =>
            u \in Listed' \cup unlisted'
      BY <2>1, StaysCovered
    <2>0. core'.at # "asking"
      <3>1. ASSUME NEW a \in {"discovering", "idle", "attaching", "activated"},
                   NEW t, CoreIs(a, t)
            PROVE  core'.at # "asking"
        BY <1>1, <3>1 DEF CoreIs
      <3>2. ASSUME NEW t \in Targets, Discover(t) PROVE core'.at # "asking"
        BY <1>1, <3>2 DEF Discover
      <3>3. AskPages => core'.at # "asking"
        BY DEF AskPages
      <3>4. CASE CoreLookup
        BY <1>1, <3>1, <3>4 DEF CoreLookup
      <3>5. CASE RegisterFound \/ Discovered \/ CoreGivesUp \/ CoreRegister
                 \/ CoreClearFrame
        BY <3>1, <3>5 DEF RegisterFound, Discovered, CoreGivesUp, CoreRegister,
          CoreClearFrame
      <3> QED BY <1>5, <3>2, <3>3, <3>4, <3>5 DEF CoreTask
    <2>3. ASSUME created' = created, core.at # "asking",
                 \A u \in tabs : u \in core.left \cup {core.tab} =>
                   u \in Listed' \cup core'.left \cup {core'.tab} \cup unlisted'
          PROVE  OpenTabsGetListed'
      BY <1>2, <2>0, <2>1, <2>2, <2>3 DEF OpenTabsGetListed, Reported
    <2>4. ASSUME NEW t \in Targets, Discover(t) PROVE OpenTabsGetListed'
      <3>1. /\ core.tab = None /\ core.at # "asking"
            /\ created' = created /\ Listed' = Listed
        BY <1>3, <2>4 DEF Discover, Holding, registry, Listed
      <3>2. CASE core'.left = core.left \ {t} /\ core'.tab = t
        BY <1>1, <2>3, <3>1, <3>2
      <3>3. CASE core' = [core EXCEPT !.left = @ \ {t}] /\ PassOver({t})
        <4>1. core'.left = core.left \ {t} /\ core'.tab = core.tab
          BY <1>1, <3>3
        <4>2. t \in Listed \cup unlisted' \/ \E i \in DOMAIN created' : created'[i] = t
          BY <3>1, <3>3 DEF PassOver, Reported
        <4> QED
          BY <1>1, <1>2, <2>0, <2>1, <2>2, <3>1, <4>1, <4>2
          DEF OpenTabsGetListed, Reported
      <3> QED BY <2>4, <3>2, <3>3 DEF Discover
    <2>11. CASE AskPages
      <3>1. PICK found \in SUBSET tabs :
              /\ core' = [at |-> "discovering", tab |-> None, left |-> found]
              /\ PassOver(tabs \ found)
        BY <2>11 DEF AskPages
      <3>2. core'.left = found
        BY <3>1
      <3>3. created' = created /\ Listed' = Listed
        BY <2>11 DEF AskPages, registry, Listed
      <3>4. ASSUME NEW u \in tabs
            PROVE  u \in found \cup Listed \cup Reported \cup unlisted'
        BY <3>1, <3>4 DEF PassOver
      <3> QED BY <2>1, <3>2, <3>3, <3>4 DEF OpenTabsGetListed, Reported
    <2>5. CASE RegisterFound
      <3>1. /\ created' = created /\ core'.left = core.left
            /\ core.at # "asking"
        BY <1>1, <2>5 DEF RegisterFound, CoreIs
      <3>2. core.tab \in Listed'
        <4>1. CASE core.tab \in Listed
          BY <2>5, <4>1 DEF RegisterFound, registry, Listed
        <4>2. CASE core.tab \notin Listed
          <5>1. RegistryOK /\ core.tab \in Targets /\ Register(core.tab, FALSE)
            BY <1>3, <2>5, <4>2
            DEF RegisterFound, Holding, IInv, TypeOK, RegistryOK, Listings
          <5> QED BY <5>1, RegisterKeeps
        <4> QED BY <4>1, <4>2
      <3> QED BY <2>3, <3>1, <3>2
    <2>6. CASE Discovered
      <3>1. /\ core.tab = None /\ core.left = {} /\ created' = created
            /\ core.at # "asking"
        BY <1>3, <2>6 DEF Discovered, Holding
      <3> QED BY <1>1, <2>3, <3>1
    <2>7. CASE CoreLookup
      <3>1. /\ core.tab = None /\ created # << >> /\ created' = Tail(created)
            /\ core'.left = core.left /\ Listed' = Listed /\ core.at # "asking"
            /\ Head(created) \in Listed \/ core'.tab = Head(created)
        <4>1. /\ core.tab = None /\ created # << >> /\ created' = Tail(created)
              /\ Listed' = Listed /\ core.at # "asking"
          BY <1>3, <2>7 DEF CoreLookup, Holding, registry, Listed
        <4>2. /\ core'.left = core.left
              /\ Head(created) \in Listed \/ core'.tab = Head(created)
          BY <1>1, <2>7 DEF CoreLookup, CoreIs
        <4> QED BY <4>1, <4>2
      <3>2. /\ Tail(created) \in Seq(Targets)
            /\ Len(Tail(created)) = Len(created) - 1
            /\ \A i \in 1 .. Len(Tail(created)) : Tail(created)[i] = created[i + 1]
            /\ Head(created) = created[1]
        BY <1>1, <3>1, HeadTailProperties
      <3>3. DOMAIN created' = 1 .. Len(created) - 1
        BY <1>1, <3>1, <3>2
      <3>4. ASSUME NEW i \in DOMAIN created
            PROVE  \/ created[i] = Head(created)
                   \/ \E j \in DOMAIN created' : created'[j] = created[i]
        <4>1. CASE i = 1
          BY <3>2, <4>1
        <4>2. CASE i # 1
          <5>1. i - 1 \in 1 .. Len(created) - 1 /\ (i - 1) + 1 = i
            BY <1>1, <4>2
          <5> QED BY <3>1, <3>2, <3>3, <5>1
        <4> QED BY <4>1, <4>2
      <3>5. ASSUME NEW u \in tabs'
            PROVE  \/ u \in Listed' \cup core'.left \cup {core'.tab}
                              \cup unlisted'
                   \/ \E i \in DOMAIN created' : created'[i] = u
        <4>1. u \in tabs /\ u # None /\ Covered(u)
          BY <1>1, <1>2, <2>1
        <4> QED BY <2>1, <3>1, <3>4, <4>1
      <3> QED BY <3>5 DEF OpenTabsGetListed, Reported
    <2>8. CASE CoreGivesUp
      <3>1. /\ created' = created /\ core'.left = core.left /\ core.tab \in unlisted'
            /\ core.at # "asking"
        BY <1>1, <2>8 DEF CoreGivesUp, CoreIs
      <3> QED BY <2>3, <3>1
    <2>9. CASE CoreRegister
      <3>1. /\ created' = created /\ core'.left = core.left /\ core'.tab = core.tab
            /\ core.at # "asking"
        BY <1>1, <2>9 DEF CoreRegister, CoreIs
      <3> QED BY <2>3, <3>1
    <2>10. CASE CoreClearFrame
      <3>1. /\ created' = created /\ core'.left = core.left
            /\ core.at # "asking"
            /\ core.tab \in tabs => core.tab \in Listed \cup unlisted
        BY <1>1, <1>3, <2>10 DEF CoreClearFrame, CoreIs, Holding
      <3> QED BY <2>2, <2>3, <3>1
    <2> QED
      BY <1>5, <2>4, <2>5, <2>6, <2>7, <2>8, <2>9, <2>10, <2>11 DEF CoreTask
  <1> QED BY <1>4, <1>5

\* Every step keeps the types.
LEMMA TypeStep ==
  ASSUME IInv, Next
  PROVE  TypeOK'
PROOF
  <1>1. /\ TypeOK /\ Holding
        /\ tabs \subseteq opened /\ opened \subseteq Targets
        /\ frame \in Targets \cup {None}
        /\ created \in Seq(Targets) /\ destroyed \in Seq(Targets)
        /\ seen \in Seq(Targets)
        /\ cleaning \in BOOLEAN
        /\ core \in [at : Steps \cup {"asking", "discovering", "checking"},
                     tab : Targets \cup {None}, left : SUBSET Targets]
        /\ follower \in [at : Steps, tab : Targets \cup {None}]
        /\ watch \in Targets \cup {None}
        /\ conn \in [Conns -> [at : {"idle", "starting", "changed", "closing",
                                     "selecting", "applying"},
                               tab : Targets \cup {None}, id : Nat]]
        /\ refreshes \in Nat /\ adopted \cup unlisted \subseteq Targets
    BY DEF IInv, TypeOK
  <1>2. RegistryOK /\ ActivePage \in Targets /\ active \in Nat
    <2>1. RegistryOK
      BY DEF IInv, TypeOK, RegistryOK, Listings
    <2>2. Listed \subseteq Targets
      <3>1. \A i \in DOMAIN entries : entries[i] \in Listings
        BY <2>1, ElementOfSeq DEF RegistryOK
      <3> QED BY <3>1 DEF Listed, Listings
    <2> QED BY <2>1, <2>2, ActivePageIs DEF ActiveShown, RegistryOK
  <1>3. \A id \in Ids : id \in Nat /\ Entry(id).tab \in Targets
    <2>1. \A i \in 1 .. Len(entries) : entries[i] \in Listings
      BY <1>2, ElementOfSeq DEF RegistryOK
    <2>2. DOMAIN entries = 1 .. Len(entries)
      BY <1>2 DEF RegistryOK
    <2>3. \A id \in Ids : Position(id) \in 1 .. Len(entries)
      BY <1>2, PositionIs
    <2> QED BY <2>1, <2>2, <2>3 DEF Ids, Entry, Listings
  <1>4. entries' \in Seq([id : Nat \ {0}, tab : Targets])
        /\ active' \in Nat /\ nextId' \in Nat \ {0}
    BY RegistrySteps DEF Outcome, RegistryOK, Listings
  <1> USE DEF tracker, viewer, history
  <1>5. tabs' \subseteq opened' /\ opened' \subseteq Targets
    BY <1>1 DEF Next, Browser, OpenTab, CloseTab, CoreTask,
      AskPages, Discover, PassOver,
      RegisterFound, Discovered, CoreLookup, CoreGivesUp, CoreRegister,
      CoreClearFrame, DestroyedTask, TargetDestroyed, DestroyedClearFrame,
      FollowTask, FollowLookup, FollowGivesUp, FollowRegister,
      FollowSwitchesViewer, Command, View, ViewStarts, SelectFrame, ClearFrame,
      CloseTarget, SwitchPage, ClosePage, Refresh, NoBrowserPage, ApplyRefresh,
      SelectBrowserPage
  <1>6. frame' \in Targets \cup {None}
    BY <1>1, <1>2, FrameSteps
  <1>7. watch' \in Targets \cup {None}
    <2>1. FollowSwitchesViewer => watch' \in Targets \cup {None}
      BY <1>1 DEF FollowSwitchesViewer
    <2>2. ASSUME NEW c \in Conns, ViewStarts(c)
          PROVE  watch' \in Targets \cup {None}
      BY <1>1, <2>2 DEF ViewStarts
    <2>3. ASSUME ~FollowSwitchesViewer, \A c \in Conns : ~ViewStarts(c)
          PROVE  watch' = watch
      BY <2>3 DEF Next, Browser, OpenTab, CloseTab, CoreTask,
        AskPages, Discover, PassOver,
        RegisterFound, Discovered, CoreLookup, CoreGivesUp, CoreRegister,
        CoreClearFrame, DestroyedTask, TargetDestroyed, DestroyedClearFrame,
        FollowTask, FollowLookup, FollowGivesUp, FollowRegister, Command, View,
        SelectFrame, ClearFrame, CloseTarget, SwitchPage, ClosePage, Refresh,
        NoBrowserPage, ApplyRefresh, SelectBrowserPage
    <2> QED BY <1>1, <2>1, <2>2, <2>3
  <1>8. cleaning' \in BOOLEAN
    BY <1>1 DEF Next, Browser, OpenTab, CloseTab, CoreTask,
      AskPages, Discover, PassOver,
      RegisterFound, Discovered, CoreLookup, CoreGivesUp, CoreRegister,
      CoreClearFrame, DestroyedTask, TargetDestroyed, DestroyedClearFrame,
      FollowTask, FollowLookup, FollowGivesUp, FollowRegister,
      FollowSwitchesViewer, Command, View, ViewStarts, SelectFrame, ClearFrame,
      CloseTarget, SwitchPage, ClosePage, Refresh, NoBrowserPage, ApplyRefresh,
      SelectBrowserPage
  <1>9. refreshes' \in Nat
    <2>1. refreshes' = refreshes \/ refreshes' = refreshes + 1
      BY DEF Next, Browser, OpenTab, CloseTab, CoreTask,
        AskPages, Discover, PassOver,
        RegisterFound, Discovered, CoreLookup, CoreGivesUp, CoreRegister,
        CoreClearFrame, DestroyedTask, TargetDestroyed, DestroyedClearFrame,
        FollowTask, FollowLookup, FollowGivesUp, FollowRegister,
        FollowSwitchesViewer, Command, View, ViewStarts, SelectFrame, ClearFrame,
        CloseTarget, SwitchPage, ClosePage, Refresh, NoBrowserPage, ApplyRefresh,
        SelectBrowserPage
    <2> QED BY <1>1, <2>1
  <1>10. {created', destroyed', seen'} \subseteq Seq(Targets)
    <2>1. \/ created' = created
          \/ created # << >> /\ created' = Tail(created)
          \/ \E t \in Targets : created' = Append(created, t)
      BY DEF Next, Browser, OpenTab, CloseTab, CoreTask,
        AskPages, Discover, PassOver,
        RegisterFound, Discovered, CoreLookup, CoreGivesUp, CoreRegister,
        CoreClearFrame, DestroyedTask, TargetDestroyed, DestroyedClearFrame,
        FollowTask, FollowLookup, FollowGivesUp, FollowRegister,
        FollowSwitchesViewer, Command, View, ViewStarts, SelectFrame, ClearFrame,
        CloseTarget, SwitchPage, ClosePage, Refresh, NoBrowserPage, ApplyRefresh,
        SelectBrowserPage
    <2>2. \/ destroyed' = destroyed
          \/ destroyed # << >> /\ destroyed' = Tail(destroyed)
          \/ \E t \in tabs : destroyed' = Append(destroyed, t)
      BY DEF Next, Browser, OpenTab, CloseTab, CoreTask,
        AskPages, Discover, PassOver,
        RegisterFound, Discovered, CoreLookup, CoreGivesUp, CoreRegister,
        CoreClearFrame, DestroyedTask, TargetDestroyed, DestroyedClearFrame,
        FollowTask, FollowLookup, FollowGivesUp, FollowRegister,
        FollowSwitchesViewer, Command, View, ViewStarts, SelectFrame, ClearFrame,
        CloseTarget, SwitchPage, ClosePage, Refresh, NoBrowserPage, ApplyRefresh,
        SelectBrowserPage
    <2>3. \/ seen' = seen
          \/ seen # << >> /\ seen' = Tail(seen)
          \/ \E t \in Targets : seen' = Append(seen, t)
      BY DEF Next, Browser, OpenTab, CloseTab, CoreTask,
        AskPages, Discover, PassOver,
        RegisterFound, Discovered, CoreLookup, CoreGivesUp, CoreRegister,
        CoreClearFrame, DestroyedTask, TargetDestroyed, DestroyedClearFrame,
        FollowTask, FollowLookup, FollowGivesUp, FollowRegister,
        FollowSwitchesViewer, Command, View, ViewStarts, SelectFrame, ClearFrame,
        CloseTarget, SwitchPage, ClosePage, Refresh, NoBrowserPage, ApplyRefresh,
        SelectBrowserPage
    <2>4. ASSUME NEW s \in Seq(Targets), NEW n,
                 \/ n = s
                 \/ s # << >> /\ n = Tail(s)
                 \/ \E t \in Targets : n = Append(s, t)
          PROVE  n \in Seq(Targets)
      <3>1. CASE n = s
        BY <3>1
      <3>2. CASE s # << >> /\ n = Tail(s)
        BY <3>2, HeadTailProperties
      <3>3. CASE \E t \in Targets : n = Append(s, t)
        BY <3>3, AppendProperties
      <3> QED BY <2>4, <3>1, <3>2, <3>3
    <2>5. \A t \in tabs : t \in Targets
      BY <1>1
    <2>6. created' \in Seq(Targets)
      BY <1>1, <2>1, <2>4
    <2>7. destroyed' \in Seq(Targets)
      BY <1>1, <2>2, <2>4, <2>5
    <2>8. seen' \in Seq(Targets)
      BY <1>1, <2>3, <2>4
    <2> QED BY <2>6, <2>7, <2>8
  <1>11. core' \in [at : Steps \cup {"asking", "discovering", "checking"},
                   tab : Targets \cup {None}, left : SUBSET Targets]
    <2>1. CASE ~CoreTask
      BY <1>1, <2>1, OthersSteps
    <2>2. CASE CoreTask
      <3>1. ASSUME NEW a \in Steps \cup {"discovering", "checking"},
                   NEW t \in Targets \cup {None}, CoreIs(a, t)
            PROVE  core' \in [at : Steps \cup {"asking", "discovering", "checking"},
                             tab : Targets \cup {None}, left : SUBSET Targets]
        BY <1>1, <3>1 DEF CoreIs
      <3>2. created # << >> => Head(created) \in Targets
        BY <1>1
      <3>3. \/ \E t \in Targets : Discover(t)
            \/ AskPages
            \/ core' = core
            \/ \E a \in {"discovering", "idle", "attaching", "activated"} :
               \E t \in Targets \cup {None} : CoreIs(a, t)
        BY <1>1, <2>2, <3>2 DEF CoreTask, RegisterFound, Discovered, CoreLookup,
          CoreGivesUp, CoreRegister, CoreClearFrame
      <3>4. ASSUME NEW t \in Targets, Discover(t)
            PROVE  core' \in [at : Steps \cup {"asking", "discovering", "checking"},
                             tab : Targets \cup {None}, left : SUBSET Targets]
        BY <1>1, <3>4 DEF Discover
      <3>5. ASSUME AskPages
            PROVE  core' \in [at : Steps \cup {"asking", "discovering", "checking"},
                             tab : Targets \cup {None}, left : SUBSET Targets]
        BY <1>1, <3>5 DEF AskPages
      <3> QED BY <1>1, <3>1, <3>3, <3>4, <3>5 DEF Steps
    <2> QED BY <2>1, <2>2
  <1>12. follower' \in [at : Steps, tab : Targets \cup {None}]
    <2>1. seen # << >> => Head(seen) \in Targets
      BY <1>1
    <2>2. \/ follower' = follower
          \/ \E a \in Steps, t \in Targets \cup {None} : follower' = Job(a, t)
          \/ follower' = NoJob
      BY <1>1, <2>1 DEF Steps, Next, Browser, OpenTab, CloseTab, CoreTask,
        AskPages, Discover, PassOver,
        RegisterFound, Discovered, CoreLookup, CoreGivesUp, CoreRegister,
        CoreClearFrame, DestroyedTask, TargetDestroyed, DestroyedClearFrame,
        FollowTask, FollowLookup, FollowGivesUp, FollowRegister,
        FollowSwitchesViewer, Command, View, ViewStarts, SelectFrame, ClearFrame,
        CloseTarget, SwitchPage, ClosePage, Refresh, NoBrowserPage, ApplyRefresh,
        SelectBrowserPage
    <2>3. NoJob \in [at : Steps, tab : Targets \cup {None}]
      BY DEF NoJob, Steps
    <2> QED BY <1>1, <2>2, <2>3 DEF Job
  <1>13. conn' \in [Conns -> [at : {"idle", "starting", "changed", "closing",
                                  "selecting", "applying"},
                            tab : Targets \cup {None}, id : Nat]]
    <2>1. ASSUME NEW c \in Conns,
                 NEW a \in {"starting", "changed", "closing", "selecting",
                            "applying"},
                 NEW t \in Targets \cup {None}, NEW id \in Nat, Go(c, a, t, id)
          PROVE  conn' \in [Conns -> [at : {"idle", "starting", "changed",
                                           "closing", "selecting", "applying"},
                                     tab : Targets \cup {None}, id : Nat]]
      BY <1>1, <2>1 DEF Go
    <2>2. ASSUME NEW c \in Conns, Answer(c)
          PROVE  conn' \in [Conns -> [at : {"idle", "starting", "changed",
                                           "closing", "selecting", "applying"},
                                     tab : Targets \cup {None}, id : Nat]]
      BY <1>1, <2>2 DEF Answer, NoRequest
    <2>3. ASSUME NEW c \in Conns, Command(c)
          PROVE  \/ conn' = conn
                 \/ Answer(c)
                 \/ \E a \in {"starting", "changed", "closing", "selecting",
                             "applying"},
                     t \in Targets \cup {None}, id \in Nat : Go(c, a, t, id)
      <3>1. conn[c].id \in Nat
        BY <1>1
      <3>2. View(c) => Go(c, "starting", ActivePage, 0)
        BY DEF View
      <3>3. Refresh(c) => Go(c, "selecting", ActivePage, active)
        BY DEF Refresh
      <3>4. ApplyRefresh(c) => Go(c, "changed", None, 0)
        BY DEF ApplyRefresh
      <3>5. \A t \in Targets : SelectBrowserPage(c, t) =>
              Go(c, "applying", t, conn[c].id)
        BY DEF SelectBrowserPage
      <3>6. \A id \in Ids :
              /\ SwitchPage(c, id) => Go(c, "changed", None, 0)
              /\ ClosePage(c, id) => Go(c, "closing", Entry(id).tab, 0)
        BY DEF SwitchPage, ClosePage
      <3>7. SelectFrame(c) => conn' = conn
        BY DEF SelectFrame
      <3>8. ViewStarts(c) \/ ClearFrame(c) \/ CloseTarget(c)
              \/ NoBrowserPage(c) => Answer(c)
        BY DEF ViewStarts, ClearFrame, CloseTarget, NoBrowserPage
      <3> HIDE DEF Go, Answer
      <3> QED
        BY <1>2, <1>3, <2>3, <3>1, <3>2, <3>3, <3>4, <3>5, <3>6, <3>7, <3>8
        DEF Command
    <2>4. ASSUME ~(\E c \in Conns : Command(c)) PROVE conn' = conn
      BY <2>4 DEF Next, Browser, OpenTab, CloseTab, CoreTask,
        AskPages, Discover, PassOver,
        RegisterFound, Discovered, CoreLookup, CoreGivesUp, CoreRegister,
        CoreClearFrame, DestroyedTask, TargetDestroyed, DestroyedClearFrame,
        FollowTask, FollowLookup, FollowGivesUp, FollowRegister,
        FollowSwitchesViewer
    <2>5. ASSUME NEW c \in Conns, Command(c)
          PROVE  conn' \in [Conns -> [at : {"idle", "starting", "changed",
                                           "closing", "selecting", "applying"},
                                     tab : Targets \cup {None}, id : Nat]]
      BY <1>1, <2>1, <2>2, <2>3, <2>5
    <2> QED BY <1>1, <2>4, <2>5
  <1>14. adopted' \cup unlisted' \subseteq Targets
    <2>1. CASE CoreGivesUp
      BY <1>1, <2>1 DEF CoreGivesUp, Holding
    <2>2. ASSUME NEW c \in Conns, NEW id \in Ids, ClosePage(c, id)
          PROVE  adopted' \cup unlisted' \subseteq Targets
      BY <1>1, <1>3, <2>2 DEF ClosePage
    <2>3. ASSUME NEW c \in Conns, ApplyRefresh(c)
          PROVE  adopted' \cup unlisted' \subseteq Targets
      <3>1. /\ conn[c].tab \in Targets
            /\ adopted' = adopted \cup {conn[c].tab}
        BY <1>1, <2>3 DEF ApplyRefresh, Holding
      <3>2. CASE conn[c].id \in Ids
        BY <1>1, <1>3, <2>3, <3>1, <3>2 DEF ApplyRefresh
      <3>3. CASE conn[c].id \notin Ids
        BY <1>1, <2>3, <3>1, <3>3 DEF ApplyRefresh
      <3> QED BY <3>2, <3>3
    <2>5. ASSUME AskPages \/ \E t \in Targets : Discover(t)
          PROVE  adopted' \cup unlisted' \subseteq Targets
      BY <1>1, <2>5 DEF AskPages, Discover, PassOver
    <2>4. ASSUME ~CoreGivesUp, ~AskPages, \A t \in Targets : ~Discover(t),
                 \A c \in Conns : /\ ~ApplyRefresh(c)
                                  /\ \A id \in Ids : ~ClosePage(c, id)
          PROVE  UNCHANGED <<adopted, unlisted>>
      BY <2>4 DEF Next, Browser, OpenTab, CloseTab, CoreTask,
        RegisterFound, Discovered, CoreLookup, CoreRegister, CoreClearFrame,
        DestroyedTask, TargetDestroyed, DestroyedClearFrame, FollowTask,
        FollowLookup, FollowGivesUp, FollowRegister, FollowSwitchesViewer,
        Command, View, ViewStarts, SelectFrame, ClearFrame, CloseTarget,
        SwitchPage, Refresh, NoBrowserPage, SelectBrowserPage
    <2> QED BY <1>1, <2>1, <2>2, <2>3, <2>4, <2>5
  <1> QED
    BY <1>4, <1>5, <1>6, <1>7, <1>8, <1>9, <1>10, <1>11, <1>12, <1>13, <1>14
    DEF TypeOK

-----------------------------------------------------------------------------
\* IInv holds in every reachable state.
THEOREM Invariance == Spec => []IInv
PROOF
  <1>1. Init => IInv
    <2> SUFFICES ASSUME Init PROVE IInv
      OBVIOUS
    <2>1. entries = << [id |-> 1, tab |-> First] >>
      BY DEF Init
    <2>2. /\ Len(entries) = 1 /\ DOMAIN entries = {1}
          /\ entries[1].id = 1 /\ entries[1].tab = First
      BY <2>1
    <2>3. [id |-> 1, tab |-> First] \in [id : Nat \ {0}, tab : Targets]
      BY TargetsAssumption
    <2>4. entries \in Seq([id : Nat \ {0}, tab : Targets])
      BY <2>1, <2>3
    <2>5. ActiveListed
      BY <2>2 DEF Init, ActiveListed, Ids
    <2>6. TypeOK
      <3>1. core \in [at : Steps \cup {"asking", "discovering", "checking"},
                      tab : Targets \cup {None}, left : SUBSET Targets]
        BY TargetsAssumption DEF Init
      <3>2. follower \in [at : Steps, tab : Targets \cup {None}]
        BY DEF Init, NoJob, Steps
      <3>3. conn \in [Conns -> [at : {"idle", "starting", "changed", "closing",
                                      "selecting", "applying"},
                                tab : Targets \cup {None}, id : Nat]]
        BY DEF Init, NoRequest
      <3>4. {created, destroyed, seen} \subseteq Seq(Targets)
        BY DEF Init
      <3>5. /\ tabs \subseteq opened /\ opened \subseteq Targets
            /\ adopted \cup unlisted \subseteq Targets
        BY TargetsAssumption DEF Init
      <3>6. /\ active \in Nat /\ nextId \in Nat \ {0} /\ refreshes \in Nat
            /\ frame \in Targets \cup {None} /\ watch \in Targets \cup {None}
        BY DEF Init
      <3>7. cleaning \in BOOLEAN
        BY DEF Init
      <3> QED BY <2>4, <3>1, <3>2, <3>3, <3>4, <3>5, <3>6, <3>7 DEF TypeOK
    <2>7. OneEntryPerTab
      BY <2>2 DEF OneEntryPerTab
    <2>8. NoStaleFrame
      BY DEF Init, NoStaleFrame
    <2>9. OpenTabsGetListed /\ Holding
      BY DEF Init, OpenTabsGetListed, Holding, NoJob, NoRequest
    <2>10. Announced /\ Gone
      BY DEF Init, Announced, Gone
    <2> QED BY <2>5, <2>6, <2>7, <2>8, <2>9, <2>10 DEF IInv
  <1>2. IInv /\ [Next]_vars => IInv'
    <2> SUFFICES ASSUME IInv, [Next]_vars PROVE IInv'
      OBVIOUS
    <2>1. CASE Next
      <3>1. ActiveListed'
        BY <2>1, RegistrySteps DEF Outcome, RegistryOK
      <3> QED
        BY <2>1, <3>1, TypeStep, EntryStep, FrameStep, OpenTabsStep, HoldingStep,
           AnnouncedStep, GoneStep
        DEF IInv
    <2>2. CASE UNCHANGED vars
      BY <2>2 DEF vars, registry, tracker, viewer, history, IInv, TypeOK,
        ActiveListed, Ids, OneEntryPerTab, NoStaleFrame, ActivePage, Entry,
        Position, FrameIsBeingCleared, OpenTabsGetListed, Reported, Listed, Holding,
        Announced, Gone
    <2> QED BY <2>1, <2>2
  <1> QED BY <1>1, <1>2, PTL DEF Spec

\* Every variable keeps its type, whoever writes the registry in between.
THEOREM TypeCorrect == Spec => []TypeOK
PROOF
  <1>1. IInv => TypeOK
    BY DEF IInv
  <1> QED BY <1>1, Invariance, PTL

\* A command always finds its page, and an id is never used twice.
THEOREM ActiveSafety == Spec => []ActiveListed
PROOF
  <1>1. IInv => ActiveListed
    BY DEF IInv
  <1> QED BY <1>1, Invariance, PTL

\* Only the recovery of the active page lists a tab a second time.
THEOREM EntrySafety == Spec => []OneEntryPerTab
PROOF
  <1>1. IInv => OneEntryPerTab
    BY DEF IInv
  <1> QED BY <1>1, Invariance, PTL

\* A frame selected in one page never goes on scoping the commands of another.
THEOREM FrameSafety == Spec => []NoStaleFrame
PROOF
  <1>1. IInv => NoStaleFrame
    BY DEF IInv
  <1> QED BY <1>1, Invariance, PTL

\* An open tab is listed, or the tracker still has it to list, or somebody
\* took it off the list on purpose.
THEOREM OpenTabsSafety == Spec => []OpenTabsGetListed
PROOF
  <1>1. IInv => OpenTabsGetListed
    BY DEF IInv
  <1> QED BY <1>1, Invariance, PTL
=============================================================================

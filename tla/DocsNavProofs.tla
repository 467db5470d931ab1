---------------------------- MODULE DocsNavProofs ----------------------------
(***************************************************************************)
(* Proofs about DocsNav, for any number of tabs and pages.                 *)
(*                                                                         *)
(* A tab writes the shared language twice: when it is clicked, and when    *)
(* its script ends, with what it has read before.  The second write is     *)
(* harmless unless a click has come in between.                            *)
(***************************************************************************)
EXTENDS DocsNav, TLAPS, WellFoundedInduction

USE NavAssumption

\* What is stored is the choice, and every tab that can tell follows it or is about to.
Agreed ==
  chosen \in Languages =>
    /\ stored = chosen
    /\ \A t \in Usable : Loading(t) => t \in follows
    /\ \A t \in Usable \cap follows : tab[t] # Blank => tab[t].lang = chosen

ActiveAsLoaded == \A t \in Tabs : tab[t] # Blank => tab[t].active = Active(tab[t].page.id)

MarkAsScrolled ==
  \A t \in Tabs : Loaded(t) /\ ~tab[t].moved =>
    tab[t].mark = CurrentSection(tab[t].page.toc, tab[t].top, tab[t].scroll)

\* The inductive invariant.
IInv == TypeOK /\ Agreed /\ ActiveAsLoaded /\ MarkAsScrolled

-----------------------------------------------------------------------------
(* The table of contents                                                    *)

LEMMA NatOrder == IsWellFoundedOn({p \in Nat \X Nat : p[1] < p[2]}, Nat)
BY NatLessThanWellFounded DEF OpToRel

\* A set of positions in a sequence that is not empty has its maximum in it.
LEMMA MaxIn ==
  ASSUME NEW n \in Nat, NEW S \in SUBSET (1..n), S # {}
  PROVE  Max(S) \in S /\ \A i \in S : i <= Max(S)
<1> DEFINE Less == {p \in Nat \X Nat : p[1] < p[2]}
           T == {k \in Nat : n - k \in S}
<1>1. \A i \in S : i \in Nat /\ i <= n /\ n - i \in T
  OBVIOUS
<1>2. T \subseteq Nat /\ T # {}
  BY <1>1
<1>3. PICK x \in T : \A y \in T : <<y, x>> \notin Less
  BY <1>2, NatOrder, WFMin
<1>4. x \in Nat /\ n - x \in S
  OBVIOUS
<1>5. ASSUME NEW i \in S PROVE i <= n - x
  <2>1. n - i \in Nat /\ <<n - i, x>> \notin Less
    BY <1>1, <1>3
  <2>2. ~(n - i < x)
    BY <1>4, <2>1 DEF Less
  <2> QED BY <1>1, <1>4, <2>2
<1> HIDE DEF T, Less
<1>6. \E j \in S : \A i \in S : j >= i
  BY <1>1, <1>4, <1>5
<1>7. Max(S) \in S /\ \A i \in S : Max(S) >= i
  BY <1>6 DEF Max
<1> QED BY <1>1, <1>7

LEMMA PageFacts ==
  ASSUME NEW t \in Tabs, NEW p \in Visits[t]
  PROVE  /\ p \in Pages /\ p.toc \in Seq(STRING)
         /\ \A top \in p.layouts : top \in [DOMAIN top -> Nat] /\ top \in UNION {q.layouts : q \in Pages}
BY DEF Pages

\* The marked entry is one that has been reached, and the last of them.
LEMMA SectionFound ==
  ASSUME NEW toc \in Seq(STRING), NEW top, NEW scroll
  PROVE  LET reached == Reached(toc, top, scroll)
             mark    == CurrentSection(toc, top, scroll)
         IN  /\ reached = {} => mark = None
             /\ reached # {} => \E i \in reached : mark = toc[i] /\ \A j \in reached : j <= i
             /\ mark \in ToSet(toc) \cup {None}
<1> DEFINE reached == Reached(toc, top, scroll)
           mark == CurrentSection(toc, top, scroll)
<1>1. Len(toc) \in Nat /\ DOMAIN toc = 1..Len(toc)
  OBVIOUS
<1>2. reached \in SUBSET (1..Len(toc))
  BY <1>1 DEF Reached
<1>3. mark = IF reached = {} THEN None ELSE toc[Max(reached)]
  BY DEF CurrentSection
<1> HIDE DEF reached, mark
<1>4. reached # {} => Max(reached) \in reached /\ \A j \in reached : j <= Max(reached)
  BY <1>1, <1>2, MaxIn
<1>5. reached = {} => mark = None
  BY <1>3
<1>6. reached # {} => \E i \in reached : mark = toc[i] /\ \A j \in reached : j <= i
  BY <1>3, <1>4
<1>7. mark \in ToSet(toc) \cup {None}
  BY <1>1, <1>2, <1>5, <1>6 DEF ToSet
<1> QED BY <1>5, <1>6, <1>7 DEF reached, mark

-----------------------------------------------------------------------------
(* What each step changes                                                   *)

\* The document of t is d, the others are as they were.
Becomes(t, d) == tab' = [tab EXCEPT ![t] = d]

LEMMA BecomesType ==
  ASSUME TypeOK, NEW t \in Tabs, NEW d \in Documents, Becomes(t, d)
  PROVE  /\ tab' \in [Tabs -> {Blank} \cup Documents] /\ tab'[t] = d
         /\ \A u \in Tabs : u # t => tab'[u] = tab[u]
BY DEF TypeOK, Becomes

LEMMA NotBlank ==
  ASSUME NEW d \in Documents
  PROVE  d # Blank /\ d.phase \in {"read", "shown"}
BY DEF Documents, Blank

\* What is said of a document says so of all of them.
Proper(t, d) ==
  /\ d.page \in Visits[t] /\ d.top \in d.page.layouts
  /\ d.mark \in ToSet(d.page.toc) \cup {None}
  /\ d.active = Active(d.page.id)
  /\ d.phase = "shown" /\ ~d.moved => d.mark = CurrentSection(d.page.toc, d.top, d.scroll)

LEMMA DocumentFacts ==
  ASSUME IInv, NEW t \in Tabs, tab[t] # Blank
  PROVE  tab[t] \in Documents /\ Proper(t, tab[t])
BY DEF IInv, TypeOK, ActiveAsLoaded, MarkAsScrolled, Proper, Loaded

LEMMA DocumentsStay ==
  ASSUME IInv, NEW t \in Tabs, NEW d \in Documents, Proper(t, d), Becomes(t, d),
         stored' \in Languages \cup {None}, chosen' \in Languages \cup {None, "contested"},
         follows' \subseteq Tabs, Agreed'
  PROVE  IInv'
<1>1. /\ tab' \in [Tabs -> {Blank} \cup Documents] /\ tab'[t] = d
      /\ \A u \in Tabs : u # t => tab'[u] = tab[u]
  BY BecomesType DEF IInv
<1>2. ASSUME NEW u \in Tabs, tab'[u] # Blank PROVE tab'[u] \in Documents /\ Proper(u, tab'[u])
  BY <1>1, <1>2, DocumentFacts
<1>3. TypeOK'
  BY <1>1, <1>2 DEF TypeOK, Proper
<1>4. ActiveAsLoaded'
  BY <1>2 DEF ActiveAsLoaded, Proper
<1>5. MarkAsScrolled'
  BY <1>2 DEF MarkAsScrolled, Proper, Loaded
<1> QED BY <1>3, <1>4, <1>5 DEF IInv

\* A highlight of what is on the screen is proper.
LEMMA MarkedProper ==
  ASSUME NEW t \in Tabs, NEW d \in Documents, d.page \in Visits[t], d.top \in d.page.layouts,
         d.active = Active(d.page.id)
  PROVE  /\ Marked(d) \in Documents /\ Proper(t, Marked(d))
         /\ Marked(d).lang = d.lang /\ Marked(d).phase = d.phase
<1> DEFINE mark == CurrentSection(d.page.toc, d.top, d.scroll)
           r == [d EXCEPT !.mark = mark, !.moved = FALSE]
<1>1. d.page \in Pages /\ d.page.toc \in Seq(STRING)
  BY PageFacts
<1>2. mark \in ToSet(d.page.toc) \cup {None}
  BY <1>1, SectionFound
<1>3. Marked(d) = r
  BY DEF Marked
<1> HIDE DEF mark
<1>4. mark \in (UNION {ToSet(p.toc) : p \in Pages}) \cup {None}
  BY <1>1, <1>2, Zenon
<1>5. /\ r \in Documents /\ r.mark = mark /\ ~r.moved
      /\ r.page = d.page /\ r.top = d.top /\ r.active = d.active /\ r.scroll = d.scroll
      /\ r.lang = d.lang /\ r.phase = d.phase
  BY <1>4 DEF Documents
<1> HIDE DEF r
<1>6. r.mark = CurrentSection(r.page.toc, r.top, r.scroll)
  BY <1>5 DEF mark
<1> QED BY <1>2, <1>3, <1>5, <1>6 DEF Proper

LEMMA OtherType == \A lang \in Languages : Other(lang) \in Languages
BY DEF Other, Languages

LEMMA InitIInv == Init => IInv
BY DEF Init, IInv, TypeOK, Agreed, ActiveAsLoaded, MarkAsScrolled, Loaded, Blank, None, Languages

LEMMA LoadStep ==
  ASSUME IInv, NEW t \in Tabs, Load(t)
  PROVE  IInv'
<1>1. PICK page \in Visits[t] : \E top \in page.layouts, scroll \in Positions(page) :
        tab' = [tab EXCEPT ![t] =
          [phase |-> "read", page |-> page, active |-> Active(page.id), open |-> FALSE,
           lang |-> IF t \in Usable /\ stored # None THEN stored ELSE "zh",
           top |-> top, scroll |-> scroll, mark |-> None, moved |-> FALSE]]
  BY DEF Load
<1>2. PICK top \in page.layouts, scroll \in Positions(page) :
        tab' = [tab EXCEPT ![t] =
          [phase |-> "read", page |-> page, active |-> Active(page.id), open |-> FALSE,
           lang |-> IF t \in Usable /\ stored # None THEN stored ELSE "zh",
           top |-> top, scroll |-> scroll, mark |-> None, moved |-> FALSE]]
  BY <1>1
<1> DEFINE lang == IF t \in Usable /\ stored # None THEN stored ELSE "zh"
           active == Active(page.id)
           d == [phase |-> "read", page |-> page, active |-> active, open |-> FALSE,
                 lang |-> lang, top |-> top, scroll |-> scroll, mark |-> None, moved |-> FALSE]
<1>3. Becomes(t, d)
  BY <1>2 DEF Becomes
<1>4. lang \in Languages
  BY DEF IInv, TypeOK, Languages
<1>5. scroll \in 0..MaxScroll /\ page \in Pages /\ top \in UNION {p.layouts : p \in Pages}
  BY PageFacts DEF Positions
<1>6. active = Active(page.id) /\ active \in SUBSET {it.href : it \in GROUPS}
  BY DEF Active
<1>7. t \in Usable /\ stored # None => lang = stored
  OBVIOUS
<1> HIDE DEF lang, active
<1>8. d \in Documents
  <2> DEFINE Marks == (UNION {ToSet(p.toc) : p \in Pages}) \cup {None}
             Links == SUBSET {it.href : it \in GROUPS}
             Tops == UNION {p.layouts : p \in Pages}
  <2>1. None \in Marks /\ active \in Links /\ top \in Tops
    BY <1>5, <1>6, Zenon
  <2>2. Documents = [phase : {"read", "shown"}, page : Pages, active : Links, open : BOOLEAN,
                     lang : Languages, top : Tops, scroll : 0..MaxScroll, mark : Marks, moved : BOOLEAN]
    BY DEF Documents
  <2> HIDE DEF Marks, Links, Tops
  <2> QED BY <1>4, <1>5, <2>1, <2>2
<1>9. Proper(t, d)
  BY <1>6 DEF Proper
<1>10. d.lang = lang /\ d.phase = "read"
  OBVIOUS
<1> HIDE DEF d
<1>11. tab'[t] = d /\ \A u \in Tabs : u # t => tab'[u] = tab[u]
  BY <1>3, <1>8, BecomesType DEF IInv
<1>12. follows' = follows \cup {t} /\ UNCHANGED <<stored, chosen>>
  BY DEF Load
<1>13. Agreed'
  <2> SUFFICES ASSUME chosen \in Languages
               PROVE  /\ stored = chosen
                      /\ \A u \in Usable : Loading(u)' => u \in follows'
                      /\ \A u \in Usable \cap follows' : tab'[u] # Blank => tab'[u].lang = chosen
    BY <1>12 DEF Agreed
  <2>1. /\ stored = chosen /\ stored # None
        /\ \A u \in Usable : Loading(u) => u \in follows
        /\ \A u \in Usable \cap follows : tab[u] # Blank => tab[u].lang = chosen
    BY DEF IInv, Agreed, Languages, None
  <2>2. \A u \in Usable : u \in Tabs
    OBVIOUS
  <2> QED BY <1>7, <1>10, <1>11, <1>12, <2>1, <2>2 DEF Loading
<1> QED BY <1>3, <1>8, <1>9, <1>12, <1>13, DocumentsStay DEF IInv, TypeOK

\* The language that a document has read is the choice, if there has been one since.
LEMMA ShowStep ==
  ASSUME IInv, NEW t \in Tabs, Show(t)
  PROVE  IInv'
<1>1. tab[t] # Blank /\ tab[t].phase = "read" /\ tab[t] \in Documents /\ Proper(t, tab[t])
  BY DocumentFacts DEF Show, Loading
<1> DEFINE e == [tab[t] EXCEPT !.phase = "shown"]
           d == Marked(e)
<1>2. Becomes(t, d) /\ UNCHANGED <<chosen, follows>>
      /\ stored' = IF t \in Usable THEN tab[t].lang ELSE stored
  BY DEF Becomes, Show, SetLang
<1>3. /\ e \in Documents /\ e.page = tab[t].page /\ e.top = tab[t].top
      /\ e.active = tab[t].active /\ e.lang = tab[t].lang /\ e.phase = "shown"
  BY <1>1 DEF Documents
<1> HIDE DEF e
<1>4. d \in Documents /\ Proper(t, d) /\ d.lang = tab[t].lang /\ d.phase = "shown"
  BY <1>1, <1>3, MarkedProper DEF Proper
<1> HIDE DEF d
<1>5. tab'[t] = d /\ \A u \in Tabs : u # t => tab'[u] = tab[u]
  BY <1>2, <1>4, BecomesType DEF IInv
<1>6. tab[t].lang \in Languages
  BY <1>1 DEF Documents
<1>7. Agreed'
  <2> SUFFICES ASSUME chosen \in Languages
               PROVE  /\ stored' = chosen
                      /\ \A u \in Usable : Loading(u)' => u \in follows
                      /\ \A u \in Usable \cap follows : tab'[u] # Blank => tab'[u].lang = chosen
    BY <1>2 DEF Agreed
  <2>1. /\ stored = chosen
        /\ \A u \in Usable : Loading(u) => u \in follows
        /\ \A u \in Usable \cap follows : tab[u] # Blank => tab[u].lang = chosen
    BY DEF IInv, Agreed
  <2>2. \A u \in Usable : u \in Tabs
    OBVIOUS
  <2>3. t \in Usable => tab[t].lang = chosen
    BY <1>1, <2>1 DEF Loading
  <2> QED BY <1>1, <1>2, <1>4, <1>5, <2>1, <2>2, <2>3 DEF Loading
<1> QED BY <1>2, <1>4, <1>6, <1>7, DocumentsStay DEF IInv, TypeOK

\* A click while nothing is being loaded is the choice of all.
LEMMA ToggleStep ==
  ASSUME IInv, NEW t \in Tabs, Toggle(t)
  PROVE  IInv'
<1>1. tab[t] # Blank /\ tab[t].phase = "shown" /\ tab[t] \in Documents /\ Proper(t, tab[t])
  BY DocumentFacts DEF Toggle, Loaded
<1> DEFINE lang == Other(tab[t].lang)
<1>2. PICK top \in tab[t].page.layouts :
        tab' = [tab EXCEPT ![t].lang = lang, ![t].top = top, ![t].moved = @ \/ top # tab[t].top]
  BY DEF Toggle
<1>3. /\ stored' = IF t \in Usable THEN lang ELSE stored
      /\ IF t \in Usable
           THEN /\ chosen' = IF \E u \in Tabs : Loading(u) THEN "contested" ELSE lang
                /\ follows' = {t}
           ELSE chosen' = chosen /\ follows' = follows \ {t}
  BY DEF Toggle, SetLang
<1> DEFINE moved == tab[t].moved \/ top # tab[t].top
           d == [tab[t] EXCEPT !.lang = lang, !.top = top, !.moved = moved]
<1>4. Becomes(t, d)
  BY <1>1, <1>2 DEF Becomes, IInv, TypeOK
<1>5. lang \in Languages /\ moved \in BOOLEAN /\ top \in UNION {p.layouts : p \in Pages}
  BY <1>1, OtherType, PageFacts DEF Documents, Proper
<1>6. ~moved => ~tab[t].moved /\ top = tab[t].top
  OBVIOUS
<1> HIDE DEF lang, moved
<1>7. /\ d \in Documents /\ d.page = tab[t].page /\ d.top = top /\ d.moved = moved /\ d.lang = lang
      /\ d.active = tab[t].active /\ d.scroll = tab[t].scroll /\ d.mark = tab[t].mark
      /\ d.phase = "shown"
  BY <1>1, <1>5 DEF Documents
<1> HIDE DEF d
<1>8. Proper(t, d)
  BY <1>1, <1>6, <1>7 DEF Proper
<1>9. tab'[t] = d /\ \A u \in Tabs : u # t => tab'[u] = tab[u]
  BY <1>4, <1>7, BecomesType DEF IInv
<1>10. \A u \in Usable : u \in Tabs
  OBVIOUS
<1>11. CASE t \in Usable
  <2>1. Agreed'
    <3> SUFFICES ASSUME chosen' \in Languages
                 PROVE  /\ stored' = chosen'
                        /\ \A u \in Usable : Loading(u)' => u \in follows'
                        /\ \A u \in Usable \cap follows' : tab'[u] # Blank => tab'[u].lang = chosen'
      BY DEF Agreed
    <3>1. chosen' = lang /\ \A u \in Tabs : ~Loading(u)
      BY <1>3, <1>11 DEF Languages
    <3> QED BY <1>3, <1>7, <1>9, <1>10, <1>11, <3>1 DEF Loading
  <2> QED BY <1>3, <1>4, <1>5, <1>7, <1>8, <1>11, <2>1, DocumentsStay
<1>12. CASE t \notin Usable
  <2>1. Agreed'
    <3> SUFFICES ASSUME chosen \in Languages
                 PROVE  /\ stored = chosen
                        /\ \A u \in Usable : Loading(u)' => u \in follows'
                        /\ \A u \in Usable \cap follows' : tab'[u] # Blank => tab'[u].lang = chosen
      BY <1>3, <1>12 DEF Agreed
    <3>1. /\ stored = chosen
          /\ \A u \in Usable : Loading(u) => u \in follows
          /\ \A u \in Usable \cap follows : tab[u] # Blank => tab[u].lang = chosen
      BY DEF IInv, Agreed
    <3>2. \A u \in Usable : u # t /\ tab'[u] = tab[u]
      BY <1>9, <1>10, <1>12
    <3> QED BY <1>3, <1>12, <3>1, <3>2 DEF Loading
  <2> QED BY <1>3, <1>4, <1>7, <1>8, <1>12, <2>1, DocumentsStay DEF IInv, TypeOK
<1> QED BY <1>11, <1>12

\* A document that is shown goes on being shown in the same language.
LEMMA StillAgreed ==
  ASSUME IInv, NEW t \in Tabs, tab[t] # Blank, NEW d \in Documents, Proper(t, d), Becomes(t, d),
         d.lang = tab[t].lang, d.phase = "shown", UNCHANGED <<stored, chosen, follows>>
  PROVE  IInv'
<1>1. tab'[t] = d /\ \A u \in Tabs : u # t => tab'[u] = tab[u]
  BY BecomesType DEF IInv
<1>2. \A u \in Usable : u \in Tabs
  OBVIOUS
<1>3. Agreed'
  BY <1>1, <1>2 DEF IInv, Agreed, Loading
<1> QED BY <1>3, DocumentsStay DEF IInv, TypeOK

LEMMA ToggleMenuStep ==
  ASSUME IInv, NEW t \in Tabs, ToggleMenu(t)
  PROVE  IInv'
<1>1. tab[t] # Blank /\ tab[t].phase = "shown" /\ tab[t] \in Documents /\ Proper(t, tab[t])
  BY DocumentFacts DEF ToggleMenu, Loaded
<1> DEFINE d == [tab[t] EXCEPT !.open = ~tab[t].open]
<1>2. Becomes(t, d) /\ UNCHANGED <<stored, chosen, follows>>
  BY DEF Becomes, ToggleMenu
<1>3. /\ d \in Documents /\ d.page = tab[t].page /\ d.top = tab[t].top /\ d.moved = tab[t].moved
      /\ d.lang = tab[t].lang /\ d.active = tab[t].active /\ d.scroll = tab[t].scroll
      /\ d.mark = tab[t].mark /\ d.phase = "shown"
  BY <1>1 DEF Documents
<1> HIDE DEF d
<1>4. Proper(t, d)
  BY <1>1, <1>3 DEF Proper
<1> QED BY <1>1, <1>2, <1>3, <1>4, StillAgreed

LEMMA ScrollStep ==
  ASSUME IInv, NEW t \in Tabs, Scroll(t)
  PROVE  IInv'
<1>1. tab[t] # Blank /\ tab[t].phase = "shown" /\ tab[t] \in Documents /\ Proper(t, tab[t])
  BY DocumentFacts DEF Scroll, Loaded
<1>2. PICK scroll \in Positions(tab[t].page) :
        tab' = [tab EXCEPT ![t] = Marked([tab[t] EXCEPT !.scroll = scroll])]
  BY DEF Scroll
<1> DEFINE e == [tab[t] EXCEPT !.scroll = scroll]
           d == Marked(e)
<1>3. Becomes(t, d) /\ UNCHANGED <<stored, chosen, follows>>
  BY <1>2 DEF Becomes, Scroll
<1>4. scroll \in 0..MaxScroll
  BY DEF Positions
<1>5. /\ e \in Documents /\ e.page = tab[t].page /\ e.top = tab[t].top
      /\ e.active = tab[t].active /\ e.lang = tab[t].lang /\ e.phase = "shown"
  BY <1>1, <1>4 DEF Documents
<1> HIDE DEF e
<1>6. d \in Documents /\ Proper(t, d) /\ d.lang = tab[t].lang /\ d.phase = "shown"
  BY <1>1, <1>5, MarkedProper DEF Proper
<1> HIDE DEF d
<1> QED BY <1>1, <1>3, <1>6, StillAgreed

THEOREM Invariance == Spec => []IInv
<1>1. IInv /\ UNCHANGED vars => IInv'
  BY DEF IInv, TypeOK, Agreed, ActiveAsLoaded, MarkAsScrolled, Loading, Loaded, vars
<1>2. IInv /\ [Next]_vars => IInv'
  BY <1>1, LoadStep, ShowStep, ToggleStep, ToggleMenuStep, ScrollStep DEF Next
<1> QED BY <1>2, InitIInv, PTL DEF Spec

-----------------------------------------------------------------------------
(* Theorems                                                                 *)

\* A document has the fields that the script works with, at all times.
THEOREM Typing == Spec => []TypeOK
<1>1. IInv => TypeOK
  BY DEF IInv
<1> QED BY <1>1, Invariance, PTL

\* For any number of tabs, some of them without storage: what is opened after the last click is
\* in the language of that click, unless a page was being loaded then (setLang).
THEOREM LanguageIsChosen == Spec => []LanguageFollowsChoice
<1>1. IInv => LanguageFollowsChoice
  BY DEF IInv, Agreed, LanguageFollowsChoice
<1> QED BY <1>1, Invariance, PTL

\* Pages that are registered in the sidebar under the id they carry (data-page).
Registered == \A p \in Pages : Item(p.id, p.file) \in GROUPS

\* No id is used twice.
LEMMA IdsDiffer ==
  ASSUME NEW x \in GROUPS, NEW y \in GROUPS, x.id = y.id
  PROVE  x = y
BY DEF GROUPS, Item

\* Every page that is registered finds its own link in the sidebar and no other (GROUPS).
THEOREM ActivePage ==
  ASSUME Registered
  PROVE  Spec => []ActiveIsThisPage
<1>1. ASSUME NEW p \in Pages PROVE Active(p.id) = {p.file}
  <2>1. Item(p.id, p.file) \in GROUPS
    BY DEF Registered
  <2>2. Item(p.id, p.file).id = p.id /\ Item(p.id, p.file).href = p.file
    BY DEF Item
  <2>3. \A x \in GROUPS : x.id = p.id => x = Item(p.id, p.file)
    BY <2>1, <2>2, IdsDiffer
  <2> QED BY <2>1, <2>2, <2>3 DEF Active
<1>2. IInv => ActiveIsThisPage
  BY <1>1, PageFacts DEF IInv, TypeOK, ActiveAsLoaded, ActiveIsThisPage
<1> QED BY <1>2, Invariance, PTL

\* Pages whose table of contents names the sections from top to bottom.
Ordered ==
  \A p \in Pages : \A top \in p.layouts : \A i, j \in DOMAIN p.toc :
    i <= j /\ p.toc[i] \in DOMAIN top /\ p.toc[j] \in DOMAIN top => top[p.toc[i]] <= top[p.toc[j]]

\* Whatever the sections, and with entries that have none: the marked entry is that of the
\* lowest section that has been reached, until the sections move (onScroll).
THEOREM MarkedSection ==
  ASSUME Ordered
  PROVE  Spec => []MarkIsWhereTheReaderIs
<1>1. IInv => MarkIsWhereTheReaderIs
  <2> SUFFICES ASSUME IInv, NEW t \in Tabs, Loaded(t), ~tab[t].moved
               PROVE  LET d == tab[t]
                          above == {id \in ToSet(d.page.toc) \cap DOMAIN d.top : d.top[id] <= d.scroll + Lead}
                      IN  IF above = {} THEN d.mark = None
                                        ELSE d.mark \in above /\ \A id \in above : d.top[id] <= d.top[d.mark]
    BY DEF MarkIsWhereTheReaderIs
  <2> DEFINE toc == tab[t].page.toc
             top == tab[t].top
             scroll == tab[t].scroll
             mark == tab[t].mark
             reached == Reached(toc, top, scroll)
             above == {id \in ToSet(toc) \cap DOMAIN top : top[id] <= scroll + Lead}
  <2>1. /\ tab[t].page \in Visits[t] /\ top \in tab[t].page.layouts
        /\ mark = CurrentSection(toc, top, scroll)
    BY DocumentFacts DEF Loaded, Proper
  <2>2. tab[t].page \in Pages /\ toc \in Seq(STRING)
    BY <2>1, PageFacts
  <2>3. \A i, j \in DOMAIN toc :
          i <= j /\ toc[i] \in DOMAIN top /\ toc[j] \in DOMAIN top => top[toc[i]] <= top[toc[j]]
    BY <2>1, <2>2 DEF Ordered
  <2> HIDE DEF toc, top, scroll, mark
  <2>4. above = {toc[i] : i \in reached}
    BY DEF Reached, ToSet
  <2>5. \A i \in reached : i \in DOMAIN toc /\ toc[i] \in DOMAIN top
    BY DEF Reached
  <2>6. /\ reached = {} => mark = None
        /\ reached # {} => \E i \in reached : mark = toc[i] /\ \A j \in reached : j <= i
    BY <2>1, <2>2, SectionFound
  <2> HIDE DEF reached
  <2>7. above = {} => mark = None
    BY <2>4, <2>6
  <2>8. above # {} => mark \in above /\ \A id \in above : top[id] <= top[mark]
    BY <2>3, <2>4, <2>5, <2>6
  <2> QED BY <2>7, <2>8 DEF toc, top, scroll, mark
<1> QED BY <1>1, Invariance, PTL
=============================================================================

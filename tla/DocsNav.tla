------------------------------ MODULE DocsNav ------------------------------
(***************************************************************************)
(* docs/nav.js, the script every page of the documentation runs: topbar,   *)
(* sidebar, language toggle, mobile menu and the highlight of the page's   *)
(* table of contents.                                                      *)
(*                                                                         *)
(* Pages are open in several tabs that share localStorage.  A tab runs its *)
(* script without interruption, but other tabs run in other processes and  *)
(* may use the storage in between; in some tabs its use is refused.        *)
(***************************************************************************)
EXTENDS Naturals, Sequences, SequencesExt, FiniteSetsExt

CONSTANTS
  Tabs,
  Visits,     \* Visits[t]: the pages opened in t, records [file, id, toc, layouts]: toc is
              \* the ids of the table of contents, each once, layouts where the sections may lie
  Usable,     \* the tabs in which localStorage does not throw
  MaxScroll,
  Lead        \* the highlight looks that far below the upper edge (110 pixels)

None == "none"
Languages == {"zh", "en"}

ASSUME NavAssumption ==
  /\ Usable \subseteq Tabs
  /\ \A t \in Tabs : \A p \in Visits[t] :
       /\ p.toc \in Seq(STRING)
       /\ \A top \in p.layouts : top \in [DOMAIN top -> Nat]
  /\ MaxScroll \in Nat /\ Lead \in Nat

VARIABLES
  stored,     \* localStorage's cancan_lang
  tab,        \* tab[t]: the document in t
  chosen,     \* the language of the last click that was stored, "contested" if a
              \* page was just being loaded
  follows     \* the tabs that were loaded or clicked after that click

vars == <<stored, tab, chosen, follows>>

-----------------------------------------------------------------------------
(* Page registry and sidebar                                                *)

Item(id, href) == [id |-> id, href |-> href]

\* MUTANT of GROUPS: an id that no page has.
GROUPS_Renamed == {Item("home", "index.html"), Item("scheduling", "workflow-scheduling.html")}

\* The groups' titles and their order play no role.
GROUPS ==
  {Item("home", "index.html"), Item("quickstart", "quickstart.html"), Item("concepts", "concepts.html"),
   Item("architecture", "architecture.html"), Item("cli", "cli.html"),
   Item("python-api", "python-api.html"),
   Item("controllersrv", "service-controllersrv.html"), Item("infrasrv", "service-infrasrv.html"),
   Item("opsbffsrv", "service-opsbffsrv.html"),
   Item("wf-concepts", "workflow-concepts.html"), Item("wf-nodes", "workflow-nodes.html"),
   Item("wf-scheduling", "workflow-scheduling.html"), Item("wf-api", "workflow-api.html"),
   Item("adminops", "adminops-ui.html"), Item("caddy", "caddy.html"),
   Item("registry", "registry-health.html"), Item("logging", "logging.html"),
   Item("data-model", "data-model.html"), Item("api-reference", "api-reference.html"),
   Item("deployment", "deployment.html")}

\* The links of the sidebar that are marked as active.
Active(current) == {it.href : it \in {x \in GROUPS : x.id = current}}

-----------------------------------------------------------------------------
(* Highlight of the table of contents                                       *)

\* The entries whose section has been reached; those without a section are left out.
Reached(toc, top, scroll) == {i \in DOMAIN toc : toc[i] \in DOMAIN top /\ top[toc[i]] <= scroll + Lead}

\* MUTANT of CurrentSection: the first section that has been reached stays marked.
CurrentSection_First(toc, top, scroll) ==
  LET reached == Reached(toc, top, scroll) IN IF reached = {} THEN None ELSE toc[Min(reached)]

\* onScroll: the last one wins.
CurrentSection(toc, top, scroll) ==
  LET reached == Reached(toc, top, scroll) IN IF reached = {} THEN None ELSE toc[Max(reached)]

Marked(d) == [d EXCEPT !.mark = CurrentSection(d.page.toc, d.top, d.scroll), !.moved = FALSE]

-----------------------------------------------------------------------------
(* The document in a tab                                                    *)

Blank == [phase |-> "blank"]
Loaded(t) == tab[t] # Blank /\ tab[t].phase = "shown"
Loading(t) == tab[t] # Blank /\ tab[t].phase = "read"

Pages == UNION {Visits[t] : t \in Tabs}
Documents ==
  [phase : {"read", "shown"}, page : Pages, active : SUBSET {it.href : it \in GROUPS},
   open : BOOLEAN, lang : Languages, top : UNION {p.layouts : p \in Pages},
   scroll : 0..MaxScroll, mark : (UNION {ToSet(p.toc) : p \in Pages}) \cup {None}, moved : BOOLEAN]

TypeOK ==
  /\ stored \in Languages \cup {None}
  /\ chosen \in Languages \cup {None, "contested"}
  /\ follows \subseteq Tabs
  /\ tab \in [Tabs -> {Blank} \cup Documents]
  /\ \A t \in Tabs : tab[t] # Blank =>
       /\ tab[t].page \in Visits[t] /\ tab[t].top \in tab[t].page.layouts
       /\ tab[t].mark \in ToSet(tab[t].page.toc) \cup {None}

Init ==
  /\ stored = None
  /\ tab = [t \in Tabs |-> Blank]
  /\ chosen = None
  /\ follows = {}

\* A page without sections fits on the screen.
Positions(page) == IF page.toc = <<>> THEN {0} ELSE 0..MaxScroll

\* Topbar and sidebar are rendered and the saved language is read.
Load(t) ==
  /\ \E page \in Visits[t] : \E top \in page.layouts, scroll \in Positions(page) :
       tab' = [tab EXCEPT ![t] =
         [phase |-> "read", page |-> page, active |-> Active(page.id), open |-> FALSE,
          lang |-> IF t \in Usable /\ stored # None THEN stored ELSE "zh",
          top |-> top, scroll |-> scroll, mark |-> None, moved |-> FALSE]]
  /\ follows' = follows \cup {t}
  /\ UNCHANGED <<stored, chosen>>

\* MUTANT of SetLang: the language is shown, not stored.
SetLang_NotStored(t, lang) ==
  /\ UNCHANGED stored
  /\ lang \in Languages

\* The storing half of setLang; what it shows is the field lang.
SetLang(t, lang) == stored' = IF t \in Usable THEN lang ELSE stored

\* The rest of the script: setLang(saved), the first highlight.
Show(t) ==
  /\ Loading(t)
  /\ SetLang(t, tab[t].lang)
  /\ tab' = [tab EXCEPT ![t] = Marked([@ EXCEPT !.phase = "shown"])]
  /\ UNCHANGED <<chosen, follows>>

Other(lang) == IF lang = "zh" THEN "en" ELSE "zh"

\* A click on the toggle.  The texts differ in length, so the sections move.
Toggle(t) ==
  /\ Loaded(t)
  /\ LET lang == Other(tab[t].lang)
     IN  /\ SetLang(t, lang)
         /\ \E top \in tab[t].page.layouts :
              tab' = [tab EXCEPT ![t].lang = lang, ![t].top = top,
                                 ![t].moved = @ \/ top # tab[t].top]
         /\ IF t \in Usable
              THEN /\ chosen' = IF \E u \in Tabs : Loading(u) THEN "contested" ELSE lang
                   /\ follows' = {t}
              ELSE chosen' = chosen /\ follows' = follows \ {t}

ToggleMenu(t) ==
  /\ Loaded(t)
  /\ tab' = [tab EXCEPT ![t].open = ~@]
  /\ UNCHANGED <<stored, chosen, follows>>

Scroll(t) ==
  /\ Loaded(t)
  /\ \E scroll \in Positions(tab[t].page) : tab' = [tab EXCEPT ![t] = Marked([@ EXCEPT !.scroll = scroll])]
  /\ UNCHANGED <<stored, chosen, follows>>

Next == \E t \in Tabs : Load(t) \/ Show(t) \/ Toggle(t) \/ ToggleMenu(t) \/ Scroll(t)

Spec == Init /\ [][Next]_vars

-----------------------------------------------------------------------------
(* Properties                                                               *)

\* A page that is opened after the last click on any page is in the language of that
\* click, unless another page was being loaded at that moment and stored the language
\* it had read before (setLang).
LanguageFollowsChoice ==
  \A t \in follows \cap Usable :
    tab[t] # Blank /\ chosen \in Languages => tab[t].lang = chosen

\* Every page of the documentation finds exactly its own link in the sidebar
\* (GROUPS, data-page).
ActiveIsThisPage ==
  \A t \in Tabs : tab[t] # Blank => tab[t].active = {tab[t].page.file}

\* The marked entry is that of the section in which the reader is, as long as the
\* sections have not moved since the last scroll event (onScroll).
MarkIsWhereTheReaderIs ==
  \A t \in Tabs :
    Loaded(t) /\ ~tab[t].moved =>
      LET d == tab[t]
          above == {id \in ToSet(d.page.toc) \cap DOMAIN d.top : d.top[id] <= d.scroll + Lead}
      IN  IF above = {} THEN d.mark = None
                        ELSE d.mark \in above /\ \A id \in above : d.top[id] <= d.top[d.mark]
=============================================================================

---------------------------- MODULE ConsoleTabs -----------------------------
(***************************************************************************)
(* The console's tabs and its two panes (useConsoleTabs.ts), and the        *)
(* handlers of DatabaseConsole.tsx that open and drop tabs.  A handler acts *)
(* on the render it was made in: one that calls openTab after an await, or  *)
(* dropTab several times, works on a list of tabs that is out of date.      *)
(***************************************************************************)
EXTENDS Naturals, Sequences, SequencesExt

CONSTANTS
  Keys,       \* the keys of tabs that are opened one at a time
  Views,      \* the keys of one topic's views, in the order of TOPIC_VIEWS
  Creations,  \* the requests that create an item and then open its tab
  NoTab

ASSUME TabsAssumption == Views \in Seq(Range(Views)) /\ NoTab \notin Keys \cup Range(Views)

VARIABLES
  tabs,     \* <<key, pane>> in the order of the strip
  active,   \* per pane, the key of the tab on screen
  focused,
  split,    \* splitDir is not null
  later,    \* per creation under way, focusedPane in the render it began in
  strayed   \* history: a tab was opened in a pane that had gone, or a topic deleted

tabVars == <<tabs, active, focused, split, later, strayed>>

Panes == {0, 1}
AllKeys == Keys \cup Range(Views)
NotUnderWay == 2

KeysOf(list) == {t[1] : t \in Range(list)}
InPane(list, p) == {i \in DOMAIN list : list[i][2] = p}
KeysIn(list, p) == {list[i][1] : i \in InPane(list, p)}
PaneOf(list, k) == (CHOOSE t \in Range(list) : t[1] = k)[2]

(* What a filter keeps of the list, in its order.                           *)
Without(list, ks) ==
  LET kept[n \in 0..Len(list)] ==
        IF n = 0 THEN <<>>
        ELSE IF list[n][1] \in ks THEN kept[n - 1] ELSE Append(kept[n - 1], list[n])
  IN  kept[Len(list)]

TabsTypeOK ==
  /\ tabs \in Seq(AllKeys \X Panes)
  /\ \A i, j \in DOMAIN tabs : tabs[i][1] = tabs[j][1] => i = j
  /\ active \in [Panes -> AllKeys \cup {NoTab}]
  /\ focused \in Panes /\ split \in BOOLEAN
  /\ later \in [Creations -> Panes \cup {NotUnderWay}] /\ strayed \in BOOLEAN

TabsInit ==
  /\ tabs = <<>> /\ active = [p \in Panes |-> NoTab]
  /\ focused = 0 /\ split = FALSE
  /\ later = [c \in Creations |-> NotUnderWay] /\ strayed = FALSE
-----------------------------------------------------------------------------
(* settlePanes: what is on screen in each pane, a key that is wanted first. *)
Settled(cur, list, want) ==
  [p \in Panes |->
     LET own == InPane(list, p)
         target == IF p \in DOMAIN want THEN want[p] ELSE cur[p]
     IN  IF target \in KeysIn(list, p) THEN target
         ELSE IF own = {} THEN NoTab ELSE list[Max(own)][1]]

Folds(list) == InPane(list, 1) = {}
Anything == [p \in {} |-> NoTab]
Wanting(p, k) == [q \in {p} |-> k]

(* setTabs and settlePanes; then the pane that is focused, if it changes.   *)
BrokenRearrange(list, want, focus, splits) ==
  /\ tabs' = list
  /\ active' = Settled(active, list, want)
  /\ split' = splits
  /\ focused' = focus

Rearrange(list, want, focus, splits) ==
  /\ tabs' = list
  /\ active' = Settled(active, list, want)
  /\ split' = (splits /\ ~Folds(list))
  /\ focused' = IF Folds(list) THEN 0 ELSE focus

(* openTab, with the pane focused in the handler's render.                  *)
BrokenAfterOpen(k, pane) ==
  /\ tabs' = Append(tabs, <<k, pane>>)
  /\ focused' = pane /\ active' = [active EXCEPT ![pane] = k]
  /\ strayed' = (strayed \/ (pane = 1 /\ ~split))
  /\ UNCHANGED split

AfterOpen(k, pane) ==
  LET at == IF k \in KeysOf(tabs) THEN PaneOf(tabs, k) ELSE pane
  IN  /\ tabs' = IF k \in KeysOf(tabs) THEN tabs ELSE Append(tabs, <<k, at>>)
      /\ focused' = at
      /\ active' = [active EXCEPT ![at] = k]
      /\ strayed' = (strayed \/ (at = 1 /\ ~split))
      /\ UNCHANGED split

OpenTab(k) == AfterOpen(k, focused) /\ UNCHANGED later

(* An item is created by a request, then its tab opened.                    *)
BeginCreate(c) ==
  /\ later[c] = NotUnderWay
  /\ later' = [later EXCEPT ![c] = focused]
  /\ UNCHANGED <<tabs, active, focused, split, strayed>>

FinishCreate(c, k) ==
  /\ later[c] # NotUnderWay /\ k \notin KeysOf(tabs)
  /\ AfterOpen(k, later[c])
  /\ later' = [later EXCEPT ![c] = NotUnderWay]

DropTab(k) ==
  /\ k \in KeysOf(tabs)
  /\ Rearrange(Without(tabs, {k}), Anything, focused, split)
  /\ UNCHANGED <<later, strayed>>

CloseTabsToRight(k) ==
  /\ k \in KeysOf(tabs)
  /\ LET p == PaneOf(tabs, k)
         right == {j \in InPane(tabs, p) : \E i \in 1..(j - 1) : tabs[i][1] = k}
     IN  Rearrange(Without(tabs, {tabs[j][1] : j \in right}), Wanting(p, k), focused, split)
  /\ UNCHANGED <<later, strayed>>

CloseOtherTabs(k) ==
  /\ k \in KeysOf(tabs)
  /\ LET p == PaneOf(tabs, k)
     IN  Rearrange(Without(tabs, KeysIn(tabs, p) \ {k}), Wanting(p, k), focused, split)
  /\ UNCHANGED <<later, strayed>>

CloseAllTabs(p) ==
  /\ Rearrange(Without(tabs, KeysIn(tabs, p)), Anything, focused, split)
  /\ UNCHANGED <<later, strayed>>

(* moveTabToPane; adoptTab also places it before another tab or at the end. *)
Moved(list, k, p) == [i \in DOMAIN list |-> IF list[i][1] = k THEN <<k, p>> ELSE list[i]]

MoveTabToPane(k, p) ==
  /\ k \in KeysOf(tabs)
  /\ Rearrange(Moved(tabs, k, p), Wanting(p, k), p, split \/ p = 1)
  /\ UNCHANGED <<later, strayed>>

AdoptTab(k, p) ==
  /\ k \in KeysOf(tabs) /\ PaneOf(tabs, k) # p /\ split
  /\ LET rest == Without(tabs, {k})
     IN  \E at \in 1..(Len(rest) + 1) :
           Rearrange(InsertAt(rest, at, <<k, p>>), Wanting(p, k), p, split)
  /\ UNCHANGED <<later, strayed>>

(* moveTab, within a pane.                                                  *)
MoveTab(k) ==
  /\ k \in KeysOf(tabs)
  /\ LET rest == Without(tabs, {k})
     IN  \E at \in 1..(Len(rest) + 1) : tabs' = InsertAt(rest, at, <<k, PaneOf(tabs, k)>>)
  /\ UNCHANGED <<active, focused, split, later, strayed>>

(* unsplit, and toggleSplit in the direction of the split.                  *)
Unsplit ==
  /\ split
  /\ LET keep == IF active[focused] # NoTab THEN active[focused]
                 ELSE IF active[0] # NoTab THEN active[0] ELSE active[1]
     IN  Rearrange([i \in DOMAIN tabs |-> <<tabs[i][1], 0>>], Wanting(0, keep), 0, FALSE)
  /\ UNCHANGED <<later, strayed>>

SplitOff == ~split /\ active[0] # NoTab /\ MoveTabToPane(active[0], 1)

(* A click in a pane, on a tab of its strip, the shortcut.                  *)
Focus(p) ==
  /\ p = 1 => split
  /\ focused' = p
  /\ UNCHANGED <<tabs, active, split, later, strayed>>

Select(k) ==
  /\ k \in KeysOf(tabs) /\ (PaneOf(tabs, k) = 1 => split)
  /\ active' = [active EXCEPT ![PaneOf(tabs, k)] = k]
  /\ focused' = PaneOf(tabs, k)
  /\ UNCHANGED <<tabs, split, later, strayed>>

(* onTopicDeleted: dropTab for each view, every time on the list of tabs of *)
(* the handler's render.  The last list is the one that stays.              *)
DropAll(lists) ==
  /\ tabs' = Last(lists)
  /\ LET after[n \in 0..Len(lists)] ==
           IF n = 0 THEN active ELSE Settled(after[n - 1], lists[n], Anything)
     IN  active' = after[Len(lists)]
  /\ split' = (split /\ \A i \in DOMAIN lists : ~Folds(lists[i]))
  /\ focused' = IF \E i \in DOMAIN lists : Folds(lists[i]) THEN 0 ELSE focused

TopicDeleted ==
  /\ KeysOf(tabs) \cap Range(Views) # {}
  /\ DropAll([i \in DOMAIN Views |-> Without(tabs, {Views[i]})])
  /\ strayed' = TRUE
  /\ UNCHANGED later

ResetTabs ==
  /\ tabs' = <<>> /\ active' = [p \in Panes |-> NoTab]
  /\ focused' = 0 /\ split' = FALSE
  /\ UNCHANGED <<later, strayed>>

TabsNext ==
  \/ \E k \in AllKeys :
       \/ OpenTab(k) \/ DropTab(k) \/ CloseTabsToRight(k) \/ CloseOtherTabs(k) \/ Select(k)
       \/ \E c \in Creations : k \in Keys /\ FinishCreate(c, k)
       \/ \E p \in Panes : MoveTabToPane(k, p) \/ AdoptTab(k, p)
       \/ MoveTab(k)
  \/ \E p \in Panes : CloseAllTabs(p) \/ Focus(p)
  \/ \E c \in Creations : BeginCreate(c)
  \/ Unsplit \/ SplitOff \/ TopicDeleted \/ ResetTabs

TabsSpec == TabsInit /\ [][TabsNext]_tabVars
-----------------------------------------------------------------------------
(* "Splitting is only ever 'move this tab to the other pane' and the split  *)
(* folds away as soon as pane 1 runs empty" (useConsoleTabs.ts): a tab of   *)
(* pane 1 is never hidden, a split never empty, and each pane shows one of  *)
(* its own tabs, or none when it has none.                                  *)
PanesShowTheirTabs ==
  ~strayed =>
    /\ split <=> InPane(tabs, 1) # {}
    /\ focused = 1 => split
    /\ \A p \in Panes :
         IF InPane(tabs, p) = {} THEN active[p] = NoTab ELSE active[p] \in KeysIn(tabs, p)

(* "Deleted from its tab or from the sidebar: close the tab" (the comment   *)
(* on onTopicDeleted, DatabaseConsole.tsx): a deleted topic has no tab.     *)
TopicTabsClosed == [][TopicDeleted => KeysOf(tabs') \cap Range(Views) = {}]_tabVars
=============================================================================

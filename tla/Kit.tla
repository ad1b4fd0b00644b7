-------------------------------- MODULE Kit --------------------------------
(***************************************************************************)
(* The component library of the dashboard (analytics/components): the      *)
(* select box, the dropdown menu, the command palette, tabs, accordion,    *)
(* pager and range slider.  Each is a part of its own with its local       *)
(* state; what its parent keeps (a value, a page) is in the same record    *)
(* and changes as the component asks.  Indexes count from 0, -1 is none.   *)
(***************************************************************************)
EXTENDS Lists

CONSTANTS
  Option,      \* the options of a select: a sequence of [group, disabled], group "" for none
  Found,       \* [what is typed in its search -> the options whose label has it]
  Item,        \* the items of a menu: a sequence, TRUE for a disabled one
  Command,     \* the commands: a sequence of their labels, sequences of letters
  Typed,       \* what is typed into the palette: sequences of letters
  Recent,      \* the recent commands: a sequence of places in Command
  Unfiltered,  \* how many commands are shown when nothing is typed
  Tab,         \* the tabs: a sequence, TRUE for a disabled one
  FirstTab,    \* the tabs a strip may start with
  Section,     \* the sections of an accordion
  MaxPages,    \* bound on the pages of a table
  Low, High    \* ends of the slider

VARIABLES
  select,  \* [multiple, open, search, active, value]
  menu,    \* [open, active]
  palette, \* [open, query, cursor, ran]
  tabs,    \* [active, chosen]
  sections,\* [multiple, first, open]
  pager,   \* [page, total]
  range    \* [lo, hi]

kitVars == <<select, menu, palette, tabs, sections, pager, range>>
Smaller(a, b) == IF a < b THEN a ELSE b
Larger(a, b) == IF a > b THEN a ELSE b
Without(s, x) == Kept(s, Range(s) \ {x})
Places(s) == 0 .. Len(s) - 1
LastPlace(n) == Larger(0, n - 1)  \* the first place also when there is none

KitInit ==
  /\ \E m \in BOOLEAN : select = [multiple |-> m, open |-> FALSE, search |-> "", active |-> -1,
                                  value |-> << >>]
  /\ menu = [open |-> FALSE, active |-> -1]
  /\ palette = [open |-> FALSE, query |-> << >>, cursor |-> 0, ran |-> 0]
  /\ \E t \in FirstTab : tabs = [active |-> t, chosen |-> FALSE]
  /\ \E m \in BOOLEAN, first \in SUBSET Section :
       sections = [multiple |-> m, first |-> first, open |-> first]
  /\ \E n \in 1..MaxPages : pager = [page |-> 1, total |-> n]
  /\ range = [lo |-> Low, hi |-> High]

(* Select.  A search outlives the closing of the list, and so does a place in *)
(* the list that was left by a choice or a click outside.                     *)
OnlySelect(s) == select' = s /\ UNCHANGED <<menu, palette, tabs, sections, pager, range>>
Filtered(s) == Kept([i \in 1..Len(Option) |-> i], Found[s.search])
InGroup(seq, g) == Kept(seq, {o \in Range(seq) : Option[o].group = g})
\* The groups in the order of their first options, which head them.
Heads(seq) == Kept(seq, {o \in Range(seq) : /\ Option[o].group # ""
                                            /\ o = InGroup(seq, Option[o].group)[1]})
\* What is drawn: the options without a group, then group by group.
Drawn(seq) == InGroup(seq, "")
  \o Joined([h \in DOMAIN Heads(seq) |-> InGroup(seq, Option[Heads(seq)[h]].group)])
Toggle(s, o) ==
  IF ~s.multiple THEN [s EXCEPT !.value = <<o>>, !.open = FALSE]
  ELSE [s EXCEPT !.value = IF o \in Range(@) THEN Without(@, o) ELSE Append(@, o)]

SelectTrigger == OnlySelect([select EXCEPT !.open = ~@])
SelectTriggerKey == OnlySelect([select EXCEPT !.open = TRUE, !.active = 0])
SelectOutside == OnlySelect([select EXCEPT !.open = FALSE])
SelectSearch == select.open
  /\ \E q \in DOMAIN Found : OnlySelect([select EXCEPT !.search = q])
SelectDown == select.open
  /\ OnlySelect([select EXCEPT !.active = Smaller(@ + 1, Len(Filtered(select)) - 1)])
SelectUp == select.open /\ OnlySelect([select EXCEPT !.active = Larger(@ - 1, 0)])
SelectEnter == select.open /\ select.active \in Places(Filtered(select))
  /\ LET o == Filtered(select)[select.active + 1]
     IN ~Option[o].disabled /\ OnlySelect(Toggle(select, o))
SelectEscape == select.open /\ OnlySelect([select EXCEPT !.open = FALSE, !.active = -1])
SelectOption == select.open
  /\ \E o \in Range(Filtered(select)) : ~Option[o].disabled /\ OnlySelect(Toggle(select, o))
SelectNext == SelectTrigger \/ SelectTriggerKey \/ SelectOutside \/ SelectSearch \/ SelectDown
              \/ SelectUp \/ SelectEnter \/ SelectEscape \/ SelectOption

(* Dropdown.  % is JavaScript's: the arrow up from none goes to the last but  *)
(* one, or to the only one; an item chosen leaves its place highlighted.      *)
OnlyMenu(m) == menu' = m /\ UNCHANGED <<select, palette, tabs, sections, pager, range>>
Rem(a, n) == IF a >= 0 THEN a % n ELSE -((-a) % n)
MenuTrigger == OnlyMenu([menu EXCEPT !.open = ~@])
MenuTriggerKey == OnlyMenu([open |-> TRUE, active |-> 0])
MenuOutside == menu.open /\ OnlyMenu([open |-> FALSE, active |-> -1])
MenuDown == menu.open /\ OnlyMenu([menu EXCEPT !.active = Rem(@ + 1, Len(Item))])
MenuUp == menu.open /\ OnlyMenu([menu EXCEPT !.active = Rem(@ - 1 + Len(Item), Len(Item))])
MenuEscape == MenuOutside
MenuItem == menu.open /\ (\E i \in 1..Len(Item) : ~Item[i]) /\ OnlyMenu([menu EXCEPT !.open = FALSE])
MenuNext == MenuTrigger \/ MenuTriggerKey \/ MenuOutside \/ MenuDown \/ MenuUp \/ MenuEscape
            \/ MenuItem

(* Command palette *)
OnlyPalette(p) == palette' = p /\ UNCHANGED <<select, menu, tabs, sections, pager, range>>
\* The letters of the query, found one after the other.
Fuzzy(q, text) ==
  LET found[k \in 0..Len(text)] ==
        IF k = 0 THEN 0
        ELSE LET n == found[k - 1]
             IN IF n < Len(q) /\ q[n + 1] = text[k] THEN n + 1 ELSE n
  IN Len(q) = found[Len(text)]
Commands(q) ==
  IF q # << >> THEN Kept([i \in 1..Len(Command) |-> i], {c \in 1..Len(Command) : Fuzzy(q, Command[c])})
  ELSE IF Recent # << >> THEN Recent
  ELSE [i \in 1..Smaller(Unfiltered, Len(Command)) |-> i]
Listed == Commands(palette.query)
PaletteKey == OnlyPalette(IF palette.open THEN [palette EXCEPT !.open = FALSE]
                          ELSE [palette EXCEPT !.open = TRUE, !.query = << >>, !.cursor = 0])
PaletteClose == palette.open /\ OnlyPalette([palette EXCEPT !.open = FALSE])
FaultyType == palette.open /\ \E q \in Typed : OnlyPalette([palette EXCEPT !.query = q])
PaletteType == palette.open
  /\ \E q \in Typed : OnlyPalette([palette EXCEPT !.query = q, !.cursor = 0])
\* The button that clears the query leaves the cursor where it was.
PaletteClear == palette.open /\ palette.query # << >>
  /\ OnlyPalette([palette EXCEPT !.query = << >>])
PaletteDown == palette.open
  /\ OnlyPalette([palette EXCEPT !.cursor = Smaller(@ + 1, Len(Listed) - 1)])
PaletteUp == palette.open /\ OnlyPalette([palette EXCEPT !.cursor = Larger(@ - 1, 0)])
PaletteHover == palette.open
  /\ \E i \in Places(Listed) : OnlyPalette([palette EXCEPT !.cursor = i])
PaletteEnter == palette.open /\ palette.cursor \in Places(Listed)
  /\ OnlyPalette([palette EXCEPT !.ran = Listed[palette.cursor + 1], !.open = FALSE])
PaletteClick == palette.open
  /\ \E c \in Range(Listed) : OnlyPalette([palette EXCEPT !.ran = c, !.open = FALSE])
PaletteNext == PaletteKey \/ PaletteClose \/ PaletteType \/ PaletteClear \/ PaletteDown
               \/ PaletteUp \/ PaletteHover \/ PaletteEnter \/ PaletteClick

(* Tabs: the arrows go by the active tab, which may be a disabled one given   *)
(* as the default, and then count from none.                                  *)
OnlyTabs(t) == tabs' = [active |-> t, chosen |-> TRUE]
               /\ UNCHANGED <<select, menu, palette, sections, pager, range>>
Enabled == Kept([i \in 1..Len(Tab) |-> i], {i \in 1..Len(Tab) : ~Tab[i]})
EnabledPlace == IF tabs.active \in Range(Enabled)
                THEN CHOOSE i \in Places(Enabled) : Enabled[i + 1] = tabs.active ELSE -1
TabRight == OnlyTabs(Enabled[Rem(EnabledPlace + 1, Len(Enabled)) + 1])
TabLeft == OnlyTabs(Enabled[Rem(EnabledPlace - 1 + Len(Enabled), Len(Enabled)) + 1])
TabHome == OnlyTabs(Enabled[1])
TabEnd == OnlyTabs(Enabled[Len(Enabled)])
TabClick == \E i \in 1..Len(Tab) : ~Tab[i] /\ OnlyTabs(i)
TabsNext == Enabled # << >> /\ (TabRight \/ TabLeft \/ TabHome \/ TabEnd \/ TabClick)

(* Accordion *)
SectionToggle == \E id \in Section :
  /\ sections' = [sections EXCEPT !.open =
       IF id \in @ THEN @ \ {id} ELSE (IF sections.multiple THEN @ ELSE {}) \cup {id}]
  /\ UNCHANGED <<select, menu, palette, tabs, pager, range>>

(* Pager; its table may come to have other pages, and keeps the page then. *)
OnlyPager(p) == pager' = p /\ UNCHANGED <<select, menu, palette, tabs, sections, range>>
Gap == 0
PageNumbers(current, total) ==
  IF total <= 7 THEN [i \in 1..total |-> i]
  ELSE IF current <= 4 THEN <<1, 2, 3, 4, 5, Gap, total>>
  ELSE IF current >= total - 3 THEN <<1, Gap, total - 4, total - 3, total - 2, total - 1, total>>
  ELSE <<1, Gap, current - 1, current, current + 1, Gap, total>>
Clamp(v, low, high) == Smaller(Larger(v, low), high)
PagePrevious == pager.page # 1
  /\ OnlyPager([pager EXCEPT !.page = Clamp(@ - 1, 1, pager.total)])
PageFollowing == pager.page # pager.total
  /\ OnlyPager([pager EXCEPT !.page = Clamp(@ + 1, 1, pager.total)])
PageNumber == \E p \in Range(PageNumbers(pager.page, pager.total)) \ {Gap} :
  OnlyPager([pager EXCEPT !.page = p])
PageSize == \E n \in 1..MaxPages : OnlyPager([pager EXCEPT !.total = n])
PagerNext == PagePrevious \/ PageFollowing \/ PageNumber \/ PageSize

(* Range slider: two inputs over one another, each bounded by the other. *)
OnlyRange(r) == range' = r /\ UNCHANGED <<select, menu, palette, tabs, sections, pager>>
RangeLow == \E v \in Low..High : OnlyRange([range EXCEPT !.lo = Smaller(v, range.hi)])
RangeHigh == \E v \in Low..High : OnlyRange([range EXCEPT !.hi = Larger(v, range.lo)])
\* The marks of a slider, from low by a fifth, rounded up to whole steps, to high.
Marks(low, high, step) ==
  LET by == step * ((high - low + 5 * step - 1) \div (5 * step))
      marks == [i \in 1 .. ((high - low) \div by) + 1 |-> low + (i - 1) * by]
  IN IF high \in Range(marks) THEN marks ELSE Append(marks, high)
RangeNext == RangeLow \/ RangeHigh

KitNext == SelectNext \/ MenuNext \/ PaletteNext \/ TabsNext \/ SectionToggle \/ PagerNext
           \/ RangeNext
Spec == KitInit /\ [][KitNext]_kitVars
-----------------------------------------------------------------------------
\* The state of each component has its types.
KitTypeOK ==
  /\ select \in [multiple : BOOLEAN, open : BOOLEAN, search : DOMAIN Found,
                 active : -1 .. LastPlace(Len(Option)), value : Seq(1..Len(Option))]
  /\ menu \in [open : BOOLEAN, active : -1 .. Len(Item) - 1]
  /\ palette \in [open : BOOLEAN, query : Typed \cup {<< >>}, ran : 0..Len(Command),
                  cursor : -1 .. LastPlace(Larger(Len(Command), Len(Recent)))]
  /\ tabs \in [active : 1..Len(Tab), chosen : BOOLEAN]
  /\ sections \in [multiple : BOOLEAN, first : SUBSET Section, open : SUBSET Section]
  /\ pager \in [page : 1..MaxPages, total : 1..MaxPages]
  /\ range \in [lo : Low..High, hi : Low..High]

\* What is chosen in a select are enabled options of it, each once, whether by key
\* or by click, and one at most unless it takes several; a tab chosen is enabled.
ChoicesAreAllowed ==
  /\ \A i \in DOMAIN select.value : ~Option[select.value[i]].disabled
  /\ IsInjective(select.value) /\ (~select.multiple => Len(select.value) <= 1)
  /\ tabs.chosen => ~Tab[tabs.active]
  /\ Cardinality(sections.open) <= (IF sections.multiple THEN Cardinality(Section)
                                    ELSE Larger(1, Cardinality(sections.first)))

\* Every option that the search finds is drawn, once, however they are grouped.
OptionsAreDrawn ==
  LET f == Filtered(select) IN Len(Drawn(f)) = Len(f) /\ Range(Drawn(f)) = Range(f)

\* While something is typed into the palette the cursor is on a command it lists,
\* and those are the commands that have its letters in its order.
CursorIsOnACommand ==
  palette.query # << >> =>
    /\ Listed # << >> => palette.cursor \in Places(Listed)
    /\ \A c \in 1..Len(Command) :
         c \in Range(Listed) <=>
           \E at \in [1..Len(palette.query) -> 1..Len(Command[c])] :
             /\ \A i \in 1..Len(palette.query) : Command[c][at[i]] = palette.query[i]
             /\ \A i \in 1..Len(palette.query) - 1 : at[i] < at[i + 1]

\* The pager shows the first page, the last and the one shown with its neighbours,
\* in order, and a gap stands for two pages or more.
PagesAreListed ==
  LET p == pager.page  n == pager.total  s == PageNumbers(p, n)
  IN p <= n =>
       /\ ({1, n} \cup ((p - 1 .. p + 1) \cap (1..n))) \subseteq Range(s)
       /\ \A i \in 1..Len(s) - 1 : s[i] # Gap =>
            IF s[i + 1] = Gap THEN s[i + 2] > s[i] + 2 ELSE s[i + 1] = s[i] + 1

\* The ends of a range do not cross, and its marks go from end to end, six at most.
RangeIsOrdered ==
  /\ range.lo <= range.hi
  /\ range.lo < range.hi => \A step \in 1 .. range.hi - range.lo :
       LET m == Marks(range.lo, range.hi, step) IN
         /\ Len(m) <= 6 /\ m[1] = range.lo /\ m[Len(m)] = range.hi
         /\ \A i \in 1..Len(m) - 1 : m[i] < m[i + 1]

\* A page chosen by a button of the pager is one of the table's.
PagesAreTheTables ==
  [][pager.page' # pager.page => pager.page' \in 1..pager.total]_pager
=============================================================================

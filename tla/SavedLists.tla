----------------------------- MODULE SavedLists -----------------------------
(***************************************************************************)
(* Two lists of the dashboard that tabs share through localStorage: saved  *)
(* views (analytics/lib/bookmarks.ts with components/ui/BookmarkButton)    *)
(* and notes on a chart (lib/annotations.ts with AnnotatedChart,           *)
(* AnnotationModal and AnnotationMarker).  Each tab shows what it read     *)
(* last; a handler reads the storage anew, changes it and writes it back   *)
(* in one turn of the browser's event loop.  One chart has notes           *)
(* (app/page.tsx:140), so the chart's id is left out.                      *)
(***************************************************************************)
EXTENDS Lists, FiniteSetsExt

CONSTANTS
  Tab,
  Url,          \* pages of the dashboard; a new bookmark is named after its page
  Name,         \* what a user types into the rename field
  MaxBookmarks, \* MAX_BOOKMARKS
  MaxIds,       \* bound on the bookmarks ever made
  Label,        \* labels of the x-axis, a sequence
  Near,         \* [date -> the labels that contain it or that it contains]
  NoteText,     \* notes a user may write
  MaxNotes,     \* bound on the notes ever made
  None

VARIABLES
  saved, \* the stored bookmarks
  ids,   \* bookmarks made so far
  tab,   \* what each tab shows of them
  notes, \* the stored notes
  made,  \* notes ever made
  view   \* [tab -> what it shows of the notes]: the list, and the modal

(* Bookmarks *)
bookmarkVars == <<saved, ids, tab>>

Blank == "" \* a name of nothing but spaces
IdsOf(list) == {list[i].id : i \in DOMAIN list}
Named(list, id, name) == [i \in DOMAIN list |->
  IF list[i].id = id THEN [list[i] EXCEPT !.name = name] ELSE list[i]]

\* A page that has just been loaded: the effect has read the list.
Loaded(path) == [path |-> path, list |-> saved, open |-> FALSE, renaming |-> None, value |-> Blank]

BookmarksInit ==
  /\ saved = << >> /\ ids = 0
  /\ tab \in [Tab -> {Loaded(path) : path \in Url}]

\* The rename field is on the screen and has the focus.
Editing(t) == tab[t].open /\ tab[t].renaming \in IdsOf(tab[t].list)

\* A write, after which the tab shows what is stored.
FaultyWrite(t, list, shown) ==
  /\ saved' = Kept(list, {b \in Range(list) : b.id \in IdsOf(tab[t].list) \/ b.id > ids})
  /\ tab' = [tab EXCEPT ![t] = [shown EXCEPT !.list = saved']]
Write(t, list, shown) ==
  /\ saved' = list
  /\ tab' = [tab EXCEPT ![t] = [shown EXCEPT !.list = saved']]

Show(t, shown) == tab' = [tab EXCEPT ![t] = shown] /\ UNCHANGED <<saved, ids>>

\* A link of the list loads anew, one of the navigation only changes the path.
Load(t, path) == Show(t, Loaded(path))
Navigate(t, path) == ~tab[t].open /\ Show(t, [tab[t] EXCEPT !.path = path])

OpenList(t) == tab[t].list # << >> /\ ~Editing(t) /\ Show(t, [tab[t] EXCEPT !.open = ~@])

\* mousedown outside: the field goes without a blur, and renaming stays set.
ClickOutside(t) == tab[t].open /\ Show(t, [tab[t] EXCEPT !.open = FALSE])

\* toggleBookmark: the star as it was drawn decides, the storage is what changes.
Drawn(t) == Kept(tab[t].list, {b \in Range(tab[t].list) : b.url = tab[t].path})
Delete(t, id) ==
  Write(t, Kept(saved, {b \in Range(saved) : b.id # id}), tab[t]) /\ UNCHANGED ids
FaultyHasRoom == TRUE
HasRoom == Len(saved) < MaxBookmarks
Save(t) ==
  /\ ids < MaxIds
  /\ IF HasRoom
     THEN /\ ids' = ids + 1
          /\ Write(t, Append(saved, [id |-> ids + 1, url |-> tab[t].path, name |-> tab[t].path]), tab[t])
     ELSE Write(t, saved, tab[t]) /\ UNCHANGED ids
Toggle(t) ==
  /\ ~Editing(t)
  /\ IF Drawn(t) = << >> THEN Save(t) ELSE Delete(t, Head(Drawn(t)).id)

\* A click elsewhere in the list blurs the field first, which renames.
DeleteOne(t) == \E id \in IdsOf(tab[t].list) : tab[t].open /\ ~Editing(t) /\ Delete(t, id)
StartRename(t) ==
  /\ tab[t].open /\ ~Editing(t)
  /\ \E i \in DOMAIN tab[t].list :
       Show(t, [tab[t] EXCEPT !.renaming = tab[t].list[i].id,
                            !.value = tab[t].list[i].name])
Type(t, name) == Editing(t) /\ Show(t, [tab[t] EXCEPT !.value = name])
CancelRename(t) == Editing(t) /\ Show(t, [tab[t] EXCEPT !.renaming = None, !.value = Blank])

\* handleRename: on Enter and on blur.
Rename(t) ==
  LET shown == [tab[t] EXCEPT !.renaming = None, !.value = Blank] IN
  /\ Editing(t)
  /\ IF tab[t].value # Blank
     THEN Write(t, Named(saved, tab[t].renaming, tab[t].value), shown) /\ UNCHANGED ids
     ELSE Show(t, shown)

BookmarksNext == \E t \in Tab :
  \/ OpenList(t) \/ ClickOutside(t) \/ Toggle(t) \/ DeleteOne(t)
  \/ StartRename(t) \/ CancelRename(t) \/ Rename(t)
  \/ \E path \in Url : Load(t, path) \/ Navigate(t, path)
  \/ \E name \in Name \cup {Blank} : Type(t, name)

(* Notes *)
noteVars == <<notes, made, view>>
NoModal == [on |-> FALSE, editing |-> None, text |-> Blank, date |-> Blank]
Dates == Range(Label) \cup {Blank}
NoteIds(list) == {list[i].id : i \in DOMAIN list}
LoadedNotes == [list |-> notes, modal |-> NoModal]

\* getXFraction: a marker stands at the first label near its date, or midway (0).
PlaceOf(date) ==
  LET near == {i \in DOMAIN Label : Label[i] \in Near[date]}
  IN IF near = {} THEN 0 ELSE Min(near)

NotesInit ==
  /\ notes = << >> /\ made = 0
  /\ view = [t \in Tab |-> LoadedNotes]

ShowNotes(t, v) == view' = [view EXCEPT ![t] = v] /\ UNCHANGED <<notes, made>>
Store(t, list, modal) ==
  /\ notes' = list
  /\ view' = [view EXCEPT ![t] = [list |-> notes', modal |-> modal]]

LoadNotes(t) == ShowNotes(t, LoadedNotes)

\* getDefaultDate: a click on the chart proposes the label it is nearest to.
ClickChart(t) == \E i \in DOMAIN Label :
  /\ ~view[t].modal.on
  /\ ShowNotes(t, [view[t] EXCEPT !.modal = [NoModal EXCEPT !.on = TRUE, !.date = Label[i]]])
EditNote(t) == \E i \in DOMAIN view[t].list :
  LET n == view[t].list[i] IN
  /\ ~view[t].modal.on
  /\ ShowNotes(t, [view[t] EXCEPT !.modal = [on |-> TRUE, editing |-> n.id, text |-> n.text, date |-> n.date]])
CloseModal(t) == view[t].modal.on /\ ShowNotes(t, [view[t] EXCEPT !.modal = NoModal])
TypeText(t, text) == view[t].modal.on /\ ShowNotes(t, [view[t] EXCEPT !.modal.text = text])
PickDate(t, date) == view[t].modal.on /\ ShowNotes(t, [view[t] EXCEPT !.modal.date = date])

\* updateAnnotation: nothing happens to a note that is gone.
Patched(list, m) == [i \in DOMAIN list |->
  IF list[i].id = m.editing THEN [list[i] EXCEPT !.text = m.text, !.date = m.date] ELSE list[i]]

\* handleSave, behind the modal's guard.
SaveNote(t) ==
  LET m == view[t].modal IN
  /\ m.on /\ m.text # Blank /\ m.date # Blank
  /\ IF m.editing # None
     THEN Store(t, Patched(notes, m), NoModal) /\ UNCHANGED made
     ELSE /\ made < MaxNotes /\ made' = made + 1
          /\ Store(t, Append(notes, [id |-> made + 1, text |-> m.text, date |-> m.date]), NoModal)

FaultyWithout(t, id) == Kept(view[t].list, {n \in Range(view[t].list) : n.id # id})
Without(t, id) == Kept(notes, {n \in Range(notes) : n.id # id})
DeleteNote(t) == \E id \in NoteIds(view[t].list) :
  ~view[t].modal.on /\ Store(t, Without(t, id), NoModal) /\ UNCHANGED made

NotesNext == \E t \in Tab :
  \/ LoadNotes(t) \/ ClickChart(t) \/ EditNote(t) \/ CloseModal(t) \/ SaveNote(t) \/ DeleteNote(t)
  \/ \E text \in NoteText \cup {Blank} : TypeText(t, text)
  \/ \E date \in Dates : PickDate(t, date)
-----------------------------------------------------------------------------
BookmarksTypeOK ==
  /\ ids \in 0..MaxIds
  /\ \A t \in Tab : /\ tab[t].path \in Url /\ tab[t].open \in BOOLEAN
                    /\ tab[t].renaming \in 1..ids \cup {None}

\* However stale the lists of the tabs are, there are never more bookmarks than
\* the limit, and each is stored once and under a name.
SavedWithinLimit ==
  /\ Len(saved) <= MaxBookmarks
  /\ \A i, j \in DOMAIN saved : saved[i].id = saved[j].id => i = j
  /\ \A i \in DOMAIN saved : saved[i].name # Blank

\* A bookmark goes only from a tab that showed it, a deleted one never comes
\* back by what another tab still shows, and a name changes only for the
\* bookmark that a tab was renaming.
NoBookmarkIsLost ==
  [][/\ \A id \in IdsOf(saved) \ IdsOf(saved') :
          \E t \in Tab : id \in IdsOf(tab[t].list) /\ tab'[t].list = saved'
     /\ \A id \in IdsOf(saved') \ IdsOf(saved) : id = ids'  /\ ids' > ids
     /\ \A i \in DOMAIN saved, j \in DOMAIN saved' :
          saved[i].id = saved'[j].id /\ saved[i] # saved'[j]
            => \E t \in Tab : saved[i].id = tab[t].renaming /\ saved'[j].name = tab[t].value]_bookmarkVars

NotesTypeOK ==
  /\ made \in 0..MaxNotes /\ NoteIds(notes) \subseteq 1..made
  /\ \A t \in Tab : view[t].modal.editing \in 1..made \cup {None}
  /\ \A i \in DOMAIN notes : PlaceOf(notes[i].date) \in 0..Len(Label)

\* A stored note always has a text and a date, and is stored once.
NotesAreComplete ==
  /\ \A i, j \in DOMAIN notes : notes[i].id = notes[j].id => i = j
  /\ \A i \in DOMAIN notes : notes[i].text # Blank /\ notes[i].date # Blank

\* However stale a tab's list is, a step takes at most one note away, and one
\* that some tab showed; a note that was deleted never comes back, not even by
\* saving the modal that was editing it; and a note changes only into what the
\* modal that edits it says.
NoNoteIsLost ==
  [][/\ Cardinality(NoteIds(notes) \ NoteIds(notes')) <= 1
     /\ NoteIds(notes) \ NoteIds(notes') \subseteq UNION {NoteIds(view[t].list) : t \in Tab}
     /\ NoteIds(notes') \ NoteIds(notes) \subseteq made+1..made'
     /\ \A i \in DOMAIN notes, j \in DOMAIN notes' :
          notes[i].id = notes'[j].id /\ notes[i] # notes'[j] =>
            \E t \in Tab : view[t].modal = [on |-> TRUE, editing |-> notes[i].id,
                                            text |-> notes'[j].text, date |-> notes'[j].date]]_noteVars
=============================================================================

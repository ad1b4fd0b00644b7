------------------------------ MODULE Exports ------------------------------
(***************************************************************************)
(* What the dashboard exports: CSV files written in chunks                 *)
(* (analytics/lib/export.ts, components/ui/ExportButton.tsx), the workbook *)
(* (lib/excel.ts, ExcelExportButton.tsx), the JSON snapshot                *)
(* (lib/json-export.ts, JsonExportControls.tsx) and pictures of charts     *)
(* (lib/chart-export.ts, ChartExportCard.tsx). Libraries are loaded when   *)
(* they are needed, which may fail; the page goes on meanwhile.            *)
(***************************************************************************)
EXTENDS Lists, FiniteSetsExt, TLC

CONSTANTS
  Table,             \* the tables a page may show: sequences of rows
  Many, More,        \* a longer table is written in chunks of SmallChunk, LargeChunk
  SmallChunk, LargeChunk,
  Gists,             \* samples: sequences of [category, engagement]
  MaxTimers,         \* bound on the timers of one message
  MaxRuns,           \* bound on the pictures being taken
  None

VARIABLES
  csv,     \* [table, run, progress, file, error]; run is the export going on
  book,    \* [loading, status, error, timers, top]: top is of the last workbook
  json,    \* [pretty, status, timers, top]
  picture  \* [background, runs, status, taken]

exportVars == <<csv, book, json, picture>>
Least(a, b) == IF a < b THEN a ELSE b
Percent(a, n) == (200 * a + n) \div (2 * n)

ExportsInit ==
  /\ \E t \in Table : csv = [table |-> t, run |-> None, progress |-> None, file |-> None, error |-> FALSE]
  /\ book = [loading |-> FALSE, status |-> FALSE, error |-> FALSE, timers |-> 0, top |-> None]
  /\ json = [pretty |-> TRUE, status |-> None, timers |-> 0, top |-> None]
  /\ picture = [background |-> "white", runs |-> << >>, status |-> None, taken |-> None]

(* CSV *)
OnlyCsv(c) == csv' = c /\ UNCHANGED <<book, json, picture>>
ChangeTable == \E t \in Table : OnlyCsv([csv EXCEPT !.table = t])
ChunkSize(n) == IF n > More THEN LargeChunk ELSE IF n > Many THEN SmallChunk ELSE n
\* One pass of the loop, up to the next yield.
Chunk(run) ==
  LET to == Least(Len(run.rows), run.at + ChunkSize(Len(run.rows))) IN
  [run EXCEPT !.at = to, !.output = @ \o SubSeq(run.rows, run.at + 1, to)]
Progress(run) == IF run.rows = << >> THEN 100 ELSE Percent(run.at, Len(run.rows))
Advance(run) == OnlyCsv([csv EXCEPT !.run = run, !.progress = Progress(run), !.error = FALSE])
Begun(rows) == Chunk([rows |-> rows, at |-> 0, output |-> << >>])
ClickExport == csv.progress = None /\ Advance(Begun(csv.table))
NextChunk == csv.run # None /\ csv.run.at < Len(csv.run.rows) /\ Advance(Chunk(csv.run))
\* papaparse is loaded last, and the file is written, or not.
Written == csv.run # None /\ csv.run.at = Len(csv.run.rows)
WriteFile == Written /\ OnlyCsv([csv EXCEPT !.file = csv.run, !.run = None, !.progress = 100])
LoadFails == Written /\ OnlyCsv([csv EXCEPT !.run = None, !.progress = None, !.error = TRUE])
ButtonBack ==
  csv.run = None /\ csv.progress # None /\ OnlyCsv([csv EXCEPT !.progress = None])

(* The workbook *)
OnlyBook(b) == book' = b /\ UNCHANGED <<csv, json, picture>>
ClickBook == ~book.loading
  /\ OnlyBook([book EXCEPT !.loading = TRUE, !.status = FALSE, !.error = FALSE])
\* createEngagementRows sorts a new sample, and the overview names its first row.
TopEngagement(sample) ==
  IF sample = << >> THEN 0
  ELSE SortSeq(sample, LAMBDA a, b : a.engagement > b.engagement)[1].engagement
BookDone(sample) == book.loading /\ book.timers < MaxTimers /\ OnlyBook(
  [book EXCEPT !.loading = FALSE, !.status = TRUE, !.timers = @ + 1,
               !.top = <<sample, TopEngagement(sample)>>])
BookFails == book.loading /\ OnlyBook([book EXCEPT !.loading = FALSE, !.error = TRUE])
BookMessageEnds ==
  book.timers > 0 /\ OnlyBook([book EXCEPT !.timers = @ - 1, !.status = FALSE])

(* The JSON snapshot *)
OnlyJson(j) == json' = j /\ UNCHANGED <<csv, book, picture>>
PickPretty == OnlyJson([json EXCEPT !.pretty = ~@])
Categories(sample) == {sample[i].category : i \in DOMAIN sample}
Count(sample, c) == Cardinality({i \in DOMAIN sample : sample[i].category = c})
\* Of the categories found most often, the one met first.
TopCategory(sample) ==
  LET most == Max({Count(sample, c) : c \in Categories(sample)}) IN
  sample[Min({i \in DOMAIN sample : Count(sample, sample[i].category) = most})].category
ClickJson(sample) == json.timers < MaxTimers /\ OnlyJson(
  [json EXCEPT !.status = json.pretty, !.timers = @ + 1, !.top = <<sample, TopCategory(sample)>>])
JsonMessageEnds ==
  json.timers > 0 /\ OnlyJson([json EXCEPT !.timers = @ - 1, !.status = None])

(* Pictures: the colour asked for is that of the click, the chart's own that of
   the moment it is drawn *)
OnlyPicture(p) == picture' = p /\ UNCHANGED <<csv, book, json>>
PickBackground == \E b \in {"white", "transparent"} \ {picture.background} : OnlyPicture(
  [picture EXCEPT !.background = b,
                  !.runs = [i \in DOMAIN @ |-> [@[i] EXCEPT !.switched = TRUE]]])
ClickPicture(copy) == Len(picture.runs) < MaxRuns /\ OnlyPicture(
  [picture EXCEPT !.runs = Append(@, [asked |-> picture.background, copy |-> copy, switched |-> FALSE])])
PictureTaken == \E i \in DOMAIN picture.runs : OnlyPicture(
  [picture EXCEPT !.runs = Spliced(@, i), !.status = "done",
                  !.taken = <<picture.runs[i], picture.background>>])
PictureFails == \E i \in DOMAIN picture.runs : OnlyPicture(
  [picture EXCEPT !.runs = Spliced(@, i), !.status = "failed"])

CsvNext == ChangeTable \/ ClickExport \/ NextChunk \/ WriteFile \/ LoadFails \/ ButtonBack
BookNext == ClickBook \/ BookFails \/ BookMessageEnds \/ \E s \in Gists : BookDone(s)
JsonNext == PickPretty \/ JsonMessageEnds \/ \E s \in Gists : s # << >> /\ ClickJson(s)
PictureNext ==
  PickBackground \/ PictureTaken \/ PictureFails \/ \E copy \in BOOLEAN : ClickPicture(copy)
-----------------------------------------------------------------------------
ExportsTypeOK ==
  /\ csv.table \in Table /\ csv.progress \in 0..100 \cup {None}
  /\ book.timers \in 0..MaxTimers /\ json.timers \in 0..MaxTimers

\* The file holds each row of one table, in its order and once, whatever the
\* chunks, and the button says 100 % once all are written.
FilesAreComplete ==
  /\ csv.file # None => csv.file.output = csv.file.rows
  /\ csv.run # None =>
       /\ Begins(csv.run.output, csv.run.rows)
       /\ Len(csv.run.output) = Len(csv.run.rows) => csv.progress = 100

\* The workbook's highest engagement is the highest of its sheet, the snapshot's top
\* category one that no other outnumbers.
SummariesAreOfTheSample ==
  /\ book.top # None => \A i \in DOMAIN book.top[1] : book.top[1][i].engagement <= book.top[2]
  /\ json.top # None => \A c \in Categories(json.top[1]) :
                          Count(json.top[1], c) <= Count(json.top[1], json.top[2])

\* A message that an export was made has a timer to end it; a picture has one
\* background, unless it was switched while the picture was being taken.
MessagesHaveTimers ==
  /\ book.status => book.timers > 0
  /\ json.status # None => json.timers > 0
  /\ picture.taken # None =>
       picture.taken[1].asked = picture.taken[2] \/ picture.taken[1].switched

\* While an export goes on its rows stay those of the click, however the page
\* changes, and what is written stays written.
RowsAreThoseOfTheClick == [][csv.run # None /\ csv'.run # None =>
  csv'.run.rows = csv.run.rows /\ Begins(csv.run.output, csv'.run.output)]_exportVars

\* A button cannot be used again yet, or its message shows.
Exporting == csv.progress # None \/ book.loading \/ json.status # None
=============================================================================

---------------------------- MODULE LiveWidgets ----------------------------
(***************************************************************************)
(* Widgets that timers drive: the collaboration page                       *)
(* (analytics/app/collaboration/page.tsx), the session player              *)
(* (components/SessionPlayer.tsx on app/sessions/page.tsx) and the live    *)
(* counter of the home page (components/LiveGistCounter.tsx with           *)
(* hooks/useCountAnimation.ts, app/page.tsx).                              *)
(***************************************************************************)
EXTENDS Lists

CONSTANTS
  CursorEvery, FeedEvery, \* periods of the two intervals, in ticks of 400 ms
  Edge,                   \* a cursor moves in 1..Edge, a step at a time
  FeedKeep,               \* activity items kept
  MaxNotes,               \* bound on the annotations made
  Session, Length,        \* recorded sessions, and [session -> seconds]
  MaxRuns,                \* bound on the intervals started by Play
  Batch, MaxGists,        \* sizes of a batch, and a bound on the gists counted
  Keep                    \* gists listed

VARIABLES
  team,   \* [cursor, cursorIn, feedIn, feed, notes, text]: the collaboration page
  player, \* [session, at, playing, runs]: runs are the intervals, by session
  home    \* [stage, count, shown, frames, list, news, flash, pulse]

widgetVars == <<team, player, home>>
Low(a, b) == IF a < b THEN a ELSE b

WidgetsInit ==
  /\ team = [cursor |-> 1, cursorIn |-> CursorEvery, feedIn |-> FeedEvery, feed |-> 8,
             notes |-> 0, text |-> FALSE]
  /\ \E s \in Session : player = [session |-> s, at |-> 0, playing |-> FALSE, runs |-> << >>]
  /\ \E n \in Batch : home = [stage |-> 0, count |-> n, shown |-> n, frames |-> 2,
              list |-> <<0, -1>>, news |-> 0, flash |-> FALSE, pulse |-> FALSE]

(* Collaboration *)
OnlyTeam(t) == team' = t /\ UNCHANGED <<player, home>>
FaultyClamped(x) == IF x < 1 THEN 1 ELSE x
Clamped(x) == IF x < 1 THEN 1 ELSE Low(x, Edge)
\* A tick of the clock. The cursors move when their interval ends, and as the
\* feed's effect depends on the users, that starts the feed's interval anew.
TeamTick ==
  IF team.cursorIn = 1
  THEN \E d \in {-1, 0, 1} :
         OnlyTeam([team EXCEPT !.cursor = Clamped(@ + d), !.cursorIn = CursorEvery, !.feedIn = FeedEvery])
  ELSE IF team.feedIn = 1
  THEN OnlyTeam([team EXCEPT !.cursorIn = @ - 1, !.feedIn = FeedEvery, !.feed = Low(@ + 1, FeedKeep)])
  ELSE OnlyTeam([team EXCEPT !.cursorIn = @ - 1, !.feedIn = @ - 1])
TypeNote(text) == OnlyTeam([team EXCEPT !.text = text])
AddNote ==
  team.text /\ team.notes < MaxNotes /\ OnlyTeam([team EXCEPT !.notes = @ + 1, !.text = FALSE])

(* The session player *)
OnlyPlayer(p) == player' = p /\ UNCHANGED <<team, home>>
\* The player is not mounted anew for another session: it goes on where it was.
SelectSession(s) == OnlyPlayer([player EXCEPT !.session = s])
\* Play starts an interval; Pause and Reset leave it running.
TogglePlay ==
  IF player.playing THEN OnlyPlayer([player EXCEPT !.playing = FALSE])
  ELSE /\ Len(player.runs) < MaxRuns
       /\ OnlyPlayer([player EXCEPT !.playing = TRUE, !.runs = Append(@, player.session)])
Reset == OnlyPlayer([player EXCEPT !.at = 0, !.playing = FALSE])
Scrub == \E at \in 0..Length[player.session] : OnlyPlayer([player EXCEPT !.at = at])
\* An interval compares with the length of the session it was started for.
Ended(i) == player.at >= Length[player.runs[i]]
Second == \E i \in DOMAIN player.runs :
  OnlyPlayer(IF Ended(i)
    THEN [player EXCEPT !.playing = FALSE, !.runs = Spliced(@, i)]
    ELSE [player EXCEPT !.at = @ + 1])

(* The home page *)
OnlyHome(h) == home' = h /\ UNCHANGED <<team, player>>
Load == home.stage < 2 /\ OnlyHome([home EXCEPT !.stage = @ + 1])
\* What a frame of useCountAnimation shows lies between what was shown, or 0 at
\* first, and the count; the last frame shows the count.
Frame ==
  /\ home.frames > 0
  /\ \E n \in (IF home.frames = 1 THEN {home.count}
               ELSE (IF home.list = <<0, -1>> THEN 0 ELSE home.shown)..home.count) :
       OnlyHome([home EXCEPT !.shown = n, !.frames = @ - 1])
\* The next batch comes 12 seconds after the last one at the earliest, when the
\* three timers and the animation of the last have long ended.
Quiet == home.frames = 0 /\ ~home.flash /\ ~home.pulse /\ home.news = 0
FaultyListed(new, n) == new \o home.list
Listed(new, n) == SubSeq(new \o home.list, 1, Low(Keep, n + Len(home.list)))
Gists(n) ==
  LET new == [i \in 1..n |-> home.count + n + 1 - i] IN
  /\ Quiet /\ home.count + n <= MaxGists
  /\ OnlyHome([home EXCEPT !.count = @ + n, !.frames = 2, !.list = Listed(new, n),
                           !.news = Low(n, Keep), !.flash = TRUE, !.pulse = TRUE])
FlashEnds == home.flash /\ OnlyHome([home EXCEPT !.flash = FALSE])
NewsEnds == home.news > 0 /\ ~home.flash /\ OnlyHome([home EXCEPT !.news = 0])
PulseEnds == home.pulse /\ home.news = 0 /\ OnlyHome([home EXCEPT !.pulse = FALSE])

TeamNext == TeamTick \/ AddNote \/ \E text \in BOOLEAN : TypeNote(text)
PlayerNext ==
  TogglePlay \/ Reset \/ Scrub \/ Second \/ \E s \in Session : SelectSession(s)
HomeNext ==
  Load \/ Frame \/ FlashEnds \/ NewsEnds \/ PulseEnds \/ \E n \in Batch : Gists(n)
-----------------------------------------------------------------------------
WidgetsTypeOK ==
  /\ team.cursor \in 1..Edge /\ team.cursorIn \in 1..CursorEvery /\ team.feedIn \in 1..FeedEvery
  /\ player.playing \in BOOLEAN /\ Len(player.runs) <= MaxRuns
  /\ home.stage \in 0..2 /\ home.frames \in 0..2 /\ home.shown \in 0..MaxGists

\* The lists of the two feeds stay as short as the pages have room for.
FeedsAreBounded == team.feed <= FeedKeep /\ Len(home.list) <= Keep

\* A player that says it plays has an interval that moves it, and its place is
\* never beyond the longest session (that of the session it shows it may pass).
PlayerMoves ==
  /\ player.playing => player.runs # << >>
  /\ \E s \in Session : player.at <= Length[s]

\* When the animation has ended the card shows the count, and the list has the
\* latest gists, the newest first.
CounterShowsTheCount ==
  /\ home.frames = 0 => home.shown = home.count
  /\ \A i \in 1..Len(home.list) - 1 : home.list[i] = home.list[i + 1] + 1 \/ home.list[i + 1] <= 0

\* The counter's figure is not yet the count, an effect of a batch still shows, or
\* charts of the page are to be loaded.
Settling == ~Quiet \/ home.stage # 2
=============================================================================

---------------------------- MODULE SegmentsPage ----------------------------
(***************************************************************************)
(* The segment builder: analytics/app/segments/page.tsx. A segment is a    *)
(* list of conditions on users; the page previews how many users match,    *)
(* keeps the segments saved during the visit and exports their users.      *)
(* Conditions have random ids, so a place in the list stands for the id.   *)
(***************************************************************************)
EXTENDS Lists

CONSTANTS
  User,          \* the pool: a set of [id, activity, signup, country, gists, days]
  Choosable,     \* [field -> what a user may pick or type there], levels, dates,
                 \* countries and numbers being values of one kind
  High,          \* the activity level proposed
  Ops,           \* comparisons a user picks for the gist count
  MaxConditions, \* bound on the conditions of a segment
  MaxSegments,   \* bound on the segments saved
  Unset          \* undefined

VARIABLES
  segments, \* the saved segments: a sequence of [id, conditions, logic]
  active,   \* the one in the builder; id 0 is 'new'
  ticked    \* the button says "Saved"

segmentVars == <<segments, active, ticked>>
Logics == {"AND", "OR"}
Fields == DOMAIN Choosable

\* newCondition, and what a change of field leaves of a condition.
NewCondition(field) ==
  [field |-> field, value |-> IF field = "activity" THEN High ELSE Unset, op |-> Unset]

\* matchUser: what is undefined matches everybody, but a gist count without a
\* comparison is compared for equality, and one without a number with 0.
MatchUser(u, c) ==
  LET n == IF c.value = Unset THEN 0 ELSE c.value IN
  CASE c.field = "activity" -> u.activity = c.value
    [] c.field = "signupAfter" -> c.value = Unset \/ u.signup >= c.value
    [] c.field = "signupBefore" -> c.value = Unset \/ u.signup <= c.value
    [] c.field = "country" -> c.value = Unset \/ u.country = c.value
    [] c.field = "lastActiveDays" -> c.value = Unset \/ u.days <= c.value
    [] c.field = "gistCount" -> CASE c.op = ">" -> u.gists > n
                                  [] c.op = "<" -> u.gists < n
                                  [] OTHER -> u.gists = n

Every(s, u) == \A i \in DOMAIN s.conditions : MatchUser(u, s.conditions[i])
Some(s, u) == \E i \in DOMAIN s.conditions : MatchUser(u, s.conditions[i])

\* exportCsv's filter, and estimateSize's, which takes everybody when there is
\* no condition.
Exported(s) == {u \in User : IF s.logic = "AND" THEN Every(s, u) ELSE Some(s, u)}
EstimateSize(s) ==
  IF s.conditions = << >> THEN Cardinality(User) ELSE Cardinality(Exported(s))

SegmentsInit ==
  /\ segments = << >> /\ ticked = FALSE
  /\ active = [id |-> 0, conditions |-> << >>, logic |-> "AND"]

FaultyEdit(s) == active' = s /\ UNCHANGED <<segments, ticked>>
Edit(s) == active' = s /\ ticked' = FALSE /\ UNCHANGED segments
PickLogic(logic) == Edit([active EXCEPT !.logic = logic])
AddCondition ==
  /\ Len(active.conditions) < MaxConditions
  /\ Edit([active EXCEPT !.conditions = Append(@, NewCondition("activity"))])
RemoveCondition == \E i \in DOMAIN active.conditions :
  Edit([active EXCEPT !.conditions = Spliced(@, i)])
UpdateCondition(i, c) == Edit([active EXCEPT !.conditions[i] = c])
PickField == \E i \in DOMAIN active.conditions, field \in Fields :
  UpdateCondition(i, NewCondition(field))
PickValue == \E i \in DOMAIN active.conditions :
  LET c == active.conditions[i] IN
  \E v \in Choosable[c.field] : UpdateCondition(i, [c EXCEPT !.value = v])
PickOp == \E i \in DOMAIN active.conditions, op \in Ops :
  /\ active.conditions[i].field = "gistCount"
  /\ UpdateCondition(i, [active.conditions[i] EXCEPT !.op = op])

\* saveSegment: the builder goes on with the id 'new', so that a second save
\* appends a copy.
SaveSegment ==
  /\ segments' =
       IF \E i \in DOMAIN segments : segments[i].id = active.id
       THEN [i \in DOMAIN segments |-> IF segments[i].id = active.id THEN active ELSE segments[i]]
       ELSE Append(segments, [active EXCEPT !.id = Len(segments) + 1])
  /\ Len(segments') <= MaxSegments
  /\ ticked' = TRUE /\ UNCHANGED active
EditSegment == \E i \in DOMAIN segments :
  active' = segments[i] /\ ticked' = TRUE /\ UNCHANGED segments

SegmentsNext ==
  \/ AddCondition \/ RemoveCondition \/ PickField \/ PickValue \/ PickOp
  \/ SaveSegment \/ EditSegment
  \/ \E logic \in Logics : PickLogic(logic)
-----------------------------------------------------------------------------
SegmentsTypeOK ==
  /\ ticked \in BOOLEAN /\ active.id \in 0..Len(segments)
  /\ \A i \in DOMAIN segments : segments[i].id = i /\ segments[i].logic \in Logics

\* "No conditions -- matches all users" (page.tsx:251): the file of a segment has
\* as many users as its card says, but for one of no conditions joined by OR,
\* whose file is empty.
FilesHaveTheCountedUsers == \A i \in DOMAIN segments :
  LET s == segments[i] IN
  \/ Cardinality(Exported(s)) = EstimateSize(s)
  \/ s.conditions = << >> /\ s.logic = "OR" /\ Exported(s) = {}

\* While the button says "Saved", what is in the builder is among the segments.
TickedIsStored == ticked =>
  \E i \in DOMAIN segments : segments[i].conditions = active.conditions
                             /\ segments[i].logic = active.logic

\* Saving changes at most the segment that was opened, and takes none away.
NoSegmentIsLost ==
  [][/\ DOMAIN segments \subseteq DOMAIN segments'
     /\ \A i \in DOMAIN segments : active.id = i \/ segments'[i] = segments[i]]_segmentVars
=============================================================================

--------------------------- MODULE ImportIssues ---------------------------
(***************************************************************************)
(* infrastructure/scripts/import-issues-create.mjs: runs of the script that*)
(* makes the issues of a document on GitHub, one call of `gh' a step.  A   *)
(* run may die between any two steps; the next one resumes from the log.   *)
(* GitHub is external: it numbers issues itself, refuses, limits the rate, *)
(* and may have done what its answer does not tell.                        *)
(***************************************************************************)
EXTENDS Integers, Sequences, FiniteSetsExt

CONSTANTS
  Count,       \* data.issues are those numbered 1..Count
  Label,       \* data.labels
  Limits,      \* values of --limit; Count stands for none
  MaxAttempts, \* how often a rate limit is waited out
  MaxRuns,     \* bound on the runs of the script
  FirstNumber  \* number of GitHub's next issue

VARIABLES
  made,   \* GitHub: number |-> source number of the issues the script made
  labels, \* GitHub: the repository's labels
  log,    \* created.jsonl: the records [source, number], number 0 for an error
  known,  \* labels.json: the labels it lists as created
  body,   \* body files on disk
  proc,   \* the running script
  runs,   \* how many were started
  twins   \* sources whose issue was made by a run that died before the log

vars == <<made, labels, log, known, body, proc, runs, twins>>

Off == [at |-> "off", range |-> {}, todo |-> <<>>, tags |-> {}, named |-> {},
        already |-> {}, files |-> {}, made |-> 0, skipped |-> {}, failed |-> 0,
        attempt |-> 0, answer |-> 0]

ImportInit ==
  /\ made = <<>> /\ labels \in SUBSET Label /\ log = {} /\ known = {} /\ body = {}
  /\ proc = Off /\ runs = 0 /\ twins = {}

ScriptOnly == UNCHANGED <<made, labels, log, known, body, runs, twins>>

\* data.issues.filter by --start and --end, then the first --limit of them
Targets(start, end, limit) ==
  [i \in 1..Min({end - start + 1, limit}) |-> start + i - 1]

\* the source numbers of all records, those of failures included
Resumed(file) == {r.source : r \in file}

ValidRange(start, end, limit) == start >= 1 /\ end >= start /\ limit >= 1
Start(start, end, limit) ==
  /\ proc.at = "off" /\ runs < MaxRuns /\ ValidRange(start, end, limit)
  /\ LET targets == Targets(start, end, limit) IN
     proc' = [Off EXCEPT !.at = "labels", !.todo = targets, !.range = Range(targets),
                !.tags = Label \ known, !.named = known, !.already = Resumed(log)]
  /\ runs' = runs + 1
  /\ UNCHANGED <<made, labels, log, known, body, twins>>

\* gh label create: made, there already, or failed (perhaps made all the same).
CreateLabel(l) ==
  /\ proc.at = "labels" /\ l \in proc.tags
  /\ \/ /\ l \notin labels /\ labels' = labels \union {l}
        /\ proc' = [proc EXCEPT !.tags = @ \ {l}, !.named = @ \union {l}]
     \/ proc' = [proc EXCEPT !.tags = @ \ {l}] /\ labels' \in {labels, labels \union {l}}
  /\ UNCHANGED <<made, log, known, body, runs, twins>>

SaveLabels ==
  /\ proc.at = "labels" /\ proc.tags = {}
  /\ known' = proc.named /\ proc' = [proc EXCEPT !.at = "issues"]
  /\ UNCHANGED <<made, labels, log, body, runs, twins>>

Current == Head(proc.todo)
Working == proc.at = "issues" /\ proc.todo # <<>>
Passed(p) == [p EXCEPT !.at = "issues", !.todo = Tail(@), !.attempt = 0]

Skip ==
  /\ Working /\ Current \in proc.already
  /\ proc' = [Passed(proc) EXCEPT !.skipped = @ \union {Current}]
  /\ ScriptOnly

WriteBody ==
  /\ Working /\ Current \notin proc.already
  /\ body' = body \union {Current}
  /\ proc' = [proc EXCEPT !.at = "gh", !.files = @ \union {Current}]
  /\ UNCHANGED <<made, labels, log, known, runs, twins>>

NextNumber == FirstNumber + Len(made)
MayWait(p) == p.attempt < MaxAttempts

\* gh issue create: made, refused (perhaps made all the same), or limited.
CreateIssue ==
  /\ proc.at = "gh"
  /\ made' = Append(made, Current)
  /\ proc' = [proc EXCEPT !.at = "log", !.answer = NextNumber]
  /\ UNCHANGED <<labels, log, known, body, runs, twins>>
FailIssue ==
  /\ proc.at = "gh"
  /\ made' \in {made, Append(made, Current)}
  /\ proc' = [proc EXCEPT !.at = "log", !.answer = 0]
  /\ UNCHANGED <<labels, log, known, body, runs, twins>>
RateLimited ==
  /\ proc.at = "gh"
  /\ proc' = IF MayWait(proc) THEN [proc EXCEPT !.attempt = @ + 1]
                              ELSE [proc EXCEPT !.at = "log", !.answer = 0]
  /\ ScriptOnly

WriteLog ==
  /\ proc.at = "log"
  /\ log' = log \union {[source |-> Current, number |-> proc.answer]}
  /\ proc' = IF proc.answer = 0
             THEN [Passed(proc) EXCEPT !.failed = @ + 1]
             ELSE [Passed(proc) EXCEPT !.made = @ + 1, !.already = @ \union {Current}]
  /\ UNCHANGED <<made, labels, known, body, runs, twins>>

\* the body files of this run are deleted, and the exit code is 2 or 0
Finish ==
  /\ proc.at = "issues" /\ proc.todo = <<>>
  /\ body' = body \ proc.files
  /\ proc' = [proc EXCEPT !.at = "exit"]
  /\ UNCHANGED <<made, labels, log, known, runs, twins>>
ExitCode == IF proc.failed > 0 THEN 2 ELSE 0
Leave == proc.at = "exit" /\ proc' = Off /\ ScriptOnly

Die ==
  /\ proc.at \notin {"off", "exit"} /\ proc' = Off
  /\ twins' = IF proc.at = "log" /\ Len(made) > 0 /\ made[Len(made)] = Current
              THEN twins \union {Current} ELSE twins
  /\ UNCHANGED <<made, labels, log, known, body, runs>>

ImportNext ==
  \/ \E s \in 1..Count, e \in 1..Count, n \in Limits : Start(s, e, n)
  \/ \E l \in Label : CreateLabel(l)
  \/ SaveLabels \/ Skip \/ WriteBody \/ CreateIssue \/ FailIssue \/ RateLimited
  \/ WriteLog \/ Finish \/ Leave \/ Die
Spec == ImportInit /\ [][ImportNext]_vars
-----------------------------------------------------------------------------
\* The files and GitHub hold what their types say.
ImportTypeOK ==
  /\ \A i \in DOMAIN made : made[i] \in 1..Count
  /\ labels \subseteq Label /\ known \subseteq Label /\ body \subseteq 1..Count
  /\ log \subseteq [source : 1..Count, number : Nat]
  /\ proc.at \in {"off", "labels", "issues", "gh", "log", "exit"}

\* A source has two issues only if a run died between its issue and its log line:
\* neither a rerun, nor GitHub's own numbers, nor retries double one.
IssuesAreMadeOnce ==
  \A i, j \in DOMAIN made : i # j /\ made[i] = made[j] => made[i] \in twins

\* The three counts of the last line add up to the range, and exit code 0 is given
\* only when a rerun would find every issue of it in the log.
CountsAddUp ==
  proc.at = "exit" =>
    /\ proc.made + Cardinality(proc.skipped) + proc.failed = Cardinality(proc.range)
    /\ ExitCode = 0 => proc.range \subseteq proc.already

\* import-issues-create.mjs:314: "re-run to retry (skips successful ones)": what a
\* run skips exists on GitHub.
SkipsSuccessfulOnes == \A n \in proc.skipped : \E i \in DOMAIN made : made[i] = n
=============================================================================

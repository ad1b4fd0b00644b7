--------------------------- MODULE IssueDocument ---------------------------
(***************************************************************************)
(* infrastructure/scripts/import-issues.mjs: the parser whose file         *)
(* ImportIssues reads.  A document is a sequence of lines: a header of an  *)
(* issue, the start of its label field, or text; a line may have tokens in *)
(* backticks and may end with a period.                                    *)
(***************************************************************************)
EXTENDS Lists, FiniteSetsExt

CONSTANTS
  Document, \* sequences of [is, number, tokens, ends]
  Count     \* how many issues are expected: 100 in the code

VARIABLES job, answer \* the document, and nothing yet or the one answer

Lines(doc, is) == SelectSeq([i \in DOMAIN doc |-> i], LAMBDA i : doc[i].is = is)

\* extractLabels: the tokens from the label field up to the first period that ends
\* a line, be it of another sentence; none when no line of the body ends so.
ExtractLabels(body) ==
  LET field == Lines(body, "labels")
      ends == {j \in DOMAIN body : field # << >> /\ j >= field[1] /\ body[j].ends}
  IN IF ends = {} THEN {} ELSE UNION {body[i].tokens : i \in field[1]..Min(ends)}

\* parseIssues: a body goes up to the next header or the end.
ParseIssues(doc) ==
  LET at == Lines(doc, "header")
      last(k) == IF k < Len(at) THEN at[k + 1] - 1 ELSE Len(doc)
      body(k) == SubSeq(doc, at[k] + 1, last(k))
  IN [k \in DOMAIN at |->
        [number |-> doc[at[k]].number, body |-> body(k), labels |-> ExtractLabels(body(k))]]

\* parseIssues throws where there is no header, validate where the numbers are not
\* 1..Count in order.
Accepted(issues) ==
  Len(issues) = Count /\ issues # << >> /\ \A i \in DOMAIN issues : issues[i].number = i

\* main writes the issues and all their labels, or exits.
Parsed(doc) ==
  LET issues == ParseIssues(doc) IN
  IF Accepted(issues)
  THEN [exit |-> 0, issues |-> issues, labels |-> UNION {issues[i].labels : i \in DOMAIN issues}]
  ELSE [exit |-> 2, issues |-> << >>, labels |-> {}]

DocumentInit == answer = << >> /\ job \in [kind : {"document"}, data : Document]
DocumentNext == answer = << >> /\ answer' = <<Parsed(job.data)>> /\ UNCHANGED job
-----------------------------------------------------------------------------
\* An accepted document is taken apart without loss: after what comes before the
\* first header, its lines are those of the issues, in order; a label field that
\* ends on its line gives the labels, and no issue has a label of another's text.
DocumentsAreWhole == job.kind = "document" /\ answer # << >> /\ answer[1].exit = 0 =>
  LET doc == job.data
      issues == answer[1].issues
      first == Lines(doc, "header")[1]
      whole == Joined([i \in DOMAIN issues |->
                 <<doc[Lines(doc, "header")[i]]>> \o issues[i].body])
  IN /\ whole = SubSeq(doc, first, Len(doc))
     /\ \A i \in DOMAIN issues :
          LET body == issues[i].body
              field == Lines(body, "labels")
          IN /\ issues[i].labels \subseteq UNION {body[j].tokens : j \in DOMAIN body}
             /\ field # << >> /\ body[field[1]].ends => issues[i].labels = body[field[1]].tokens
             /\ field = << >> => issues[i].labels = {}
=============================================================================

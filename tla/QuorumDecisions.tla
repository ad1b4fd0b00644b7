-------------------------- MODULE QuorumDecisions --------------------------
(***************************************************************************)
(* What the governance and the multisig contracts both promise, without    *)
(* counters, deadlines, roles or storage keys: motions are opened in turn  *)
(* and keep their content; an account takes a side on a motion at most     *)
(* once and never changes it; a motion is decided at most once, and only   *)
(* when a quorum of distinct accounts backs it at that moment.             *)
(***************************************************************************)
EXTENDS Naturals, Sequences, FiniteSets

CONSTANTS Account, Motion, Content, NoQuorum

VARIABLES
  quorum,     \* how many backers a decision takes, NoQuorum before it is set
  content,    \* content[m]: what motion m, once opened, is about
  backers,    \* backers[m], opponents[m]: the accounts on each side
  opponents,
  decided,    \* the motions decided, oldest first
  imported    \* the one import of earlier backers has happened, or may not

qvars == <<quorum, content, backers, opponents, decided, imported>>

Opened == DOMAIN content
Decided == {decided[i] : i \in DOMAIN decided}

Init ==
  /\ decided = << >>
  /\ content \in UNION {[M -> Content] : M \in SUBSET Motion}
  /\ \A m \in Motion : backers[m] \subseteq Account /\ opponents[m] = {}

SetQuorum ==
  /\ quorum' \in Nat
  /\ UNCHANGED <<content, backers, opponents, decided, imported>>

Open(m, c) ==
  /\ quorum # NoQuorum
  /\ m \notin Opened
  /\ content' = [x \in Opened \cup {m} |-> IF x = m THEN c ELSE content[x]]
  /\ UNCHANGED <<quorum, backers, opponents, decided, imported>>

Undecided(m) == m \in Opened \ Decided
HasSide(m, a) == a \in backers[m] \cup opponents[m]

Back(m, a) ==
  /\ Undecided(m) /\ ~HasSide(m, a)
  /\ backers' = [backers EXCEPT ![m] = @ \cup {a}]
  /\ UNCHANGED <<quorum, content, opponents, decided, imported>>

Oppose(m, a) ==
  /\ Undecided(m) /\ ~HasSide(m, a)
  /\ opponents' = [opponents EXCEPT ![m] = @ \cup {a}]
  /\ UNCHANGED <<quorum, content, backers, decided, imported>>

\* Once: backers taken over from elsewhere, whatever is decided already.
Import ==
  /\ ~imported /\ imported'
  /\ backers' \in [Motion -> SUBSET Account]
  /\ \A m \in Motion : /\ backers[m] \subseteq backers'[m]
                       /\ (backers'[m] \ backers[m]) \cap opponents[m] = {}
  /\ UNCHANGED <<quorum, content, opponents, decided>>

Decide(m) ==
  /\ Undecided(m)
  /\ Cardinality(backers[m]) >= quorum
  /\ decided' = Append(decided, m)
  /\ UNCHANGED <<quorum, content, backers, opponents, imported>>

Next ==
  \/ SetQuorum
  \/ \E m \in Motion, c \in Content : Open(m, c)
  \/ \E m \in Motion, a \in Account : Back(m, a) \/ Oppose(m, a)
  \/ Import
  \/ \E m \in Motion : Decide(m)

Spec == Init /\ [][Next]_qvars
=============================================================================

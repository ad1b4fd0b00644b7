--------------------------- MODULE OptimisticMap ---------------------------
(***************************************************************************)
(* The map page of the frontend: Frontend/src/components/map/Map.tsx,      *)
(* AddGistModal.tsx and api/gists.ts. A gist is on the map before the      *)
(* backend has it; the answer replaces it, a failure takes it back.        *)
(***************************************************************************)
EXTENDS Lists

CONSTANTS
  Content,  \* what a user types; "" is blank
  MaxPosts, \* bound on the posts ever sent
  None

VARIABLES
  pins,  \* the gists drawn: a sequence of [id, status, at]
  modal, \* [open, text, loading]
  post,  \* the request in flight, or None: [id, at, stage]
  rows,  \* rows the backend has stored, as a number
  sent,  \* posts sent
  here,  \* the position of the map: "default", then "found" if the browser tells
  toast  \* the toast shown, or None; its timer runs as long as it is shown

mapVars == <<pins, modal, post, rows, sent, here, toast>>
Blank == ""
Statuses == {"seeded", "pending", "delivered"}

MapInit ==
  /\ pins = <<[id |-> 0, status |-> "seeded", at |-> "default"]>>
  /\ modal = [open |-> FALSE, text |-> Blank, loading |-> FALSE]
  /\ post = None /\ rows = 0 /\ sent = 0 /\ here = "default" /\ toast = None

Locate == here = "default" /\ here' = "found" /\ UNCHANGED <<pins, modal, post, rows, sent, toast>>

OnlyModal(m) == modal' = m /\ UNCHANGED <<pins, post, rows, sent, here, toast>>
OpenModal == ~modal.open /\ OnlyModal([modal EXCEPT !.open = TRUE])
CloseModal == modal.open /\ OnlyModal([modal EXCEPT !.open = FALSE])
TypeContent(text) == modal.open /\ OnlyModal([modal EXCEPT !.text = text])

\* handleSubmit and handleAddGist up to the await: the pin carries an id of its
\* own, and the request the position the handler was made with.
FaultyMaySubmit == modal.open /\ modal.text # Blank
MaySubmit == modal.open /\ modal.text # Blank /\ ~modal.loading
Submit ==
  /\ MaySubmit /\ sent < MaxPosts
  /\ sent' = sent + 1
  /\ pins' = Append(pins, [id |-> sent', status |-> "pending", at |-> here])
  /\ post' = [id |-> sent', at |-> here, stage |-> "sent"]
  /\ modal' = [modal EXCEPT !.loading = TRUE]
  /\ UNCHANGED <<rows, here, toast>>

\* The backend stores the row, or refuses, or is never reached.
Stage(s) == post' = [post EXCEPT !.stage = s] /\ UNCHANGED <<pins, modal, sent, here, toast>>
BackendStores == post # None /\ post.stage = "sent" /\ rows' = rows + 1 /\ Stage("stored")
BackendRefuses == post # None /\ post.stage = "sent" /\ UNCHANGED rows /\ Stage("failed")
\* The answer is lost after the row was stored.
AnswerLost == post # None /\ post.stage = "stored" /\ UNCHANGED rows /\ Stage("failed")

WithoutPin(list, id) == Kept(list, {p \in Range(list) : p.id # id})

\* The end of handleAddGist and of handleSubmit: handleAddGist catches the error,
\* so the modal is emptied and closed after a failure too.
Finish(shown, message) ==
  /\ pins' = shown /\ toast' = message /\ post' = None
  /\ modal' = [open |-> FALSE, text |-> Blank, loading |-> FALSE]
  /\ UNCHANGED <<rows, sent, here>>
Succeed ==
  /\ post # None /\ post.stage = "stored"
  /\ Finish([i \in DOMAIN pins |->
       IF pins[i].id = post.id THEN [pins[i] EXCEPT !.status = "delivered"] ELSE pins[i]], "success")
FailPost ==
  post # None /\ post.stage = "failed" /\ Finish(WithoutPin(pins, post.id), "error")

\* showToast: the timer of an earlier toast was cleared.
ToastExpires == toast # None /\ toast' = None /\ UNCHANGED <<pins, modal, post, rows, sent, here>>

MapNext ==
  \/ Locate \/ OpenModal \/ CloseModal \/ Submit \/ BackendStores \/ BackendRefuses
  \/ AnswerLost \/ Succeed \/ FailPost \/ ToastExpires
  \/ \E text \in Content \cup {Blank} : TypeContent(text)
-----------------------------------------------------------------------------
Drawn(status) == {i \in DOMAIN pins : pins[i].status = status}

MapTypeOK ==
  /\ \A i \in DOMAIN pins : pins[i].status \in Statuses /\ pins[i].at \in {"default", "found"}
  /\ rows <= sent /\ sent <= MaxPosts /\ toast \in {None, "success", "error"}

\* Exactly while a post is in flight there is a pending pin, and it is that
\* post's, at the place that was sent.
PendingPinHasItsPost ==
  /\ modal.loading <=> post # None
  /\ Cardinality(Drawn("pending")) = IF post = None THEN 0 ELSE 1
  /\ \A i \in Drawn("pending") : pins[i].id = post.id /\ pins[i].at = post.at

\* No more gists are shown as delivered than the backend has stored.
DeliveredPinsAreStored == Cardinality(Drawn("delivered")) <= rows

\* A pin goes only when its own post failed.
NoPinIsLost ==
  [][\A i \in DOMAIN pins : (\A j \in DOMAIN pins' : pins'[j].id # pins[i].id) =>
       pins[i].status = "pending" /\ post # None /\ post.id = pins[i].id /\ post.stage = "failed"]_mapVars

\* A pin is pending; a toast tells of one.
Posting == Drawn("pending") # {}
Telling == toast # None
=============================================================================

--------------------------- MODULE ResponseStream ---------------------------
(***************************************************************************)
(* One compressed response of the backend: compressionMiddleware of        *)
(* Backend/src/common/middleware/compression.middleware.ts.                *)
(*                                                                         *)
(* The handler writes and ends, the zlib stream emits what it is given     *)
(* later, fails or ends, and the client may go away between any two steps. *)
(***************************************************************************)
EXTENDS Integers, Sequences

CONSTANTS
  MaxChunks, \* writes of the handler
  FullQ,     \* q=1; q values are 0..FullQ
  None

VARIABLES
  ask,    \* the request, and the status and headers its handler will set
  header, \* Content-Encoding and Content-Length of the response
  mode,   \* "off": write and end are the originals; "unset": initStream has
          \* not run; then "empty", "raw" or "zip"
  given,  \* chunks the handler has written
  ending, \* the handler has called end
  zip,    \* the zlib stream: its state and the chunks it has yet to emit
  wire,   \* what the client was sent, in order
  socket  \* "open", "ended" or "broken"

streamVars == <<ask, header, mode, given, ending, zip, wire, socket>>

Codings == {"br", "gzip"}
Asks == [q : [Codings \cup {"*"} -> 0..FullQ \cup {None}], skipped : BOOLEAN,
         status : {"200", "204"}, compressible : BOOLEAN, length : BOOLEAN]
NoZip == [state |-> "none", left |-> << >>]

StreamInit ==
  /\ ask = None /\ header = None /\ mode = "off" /\ given = 0 /\ ending = FALSE
  /\ zip = NoZip /\ wire = << >> /\ socket = "open"

\* negotiateEncoding: a wildcard counts in full for what is not named.
Weight(q, c) == IF q[c] # None THEN q[c] ELSE IF q["*"] # None THEN FullQ ELSE 0
Encoding(q) ==
  IF \A c \in Codings : Weight(q, c) = 0 THEN None
  ELSE IF Weight(q, "br") >= Weight(q, "gzip") THEN "br" ELSE "gzip"

\* The middleware: probes, HEAD and OPTIONS pass, and so does a client that
\* accepts neither coding.
Arrive(a) ==
  /\ ask = None
  /\ ask' = a
  /\ header' = [encoding |-> None, length |-> a.length]
  /\ mode' = IF a.skipped \/ Encoding(a.q) = None THEN "off" ELSE "unset"
  /\ UNCHANGED <<given, ending, zip, wire, socket>>

\* initStream
InitMode ==
  IF mode # "unset" THEN mode
  ELSE IF ask.status = "204" THEN "empty"
  ELSE IF ~ask.compressible THEN "raw" ELSE "zip"
InitHeader(m) ==
  IF mode # "unset" THEN header
  ELSE CASE m = "zip" -> [encoding |-> Encoding(ask.q), length |-> FALSE]
         [] m = "empty" -> [header EXCEPT !.length = FALSE]
         [] OTHER -> header
InitZip(m) == IF mode = "unset" /\ m = "zip" THEN [zip EXCEPT !.state = "open"] ELSE zip

\* Where a chunk goes: nowhere, to the client, or into the zlib stream, which
\* drops it once it is destroyed.  The original write sends no body with a 204.
Routed(m, chunks) ==
  LET z == InitZip(m)
      out == IF m = "zip" \/ m = "empty" \/ (m = "off" /\ ask.status = "204") \/ socket # "open"
             THEN << >> ELSE [i \in DOMAIN chunks |-> [chunk |-> chunks[i], form |-> "raw"]]
      in == IF m = "zip" /\ z.state = "open" THEN chunks ELSE << >> IN
  /\ mode' = m
  /\ header' = InitHeader(m)
  /\ wire' = wire \o out
  /\ given' = given + Len(chunks)
  /\ zip' = [z EXCEPT !.left = @ \o in,
                      !.state = IF ending' /\ @ = "open" THEN "ending" ELSE @]

Handling == ask # None /\ ~ending

\* writeOverride
Write ==
  /\ Handling /\ given < MaxChunks
  /\ ending' = ending
  /\ Routed(InitMode, <<given + 1>>)
  /\ UNCHANGED <<ask, socket>>

\* endOverride, with or without a last chunk; zlib ends the response later.
FaultyEndsNow(m) == TRUE
EndsNow(m) == m # "zip"
End ==
  /\ Handling
  /\ ending' = TRUE
  /\ \E chunks \in {<< >>, <<given + 1>>} :
       given + Len(chunks) <= MaxChunks /\ Routed(InitMode, chunks)
  /\ socket' = IF EndsNow(InitMode) /\ socket = "open" THEN "ended" ELSE socket
  /\ UNCHANGED ask

\* 'data': the chunk goes out by the original write.
Data ==
  /\ zip.state \in {"open", "ending"} /\ zip.left # << >>
  /\ zip' = [zip EXCEPT !.left = Tail(@)]
  /\ wire' = IF socket = "open" THEN Append(wire, [chunk |-> Head(zip.left), form |-> "zip"])
             ELSE wire
  /\ UNCHANGED <<ask, header, mode, given, ending, socket>>

\* 'end', 'error' and 'close' destroy the stream, whichever comes first.
Destroyed == zip' = [state |-> "destroyed", left |-> << >>]
Finish ==
  /\ zip.state = "ending" /\ zip.left = << >>
  /\ Destroyed
  /\ socket' = IF socket = "open" THEN "ended" ELSE socket
  /\ UNCHANGED <<ask, header, mode, given, ending, wire>>
Break ==
  /\ zip.state \in {"open", "ending"}
  /\ Destroyed
  /\ socket' = IF socket = "open" THEN "broken" ELSE socket
  /\ UNCHANGED <<ask, header, mode, given, ending, wire>>

\* The client goes away; the listener is there once initStream has run.
OnClose == IF zip.state \in {"open", "ending"} THEN Destroyed ELSE UNCHANGED zip
Disconnect ==
  /\ ask # None /\ socket = "open"
  /\ socket' = "broken"
  /\ OnClose
  /\ UNCHANGED <<ask, header, mode, given, ending, wire>>

Zlib == Data \/ Finish
StreamNext == (\E a \in Asks : Arrive(a)) \/ Write \/ End \/ Zlib \/ Break \/ Disconnect

-----------------------------------------------------------------------------
StreamTypeOK ==
  /\ ask \in Asks \cup {None} /\ mode \in {"off", "unset", "empty", "raw", "zip"}
  /\ given \in 0..MaxChunks /\ socket \in {"open", "ended", "broken"}
  /\ zip.state \in {"none", "open", "ending", "destroyed"}

\* What the client has got is a prefix of what the handler wrote, all of it in
\* the form that the headers announce, and all of it when the response ended; a
\* response without content has no byte.  A compressed response announces no
\* length, and its coding is one that the client named, or left to a wildcard;
\* none it named with q=0, nor with a lower q than the other.  A wildcard counts as
\* q=1 whatever q it has itself (compression.middleware.ts:99), so after "*;q=0"
\* the answer may be in br.
AnswersAreWhole ==
  ask # None =>
    /\ \A i \in DOMAIN wire : wire[i].chunk = i
         /\ wire[i].form = IF header.encoding = None THEN "raw" ELSE "zip"
    /\ socket = "ended" /\ ask.status = "200" => Len(wire) = given
    /\ ask.status = "204" => wire = << >>
    /\ header.encoding # None =>
         /\ ~header.length /\ ask.q[header.encoding] # 0 /\ ~ask.skipped
         /\ ask.q[header.encoding] # None \/ ask.q["*"] # None
         /\ \A c \in Codings : ask.q[c] # None /\ ask.q[header.encoding] # None
                               => ask.q[c] <= ask.q[header.encoding]

\* The buffers of the zlib stream are given back, however the response ends:
\* completely, by an error of zlib or by a client that goes away.
BuffersReclaimed == zip.state \in {"open", "ending"} ~> zip.state = "destroyed"
=============================================================================

-------------------------------- MODULE Http2p --------------------------------
(***************************************************************************)
(* A fetch over a libp2p stream (http2p.js): the ping, the request that a  *)
(* client writes, the reader of lines at both ends, the answer of the      *)
(* fetch listener, the bodies, and abort.                                  *)
(*                                                                         *)
(* A message is a sequence of symbols: a start line and one header line,   *)
(* each a word, CR and LF; an empty line; the body.  The stream is         *)
(* external: it delivers the symbols in order, in chunks of any size, and  *)
(* may break.  A ping opens a stream of its own to the same handler:       *)
(* nothing is written into it, and it is left open.                        *)
(***************************************************************************)
EXTENDS Naturals, SequencesExt

CONSTANTS
    Fetches,
    Pieces,     \* what bodies consist of
    RequestBodies, ResponseBodies,
    Retries,    \* how often ping is repeated
    SplitCRLF,  \* whether a chunk may end between CR and LF
    MayFail     \* whether connections break, and bodies that are sent

ASSUME FetchAssumption ==
    /\ RequestBodies \subseteq Seq(Pieces) /\ ResponseBodies \subseteq Seq(Pieces)
    /\ Retries \in Nat
    /\ SplitCRLF \in BOOLEAN /\ MayFail \in BOOLEAN

VARIABLES
    closed,     \* http2p.close() of the server: nothing handles the protocol
    stopped,    \* libp2p.stop() of the client
    check,      \* the ping's stream at the server: "none", "open", "closed", or "spin"
    stage,      \* where libp2pFetch stands
    tries,      \* the pings that failed, while it pings
    aborted,    \* request.signal.aborted
    stream,     \* "none", "open", "closed" by the client, or "broken"
    handler,    \* where libp2pHandler stands: "none", "waiting", "silent", or the status
    wire,       \* the symbols on their way, of the request and of the response
    toSend,     \* what is left of the body
    ended,      \* whether the sink has come to the end of what it writes
    parser,     \* sourceToMime and the body it returns
    content     \* history: the bodies

clientVars == <<stage, tries, aborted>>
vars == <<closed, stopped, check, clientVars, stream, handler, wire, toSend, ended, parser, content>>

Statuses == {"200", "204", "404", "500"}

(* The direction that each node reads. *)
Directions == {"req", "res"}

Symbol == Statuses \cup {"POST", "header", "CR", "LF", "stack"} \cup Pieces

head(word) == <<word, "CR", "LF", "header", "CR", "LF", "CR", "LF">>

Parser == [phase: {"start", "headers", "spin", "body", "done", "failed"},
           line: Seq(Symbol), rest: Seq(Symbol),
           start: Seq(Symbol), headers: Seq(Seq(Symbol)), body: Seq(Symbol)]

NewParser == [phase |-> "start", line |-> << >>, rest |-> << >>,
              start |-> << >>, headers |-> << >>, body |-> << >>]

Init ==
    /\ closed = FALSE /\ stopped = FALSE
    /\ check = [x \in Fetches |-> "none"]
    /\ stage = [x \in Fetches |-> "idle"]
    /\ tries = [x \in Fetches |-> 0]
    /\ aborted = [x \in Fetches |-> FALSE]
    /\ stream = [x \in Fetches |-> "none"]
    /\ handler = [x \in Fetches |-> "none"]
    /\ wire = [x \in Fetches |-> [d \in Directions |-> << >>]]
    /\ toSend = [x \in Fetches |-> [d \in Directions |-> << >>]]
    /\ ended = [x \in Fetches |-> [d \in Directions |-> FALSE]]
    /\ parser = [x \in Fetches |-> [d \in Directions |-> NewParser]]
    /\ content = [x \in Fetches |-> [d \in Directions |-> << >>]]

(* The header loop never ends when the source ends before the empty line: it awaits
   promises that are resolved, so nothing else runs on the node that reads d. *)
runs(d) == \A x \in Fetches : parser[x][d].phase # "spin" /\ (d = "req" => check[x] # "spin")

client == runs("res")
server == runs("req")

-----------------------------------------------------------------------------
(* The client: libp2pFetch. *)

fetch(x) ==
    /\ client /\ stage[x] = "idle"
    /\ stage' = [stage EXCEPT ![x] = "pinging"]
    /\ UNCHANGED <<closed, stopped, check, tries, aborted, stream, handler, wire, toSend, ended, parser, content>>

(* Mutant of mayRetry: once too often. *)
mayRetryAgain(x) == tries[x] <= Retries

mayRetry(x) == tries[x] < Retries

(* A peer relays to the server, whose handler gets a stream that is never used; or a
   route to it is found; or no peer does and there is none. *)
ping(x) ==
    /\ client /\ stage[x] = "pinging"
    /\ \/ /\ ~stopped
          /\ stage' = [stage EXCEPT ![x] = "dialing"]
          /\ \/ ~closed /\ check' = [check EXCEPT ![x] = "open"]
             \/ UNCHANGED check
          /\ tries' = [tries EXCEPT ![x] = 0]
       \/ /\ mayRetry(x)
          /\ tries' = [tries EXCEPT ![x] = @ + 1]
          /\ UNCHANGED <<stage, check>>
       \/ /\ ~mayRetry(x)
          /\ stage' = [stage EXCEPT ![x] = "rejected"]
          /\ tries' = [tries EXCEPT ![x] = 0]
          /\ UNCHANGED check
    /\ UNCHANGED <<closed, stopped, aborted, stream, handler, wire, toSend, ended, parser, content>>

(* What sink is given: the head at once, the body as it comes. *)
write(x, d, word, body) ==
    /\ wire' = [wire EXCEPT ![x][d] = head(word)]
    /\ toSend' = [toSend EXCEPT ![x][d] = body]
    /\ content' = [content EXCEPT ![x][d] = body]

(* dialProtocol, and requestToSink.  Whether the signal was aborted before is not
   asked. *)
dial(x) ==
    /\ client /\ stage[x] = "dialing"
    /\ \/ /\ ~closed /\ ~stopped
          /\ stage' = [stage EXCEPT ![x] = "headers"]
          /\ stream' = [stream EXCEPT ![x] = "open"]
          /\ \E body \in RequestBodies : write(x, "req", "POST", body)
       \/ /\ closed \/ stopped \/ MayFail
          /\ stage' = [stage EXCEPT ![x] = "rejected"]
          /\ UNCHANGED <<stream, wire, toSend, content>>
    /\ UNCHANGED <<closed, stopped, check, tries, aborted, handler, ended, parser>>

(* controller.abort(), also before the fetch: there is a listener only once the
   stream is dialed. *)
abort(x) ==
    /\ client /\ ~aborted[x]
    /\ aborted' = [aborted EXCEPT ![x] = TRUE]
    /\ stream' = [stream EXCEPT ![x] = IF @ = "open" THEN "closed" ELSE @]
    /\ UNCHANGED <<closed, stopped, check, stage, tries, handler, wire, toSend, ended, parser, content>>

(* sourceToMime has returned, to sourceToResponse or to sourceToRequest. *)
hasMime(x, d) == parser[x][d].phase \in {"body", "done"}

(* new Response throws for these when there is a body, and there always is one. *)
hasNullBody(status) == status \in {"204", "304"}

(* sourceToResponse returns. *)
responds(x) ==
    LET status == parser[x]["res"].start[1]
    IN  /\ client /\ stage[x] = "headers" /\ hasMime(x, "res")
        /\ stage' = [stage EXCEPT ![x] = IF hasNullBody(status) THEN "rejected" ELSE "resolved"]
        /\ UNCHANGED <<closed, stopped, check, tries, aborted, stream, handler, wire, toSend, ended, parser, content>>

(* The reader of the response cancels its body. *)
cancel(x) ==
    /\ client /\ stage[x] = "resolved" /\ parser[x]["res"].phase = "body"
    /\ parser' = [parser EXCEPT ![x]["res"].phase = "failed"]
    /\ stream' = [stream EXCEPT ![x] = IF @ = "open" THEN "closed" ELSE @]
    /\ UNCHANGED <<closed, stopped, check, clientVars, handler, wire, toSend, ended, content>>

-----------------------------------------------------------------------------
(* The server: libp2pHandler. *)

(* What is written into a stream that was closed is lost. *)
answer(x, status, body) ==
    /\ handler' = [handler EXCEPT ![x] = status]
    /\ IF stream[x] = "open" THEN write(x, "res", status, body)
       ELSE UNCHANGED <<wire, toSend, content>>

(* The request is there, its body may not be. *)
requested(x) == server /\ hasMime(x, "req")

(* It is dispatched to the listeners: one of them answers, now or later, or none. *)
dispatch(x) ==
    /\ handler[x] = "none" /\ requested(x)
    /\ \/ /\ handler' = [handler EXCEPT ![x] = "waiting"]
          /\ UNCHANGED <<wire, toSend, content>>
       \/ answer(x, "404", <<"stack">>)
    /\ UNCHANGED <<closed, stopped, check, clientVars, stream, ended, parser>>

(* The promise given to respondWith: a Response with or without a body, an error,
   or something else, for which responseToSink throws and nothing is written. *)
respond(x) ==
    /\ server /\ handler[x] = "waiting"
    /\ \/ \E body \in ResponseBodies : answer(x, "200", body)
       \/ answer(x, "204", << >>)
       \/ answer(x, "500", <<"stack">>)
       \/ /\ handler' = [handler EXCEPT ![x] = "silent"]
          /\ UNCHANGED <<wire, toSend, content>>
    /\ UNCHANGED <<closed, stopped, check, clientVars, stream, ended, parser>>

closeServer ==
    /\ server /\ ~closed
    /\ closed' = TRUE
    /\ UNCHANGED <<stopped, check, clientVars, stream, handler, wire, toSend, ended, parser, content>>

(* stop() of a gateway, which is the client here: libp2p.stop() closes its streams, or
   breaks them. *)
stopClient ==
    /\ client /\ ~stopped
    /\ stopped' = TRUE
    /\ \/ /\ stream' = [x \in Fetches |-> IF stream[x] = "open" THEN "closed" ELSE stream[x]]
          /\ check' = [x \in Fetches |-> IF check[x] = "open" THEN "closed" ELSE check[x]]
       \/ /\ stream' = [x \in Fetches |-> IF stream[x] = "open" THEN "broken" ELSE stream[x]]
          /\ check' = [x \in Fetches |-> IF check[x] = "open" THEN "none" ELSE check[x]]
    /\ UNCHANGED <<closed, clientVars, handler, wire, toSend, ended, parser, content>>

-----------------------------------------------------------------------------
(* The streams, at both ends. *)

writes(x, d) == IF d = "req" THEN client /\ stage[x] \notin {"idle", "pinging", "dialing"}
                ELSE server /\ handler[x] \in Statuses

(* The sink gets the next piece of the body, or comes to its end. *)
send(x, d) ==
    /\ writes(x, d) /\ stream[x] = "open" /\ ~ended[x][d]
    /\ IF toSend[x][d] # << >>
       THEN /\ wire' = [wire EXCEPT ![x][d] = Append(@, Head(toSend[x][d]))]
            /\ toSend' = [toSend EXCEPT ![x][d] = Tail(@)]
            /\ UNCHANGED ended
       ELSE /\ ended' = [ended EXCEPT ![x][d] = TRUE]
            /\ UNCHANGED <<wire, toSend>>
    /\ UNCHANGED <<closed, stopped, check, clientVars, stream, handler, parser, content>>

(* The connection breaks; or a body that is sent fails, and libp2p aborts its stream. *)
breaks(x) ==
    /\ MayFail /\ stream[x] = "open"
    /\ stream' = [stream EXCEPT ![x] = "broken"]
    /\ UNCHANGED <<closed, stopped, check, clientVars, handler, wire, toSend, ended, parser, content>>

(* Where readLine finds CRLF: within a chunk.  The chunk that it looks at is always
   the last one it has, so that it never finds one between two chunks. *)
lineEnds(chunk) == {j \in 1 .. Len(chunk) - 1 : chunk[j] = "CR" /\ chunk[j + 1] = "LF"}

(* Whether Headers takes it: a line that holds the end of another is refused. *)
isHeader(text) == \A i \in 1 .. Len(text) - 2 : text[i] \notin {"CR", "LF"}

(* Mutant of takeLine: the empty line is looked for in the chunk alone. *)
takeLineOfChunk(p, text, rest) ==
    IF p.phase = "start" THEN [p EXCEPT !.start = text, !.phase = "headers", !.rest = rest, !.line = << >>]
    ELSE IF Len(p.rest) - Len(rest) = 2
    THEN [p EXCEPT !.phase = "body", !.body = rest, !.rest = << >>, !.line = << >>]
    ELSE [p EXCEPT !.headers = Append(@, text), !.rest = rest, !.line = << >>]

(* sourceToMime with one more line: the start, a header, or the empty line, after
   which the rest of the chunk is body. *)
takeLine(p, text, rest) ==
    IF p.phase = "start" THEN [p EXCEPT !.start = text, !.phase = "headers", !.rest = rest, !.line = << >>]
    ELSE IF Len(text) = 2
    THEN [p EXCEPT !.phase = "body", !.body = rest, !.rest = << >>, !.line = << >>]
    ELSE [p EXCEPT !.headers = IF isHeader(text) THEN Append(@, text) ELSE @,
                   !.rest = rest, !.line = << >>]

readLine(x, d) ==
    LET p == parser[x][d]
        j == CHOOSE i \in lineEnds(p.rest) : \A k \in lineEnds(p.rest) : i <= k
        text == p.line \o SubSeq(p.rest, 1, j + 1)
    IN  /\ runs(d) /\ p.phase \in {"start", "headers"}
        /\ lineEnds(p.rest) # {}
        /\ parser' = [parser EXCEPT ![x][d] = takeLine(p, text, SubSeq(p.rest, j + 2, Len(p.rest)))]
        /\ UNCHANGED <<closed, stopped, check, clientVars, stream, handler, wire, toSend, ended, content>>

(* The end of the ping's stream is the end of a request without a line: the server is
   in the header loop for ever. *)
checkEnds(x) ==
    /\ server /\ check[x] = "closed"
    /\ check' = [check EXCEPT ![x] = "spin"]
    /\ UNCHANGED <<closed, stopped, clientVars, stream, handler, wire, toSend, ended, parser, content>>

(* Whether the message was handed on, as a response or to the listeners. *)
handedOn(x, d) == IF d = "res" THEN stage[x] # "headers" ELSE handler[x] # "none"

(* Who reads wants the next chunk: readLine, or the body, whose first chunk comes, or
   fails to, after sourceToMime has returned, with nothing but microtasks between. *)
wants(x, d) ==
    /\ runs(d) /\ stream[x] # "none"
    /\ \/ parser[x][d].phase \in {"start", "headers"} /\ lineEnds(parser[x][d].rest) = {}
       \/ parser[x][d].phase = "body" /\ handedOn(x, d)

(* readLine joins what it has to what it had; the body passes the chunk on. *)
takeChunk(p, chunk) ==
    IF p.phase = "body" THEN [p EXCEPT !.body = @ \o chunk]
    ELSE [p EXCEPT !.line = @ \o p.rest, !.rest = chunk]

(* sourceIter.next() returns a chunk. *)
receive(x, d) ==
    /\ wants(x, d) /\ stream[x] # "broken"
    /\ \E n \in 1 .. Len(wire[x][d]) :
        LET chunk == SubSeq(wire[x][d], 1, n)
        IN  /\ SplitCRLF \/ chunk[n] # "CR"
            /\ wire' = [wire EXCEPT ![x][d] = SubSeq(@, n + 1, Len(@))]
            /\ parser' = [parser EXCEPT ![x][d] = takeChunk(@, chunk)]
    /\ UNCHANGED <<closed, stopped, check, clientVars, stream, handler, toSend, ended, content>>

(* It returns done: all was read of what the other end wrote, or the client has
   closed the stream. *)
receiveEnd(x, d) ==
    /\ wants(x, d) /\ stream[x] # "broken"
    /\ \/ ended[x][d] /\ wire[x][d] = << >>
       \/ stream[x] = "closed" /\ (d = "res" \/ wire[x][d] = << >>)
    /\ parser' = [parser EXCEPT ![x][d].phase = IF @ = "body" THEN "done" ELSE "spin"]
    /\ UNCHANGED <<closed, stopped, check, clientVars, stream, handler, wire, toSend, ended, content>>

(* Mutant of receiveError: the error is taken for the end. *)
receiveErrorAsEnd(x, d) ==
    /\ wants(x, d) /\ stream[x] = "broken"
    /\ parser' = [parser EXCEPT ![x][d].phase = IF @ = "body" THEN "done" ELSE "spin"]
    /\ stage' = [stage EXCEPT ![x] = IF d = "res" /\ @ = "headers" THEN "rejected" ELSE @]
    /\ UNCHANGED <<closed, stopped, check, tries, aborted, stream, handler, wire, toSend, ended, content>>

(* Mutant of receiveError: the error is logged, and fetch is not rejected. *)
receiveErrorSilently(x, d) ==
    /\ wants(x, d) /\ stream[x] = "broken"
    /\ parser' = [parser EXCEPT ![x][d].phase = "failed"]
    /\ UNCHANGED <<closed, stopped, check, clientVars, stream, handler, wire, toSend, ended, content>>

(* It rejects: no request, no response, or a body that fails. *)
receiveError(x, d) ==
    /\ wants(x, d) /\ stream[x] = "broken"
    /\ parser' = [parser EXCEPT ![x][d].phase = "failed"]
    /\ stage' = [stage EXCEPT ![x] = IF d = "res" /\ @ = "headers" THEN "rejected" ELSE @]
    /\ UNCHANGED <<closed, stopped, check, tries, aborted, stream, handler, wire, toSend, ended, content>>

Transfer(x, d) ==
    send(x, d) \/ readLine(x, d) \/ receive(x, d) \/ receiveEnd(x, d) \/ receiveError(x, d)

(* What goes on by itself. *)
Progress(x) ==
    \/ ping(x) \/ checkEnds(x) \/ dial(x) \/ responds(x) \/ dispatch(x)
    \/ \E d \in Directions : Transfer(x, d)

Exchange(x) == Progress(x) \/ respond(x) \/ breaks(x)

Next == closeServer \/ stopClient \/ \E x \in Fetches : fetch(x) \/ abort(x) \/ cancel(x) \/ Exchange(x)

Spec == Init /\ [][Next]_vars

(* What is ready runs, and what was written arrives; a fetch takes only so many steps
   by itself, so that it need not be said which of them go on first.  Nothing is assumed
   of listeners, of readers that cancel, and of failures. *)
Fairness == WF_vars(\E x \in Fetches : Progress(x))

FairSpec == Spec /\ Fairness

-----------------------------------------------------------------------------
TypeOK ==
    /\ closed \in BOOLEAN /\ stopped \in BOOLEAN
    /\ check \in [Fetches -> {"none", "open", "closed", "spin"}]
    /\ stage \in [Fetches -> {"idle", "pinging", "dialing", "headers", "resolved", "rejected"}]
    /\ tries \in [Fetches -> 0 .. Retries]
    /\ aborted \in [Fetches -> BOOLEAN]
    /\ stream \in [Fetches -> {"none", "open", "closed", "broken"}]
    /\ handler \in [Fetches -> Statuses \cup {"none", "waiting", "silent"}]
    /\ ended \in [Fetches -> [Directions -> BOOLEAN]]
    /\ parser \in [Fetches -> [Directions -> Parser]]
    /\ \A v \in {wire, toSend, content} : v \in [Fetches -> [Directions -> Seq(Symbol)]]

(* However the bytes are cut into chunks (but for a cut within CRLF), both ends
   read the start line and the headers that were written, each line for itself,
   and a body that begins where the body began. *)
HeadIntact ==
    \A x \in Fetches, d \in Directions :
        LET p == parser[x][d]
        IN  hasMime(x, d) =>
                /\ p.start = <<IF d = "req" THEN "POST" ELSE handler[x], "CR", "LF">>
                /\ p.headers = << <<"header", "CR", "LF">> >>
                /\ IsPrefix(p.body, content[x][d])

(* A message that ends without an error is whole, unless the client closed the
   stream: a reader can tell a body from one that was cut off, and no node gets
   stuck in the header loop by what it is sent. *)
EndMeansWhole ==
    \A x \in Fetches, d \in Directions :
        parser[x][d].phase \in {"done", "spin"} /\ stream[x] # "closed" =>
            parser[x][d].phase = "done" /\ parser[x][d].body = content[x][d]

(* A fetch settles once the listeners of the server have answered, unless it is
   aborted, or a node is stuck; it waits for ever only when they never do, or give
   something that is no Response. *)
FetchSettles ==
    \A x \in Fetches :
        LET unanswered == handler[x] \in {"waiting", "silent"}
        IN  stage[x] # "idle" /\ ~unanswered ~>
                stage[x] \in {"resolved", "rejected"} \/ unanswered \/ aborted[x] \/ ~client \/ ~server
=============================================================================

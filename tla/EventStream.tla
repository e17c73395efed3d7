------------------------------ MODULE EventStream ------------------------------
(***************************************************************************)
(* The way of an event from dispatchEvent on one node to the watchers of   *)
(* another: the event stream of the first (text-event-stream-body.js), the *)
(* EventSources that the second has of it (http2p-event-source.js), the    *)
(* streams of its watchers (coop-watchers.js), and stop() of either.       *)
(*                                                                         *)
(* An event is two symbols, its beginning and its end, so that a chunk may *)
(* end within an event.  What is between the two nodes is a sequence of    *)
(* symbols, each read takes a chunk from it.                               *)
(***************************************************************************)
EXTENDS Naturals, SequencesExt

CONSTANTS
    Sources,    \* the EventSources that the second node creates
    Listens,    \* the types of event that listeners are added for
    Watchers,   \* the streams that watch() returns
    Wanted,     \* the types of event that the query of a watcher accepts
    Throws,     \* the types of event that it throws for
    MaxEvents,  \* bound: how many events are dispatched
    MaxRetries, \* bound: how often sendRetry is called
    MergedReads,\* whether a chunk goes on after the end of an event
    MayFail     \* whether fetches fail and connections drop

Types == UNION {Listens[r] : r \in Sources}

ASSUME StreamAssumption ==
    /\ IsFiniteSet(Sources) /\ IsFiniteSet(Watchers)
    /\ Wanted \in [Watchers -> SUBSET Types] /\ Throws \in [Watchers -> SUBSET Types]
    /\ MaxEvents \in Nat /\ MaxRetries \in Nat
    /\ MergedReads \in BOOLEAN /\ MayFail \in BOOLEAN

VARIABLES
    queue,      \* #queue: the events dispatched so far
    closed,     \* #closed, and the fetch handler removed: stop() of the first node
    retries,    \* calls of sendRetry so far
    ctrls,      \* #controllers
    pipe,       \* the symbols on their way to an EventSource
    ended,      \* whether the stream ends after them
    due,        \* history: the events written into the stream of an EventSource
    state,      \* readyState of an EventSource, "none" before it is created
    conn,       \* its fetchUri
    remain,     \* the symbols that fetchUri keeps
    got,        \* the events that it has dispatched
    follow,     \* followCoop or connectMainnet, which creates it
    stopped,    \* stop() of the second node
    held,       \* the EventSources in watchers.eventSources and mainnetEventSources
    watching,   \* watchers.controllers
    watch,      \* the stream of a watcher
    told        \* the events written into it, with the EventSource they came by

serverVars == <<queue, closed, retries, ctrls>>
pipeVars == <<pipe, ended, due>>
sourceVars == <<state, conn, remain, got>>
watchVars == <<watching, watch, told>>
vars == <<serverVars, pipeVars, sourceVars, follow, stopped, held, watchVars>>

Events == [id: 1 .. MaxEvents, type: Types]

Retry == [id |-> 0, type |-> "retry"]

Event == Events \cup {Retry}

Symbol == [ev: Event, last: BOOLEAN]

(* messageEventToChunk *)
chunk(ev) == <<[ev |-> ev, last |-> FALSE], [ev |-> ev, last |-> TRUE]>>

Init ==
    /\ queue = << >> /\ closed = FALSE /\ retries = 0 /\ ctrls = {}
    /\ pipe = [r \in Sources |-> << >>]
    /\ ended = [r \in Sources |-> FALSE]
    /\ due = [r \in Sources |-> << >>]
    /\ state = [r \in Sources |-> "none"]
    /\ conn = [r \in Sources |-> "idle"]
    /\ remain = [r \in Sources |-> << >>]
    /\ got = [r \in Sources |-> << >>]
    /\ follow = [r \in Sources |-> "idle"]
    /\ stopped = FALSE /\ held = {}
    /\ watching = {}
    /\ watch = [w \in Watchers |-> "none"]
    /\ told = [w \in Watchers |-> << >>]

-----------------------------------------------------------------------------
(* The first node. *)

(* controller.enqueue of every controller *)
enqueue(ev) ==
    pipe' = [r \in Sources |-> IF r \in ctrls THEN pipe[r] \o chunk(ev) ELSE pipe[r]]

(* An event is told apart by its place in #queue: the code gives it no id. *)
dispatchEvent(type) ==
    LET ev == [id |-> Len(queue) + 1, type |-> type]
    IN  /\ ~closed
        /\ Len(queue) < MaxEvents
        /\ queue' = Append(queue, ev)
        /\ enqueue(ev)
        /\ due' = [r \in Sources |-> IF r \in ctrls THEN Append(due[r], ev) ELSE due[r]]
        /\ UNCHANGED <<closed, retries, ctrls, ended, sourceVars, follow, stopped, held, watchVars>>

sendRetry ==
    /\ ~closed
    /\ retries < MaxRetries
    /\ retries' = retries + 1
    /\ enqueue(Retry)
    /\ UNCHANGED <<queue, closed, ctrls, ended, due, sourceVars, follow, stopped, held, watchVars>>

(* Mutant of closeControllers: they are forgotten only. *)
forgetControllers == UNCHANGED ended

closeControllers == ended' = [r \in Sources |-> ended[r] \/ r \in ctrls]

(* Coop.stop: the handler is removed, every controller closed. *)
closeBody ==
    /\ ~closed
    /\ closed' = TRUE
    /\ closeControllers
    /\ queue' = << >>
    /\ ctrls' = {}
    /\ UNCHANGED <<retries, pipe, due, sourceVars, follow, stopped, held, watchVars>>

queued == FlattenSeq([i \in 1 .. Len(queue) |-> chunk(queue[i])])

(* Mutant of repeated: a header that is missing means from the beginning. *)
repeatedAll(lastEventId, all) == IF all \/ lastEventId \in {"", "null"} THEN queued ELSE << >>

(* What newReadableStream repeats: all, or from the first event with that id, which is
   "" for every event. *)
repeated(lastEventId, all) == IF all \/ lastEventId = "" THEN queued ELSE << >>

(* The answer to a fetch of the events: the stream, without the header LAST-EVENT-ID;
   404, which ends, after stop(). *)
serve(r) ==
    /\ conn[r] = "asked"
    /\ conn' = [conn EXCEPT ![r] = "served"]
    /\ IF closed
       THEN /\ ended' = [ended EXCEPT ![r] = TRUE]
            /\ UNCHANGED <<ctrls, pipe>>
       ELSE /\ ctrls' = ctrls \cup {r}
            /\ pipe' = [pipe EXCEPT ![r] = repeated("null", FALSE)]
            /\ UNCHANGED ended
    /\ UNCHANGED <<queue, closed, retries, due, state, remain, got, follow, stopped, held, watchVars>>

-----------------------------------------------------------------------------
(* The second node. *)

(* Of a check that goes on, also over a stop(). *)
startFollow(r) ==
    /\ follow[r] = "idle"
    /\ follow' = [follow EXCEPT ![r] = "listing"]
    /\ UNCHANGED <<serverVars, pipeVars, sourceVars, stopped, held, watchVars>>

(* The fetch of the list fails: the check is over. *)
listFails(r) ==
    /\ follow[r] = "listing" /\ MayFail
    /\ follow' = [follow EXCEPT ![r] = "idle"]
    /\ UNCHANGED <<serverVars, pipeVars, sourceVars, stopped, held, watchVars>>

(* new EventSource and watchEventSource.  After stop() its Map is a Set: set
   throws in an async function that nobody waits for, and nobody knows of the
   EventSource. *)
create(r) ==
    /\ follow[r] = "listing"
    /\ follow' = [follow EXCEPT ![r] = "waiting"]
    /\ state' = [state EXCEPT ![r] = "connecting"]
    /\ conn' = [conn EXCEPT ![r] = "asked"]
    /\ held' = IF stopped THEN held ELSE held \cup {r}
    /\ UNCHANGED <<serverVars, pipeVars, remain, got, stopped, watchVars>>

(* The polling loop finds that readyState is not CONNECTING any more. *)
followReturns(r) ==
    /\ follow[r] = "waiting"
    /\ state[r] # "connecting"
    /\ follow' = [follow EXCEPT ![r] = "done"]
    /\ UNCHANGED <<serverVars, pipeVars, sourceVars, stopped, held, watchVars>>

(* Mutant of setOpen: readyState is not set. *)
leaveState(r) == UNCHANGED state

setOpen(r) == state' = [state EXCEPT ![r] = "open"]

(* The response arrives, of whatever status: OPEN, even after close(). *)
opens(r) ==
    /\ conn[r] = "served"
    /\ conn' = [conn EXCEPT ![r] = "reading"]
    /\ setOpen(r)
    /\ UNCHANGED <<serverVars, pipeVars, remain, got, follow, stopped, held, watchVars>>

(* The fetch rejects, or was aborted: readyState stays as it is. *)
fetchFails(r) ==
    /\ conn[r] \in {"asked", "served"}
    /\ MayFail \/ state[r] = "closed"
    /\ conn' = [conn EXCEPT ![r] = "over"]
    /\ UNCHANGED <<serverVars, pipeVars, state, remain, got, follow, stopped, held, watchVars>>

(* closeEventSource, of a key that was removed; or the end of a mainnet EventSource,
   which is taken off its Map. *)
close(r) ==
    /\ r \in held
    /\ state' = [state EXCEPT ![r] = "closed"]
    /\ held' = held \/ held' = held \ {r}
    /\ UNCHANGED <<serverVars, pipeVars, conn, remain, got, follow, stopped, watchVars>>

(* How much of the pipe a read may return. *)
chunks(r) ==
    {n \in 1 .. Len(pipe[r]) : MergedReads \/ \A i \in 1 .. n - 1 : ~pipe[r][i].last}

(* Mutant of notify: the first watcher that is told is the last one. *)
notifyOne(r, ev) ==
    IF ev.type \in Listens[r]
    THEN /\ watching' = {w \in watching : ev.type \notin Throws[w]}
         /\ \/ \E w \in watching' :
                /\ ev.type \in Wanted[w]
                /\ told' = [told EXCEPT ![w] = Append(@, [by |-> r, ev |-> ev])]
            \/ /\ \A w \in watching' : ev.type \notin Wanted[w]
               /\ UNCHANGED told
    ELSE UNCHANGED <<watching, told>>

(* The event handlers of CoopWatchers: the event goes to every watcher that wants
   it; one whose query throws is dropped, and its stream left open. *)
notify(r, ev) ==
    IF ev.type \in Listens[r]
    THEN /\ watching' = {w \in watching : ev.type \notin Throws[w]}
         /\ told' = [w \in Watchers |->
                IF w \in watching' /\ ev.type \in Wanted[w]
                THEN Append(told[w], [by |-> r, ev |-> ev]) ELSE told[w]]
    ELSE UNCHANGED <<watching, told>>

(* What fetchUri does next: it goes on if readyState is OPEN. *)
goOn(r) ==
    /\ conn' = [conn EXCEPT ![r] = IF state[r] = "open" THEN @ ELSE "over"]
    /\ UNCHANGED state

end(r) ==
    /\ conn' = [conn EXCEPT ![r] = "over"]
    /\ state' = [state EXCEPT ![r] = "closed"]

(* Mutant of processEvents: what is left of an event is not kept. *)
processWhole(r, u8a) ==
    LET ends == {i \in 1 .. Len(u8a) : u8a[i].last}
    IN  /\ remain' = [remain EXCEPT ![r] = << >>]
        /\ goOn(r)
        /\ IF ends # {} /\ Len(u8a) = 2
           THEN /\ got' = [got EXCEPT ![r] = Append(@, u8a[1].ev)]
                /\ notify(r, u8a[1].ev)
           ELSE UNCHANGED <<got, watching, told>>

(* Mutant of processEvents: what was dispatched is kept. *)
processAgain(r, u8a) ==
    LET ends == {i \in 1 .. Len(u8a) : u8a[i].last}
    IN  /\ remain' = [remain EXCEPT ![r] = u8a]
        /\ goOn(r)
        /\ IF ends # {}
           THEN /\ got' = [got EXCEPT ![r] = Append(@, u8a[1].ev)]
                /\ notify(r, u8a[1].ev)
           ELSE UNCHANGED <<got, watching, told>>

(* The bytes u8a hold no whole event, and are kept; or one, which is dispatched,
   and what follows it is dropped, as retry is -1 then.  A retry has no data, and
   event.lastEventId throws.  The end of an event whose beginning was dropped is
   a message that nobody listens for, or throws as well. *)
processEvents(r, u8a) ==
    LET ends == {i \in 1 .. Len(u8a) : u8a[i].last}
        first == CHOOSE i \in ends : \A j \in ends : i <= j
        ev == u8a[first].ev
        whole == first = 2
    IN  IF ends = {}
        THEN /\ remain' = [remain EXCEPT ![r] = u8a]
             /\ goOn(r)
             /\ UNCHANGED <<got, watching, told>>
        ELSE /\ remain' = [remain EXCEPT ![r] = << >>]
             /\ \/ /\ whole /\ ev # Retry
                   /\ goOn(r)
                   /\ got' = [got EXCEPT ![r] = Append(@, ev)]
                   /\ notify(r, ev)
                \/ /\ ~whole
                   /\ goOn(r)
                   /\ UNCHANGED <<got, watching, told>>
                \/ /\ ~whole \/ ev = Retry
                   /\ end(r)
                   /\ UNCHANGED <<got, watching, told>>

(* A read returns a chunk, also the one that was pending when close() was called. *)
read(r) ==
    /\ conn[r] = "reading"
    /\ \E n \in chunks(r) :
        /\ processEvents(r, remain[r] \o SubSeq(pipe[r], 1, n))
        /\ pipe' = [pipe EXCEPT ![r] = SubSeq(@, n + 1, Len(@))]
    /\ UNCHANGED <<serverVars, ended, due, follow, stopped, held, watch>>

(* The stream ends: it was closed at either end, or the connection dropped. *)
readEnds(r) ==
    /\ conn[r] = "reading"
    /\ (ended[r] /\ pipe[r] = << >>) \/ state[r] = "closed" \/ MayFail
    /\ end(r)
    /\ UNCHANGED <<serverVars, pipeVars, remain, got, follow, stopped, held, watchVars>>

-----------------------------------------------------------------------------
(* watch(), also of a node that was stopped. *)
watchBegins(w) ==
    /\ watch[w] = "none"
    /\ watch' = [watch EXCEPT ![w] = "open"]
    /\ watching' = watching \cup {w}
    /\ UNCHANGED <<serverVars, pipeVars, sourceVars, follow, stopped, held, told>>

(* The reader of watch() is done with it. *)
watchCancelled(w) ==
    /\ watch[w] = "open"
    /\ watch' = [watch EXCEPT ![w] = "cancelled"]
    /\ watching' = watching \ {w}
    /\ UNCHANGED <<serverVars, pipeVars, sourceVars, follow, stopped, held, told>>

(* Mutant of removeWatchers: they are not taken off. *)
keepWatchers == UNCHANGED watching

removeWatchers == watching' = {}

closeWatchers == watch' = [w \in Watchers |-> IF w \in watching THEN "closed" ELSE watch[w]]

(* CoopWatchers.close: the EventSources in its Maps, and the watchers.  One that was
   taken off and opened again is not closed. *)
stop ==
    /\ ~stopped
    /\ stopped' = TRUE
    /\ state' = [r \in Sources |-> IF r \in held THEN "closed" ELSE state[r]]
    /\ held' = {}
    /\ closeWatchers
    /\ removeWatchers
    /\ UNCHANGED <<serverVars, pipeVars, conn, remain, got, follow, told>>

Next ==
    \/ \E type \in Types : dispatchEvent(type)
    \/ sendRetry \/ closeBody \/ stop
    \/ \E r \in Sources :
        \/ serve(r) \/ startFollow(r) \/ listFails(r) \/ create(r) \/ followReturns(r)
        \/ opens(r) \/ fetchFails(r) \/ close(r) \/ read(r) \/ readEnds(r)
    \/ \E w \in Watchers : watchBegins(w) \/ watchCancelled(w)

Spec == Init /\ [][Next]_vars

(* Requests are answered, callbacks that are ready run, what has arrived is read,
   and a stream that has ended is seen to end.  Nothing is assumed of failures. *)
Fairness ==
    \A r \in Sources :
        /\ WF_vars(create(r)) /\ WF_vars(serve(r)) /\ WF_vars(opens(r))
        /\ WF_vars(followReturns(r)) /\ WF_vars(read(r))
        /\ WF_vars(readEnds(r) /\ (ended[r] \/ state[r] = "closed"))

FairSpec == Spec /\ Fairness

-----------------------------------------------------------------------------
TypeOK ==
    /\ queue \in Seq(Event) /\ closed \in BOOLEAN /\ retries \in 0 .. MaxRetries
    /\ ctrls \subseteq Sources
    /\ pipe \in [Sources -> Seq(Symbol)]
    /\ ended \in [Sources -> BOOLEAN]
    /\ due \in [Sources -> Seq(Event)] /\ got \in [Sources -> Seq(Event)]
    /\ state \in [Sources -> {"none", "connecting", "open", "closed"}]
    /\ conn \in [Sources -> {"idle", "asked", "served", "reading", "over"}]
    /\ remain \in [Sources -> Seq([ev: Event, last: {FALSE}])]
    /\ follow \in [Sources -> {"idle", "listing", "waiting", "done"}]
    /\ stopped \in BOOLEAN /\ held \subseteq {r \in Sources : state[r] # "none"}
    /\ watching \subseteq Watchers
    /\ watch \in [Watchers -> {"none", "open", "cancelled", "closed"}]
    /\ told \in [Watchers -> Seq([by: Sources, ev: Event])]

(* However the bytes of the events are cut into chunks, an EventSource dispatches
   what was written into its stream: in order, each once, none left out. *)
Channel == INSTANCE EventChannel WITH Readers <- Sources

EventChannelSpec == Channel!Spec

(* An EventSource that has read all its stream has dispatched every event in it. *)
ReadMeansGot ==
    \A r \in Sources :
        state[r] = "open" /\ pipe[r] = << >> /\ remain[r] = << >> => got[r] = due[r]

(* A watcher that has ended, cancelled or by the stop of its node, is told nothing
   more, whatever EventSource is still, or only then, opened and read. *)
StoppedIsSilent ==
    [][\A w \in Watchers : watch[w] \in {"cancelled", "closed"} => told'[w] = told[w]]_vars

(* A watcher that can hear from an EventSource is told the events that are written
   into its stream, unless the stream or the watcher ends first. *)
EventTold ==
    \A r \in Sources, w \in Watchers :
      \A ev \in {e \in Events : e.type \in Wanted[w] \cap Listens[r]} :
        (/\ conn[r] = "reading" /\ state[r] = "open" /\ w \in watching
         /\ ev \in Range(due[r]) \ Range(got[r]))
        ~> (\/ conn[r] # "reading" \/ w \notin watching
            \/ [by |-> r, ev |-> ev] \in Range(told[w]))

(* Once the first node has stopped, the EventSources of it end and stay so: those
   that read it, and those that ask it only then and are answered 404. *)
StopEndsSources ==
    \A r \in Sources : closed ~> [](state[r] # "open")

(* followCoop returns, unless the fetch of the stream failed; then never. *)
FollowEnds ==
    \A r \in Sources : follow[r] = "waiting" ~>
        \/ follow[r] = "done"
        \/ state[r] = "connecting" /\ conn[r] = "over"
=============================================================================

--------------------------- MODULE LinkReplication ---------------------------
(***************************************************************************)
(* One node follows another: the owner's links (CoopLinks) reach the       *)
(* follower's replica (CoopList) by a list response and then by the events *)
(* of an EventSource.  The module composes                                 *)
(*   - followCoop and the part of checkCoop around it (coop.js),           *)
(*   - the follower's EventSources (http2p-event-source.js),               *)
(*   - the owner's event stream (text-event-stream-body.js),               *)
(*   - the follower's internal watch stream (coop-watchers.js, coop.js).   *)
(* The keys are abstracted to "shared": some key of ours is one of the     *)
(* keys last fetched from the owner.  A node may come to share a key that  *)
(* followings.put never recorded, so it may follow the same owner again.   *)
(***************************************************************************)
EXTENDS CoopLinks, CoopList

CONSTANTS
    MaxStreams, \* bound: how many EventSources the follower creates
    MaxRead     \* most events that one read of an event stream returns

ASSUME StreamAssumption == MaxStreams \in Nat /\ MaxRead \in Nat \ {0}

VARIABLES
    tracked,    \* followings.keyMap has the owner
    shared,     \* crossKeys of the keys last fetched from the owner is not empty
    step,       \* where followCoop stands; anything but "idle" is "in checkings"
    snap,       \* the list response on its way, with at: the events before it
    current,    \* watchers.eventSources.get(owner), 0 when there is none
    es,         \* the EventSources and their connections
    watchQ      \* the ReadableStream that watchLinksEvent reads

followVars == <<tracked, shared, step, snap>>
streamVars == <<current, es, watchQ>>
vars == <<linksVars, list, followVars, streamVars>>

Streams == 1 .. MaxStreams

(* state: readyState.  conn: the fetch of the event stream.  pos: the events
   before the next one to be read.  listAt, subAt (history): the events before
   the list response, and before newReadableStream added the controller. *)
EventSource == [state: {"none", "connecting", "open", "closed"},
                conn: {"idle", "asked", "served", "reading", "over"},
                pos: Nat, listAt: Nat, subAt: Nat]

NewEventSource(at) ==
    [state |-> "connecting", conn |-> "asked", pos |-> 0, listAt |-> at, subAt |-> 0]

isFollowing == tracked /\ shared

followings == IF isFollowing THEN {Owner} ELSE {}

-----------------------------------------------------------------------------
Init ==
    /\ LinksInit
    /\ ListInit
    /\ tracked = FALSE
    /\ shared = FALSE
    /\ step = "idle"
    /\ snap = [ver |-> ZeroVersion, table |-> EmptyTable, at |-> 0]
    /\ current = 0
    /\ es = [i \in Streams |-> [NewEventSource(0) EXCEPT !.state = "none", !.conn = "idle"]]
    /\ watchQ = << >>

(* checkCoop, up to the list request: not followed, not being checked, and the
   keys just fetched cross ours. *)
StartFollow ==
    /\ ~isFollowing
    /\ step = "idle"
    /\ current < MaxStreams
    /\ step' = "list"
    /\ shared' = TRUE
    /\ UNCHANGED <<linksVars, list, tracked, snap, streamVars>>

(* The owner answers with its table as it is now. *)
ServeList ==
    /\ step = "list"
    /\ step' = "listed"
    /\ snap' = [ver |-> CurrentVersion, table |-> links, at |-> Len(events)]
    /\ UNCHANGED <<linksVars, list, tracked, shared, streamVars>>

(* The fetch of the list throws: checkCoop's catch, and finally. *)
ListFails ==
    /\ step \in {"list", "listed"}
    /\ step' = "idle"
    /\ shared' = FALSE
    /\ UNCHANGED <<linksVars, list, tracked, snap, streamVars>>

(* addFromLinks, then the new EventSource, which starts to fetch /event. *)
ReceiveList ==
    /\ step = "listed"
    /\ addFromLinks(Owner, snap.table, snap.ver)
    /\ current' = current + 1
    /\ es' = [es EXCEPT ![current + 1] = NewEventSource(snap.at)]
    /\ step' = "connecting"
    /\ UNCHANGED <<linksVars, tracked, shared, snap, watchQ>>

(* The polling loop sees that the EventSource left CONNECTING; followings.put. *)
FollowReturns ==
    /\ step = "connecting"
    /\ es[current].state # "connecting"
    /\ step' = "idle"
    /\ tracked' = TRUE
    /\ UNCHANGED <<linksVars, list, shared, snap, streamVars>>

-----------------------------------------------------------------------------
(* The owner's handler calls newReadableStream: no event before it is replayed. *)
ServeEvent(i) ==
    /\ es[i].conn = "asked"
    /\ es' = [es EXCEPT ![i].conn = "served", ![i].pos = Len(events), ![i].subAt = Len(events)]
    /\ UNCHANGED <<linksVars, list, followVars, current, watchQ>>

(* The response arrives: OPEN, whatever readyState was before. *)
EventOpens(i) ==
    /\ es[i].conn = "served"
    /\ es' = [es EXCEPT ![i].conn = "reading", ![i].state = "open"]
    /\ UNCHANGED <<linksVars, list, followVars, current, watchQ>>

(* The fetch of /event rejects: fetchUri leaves readyState as it is. *)
EventFails(i) ==
    /\ es[i].conn \in {"asked", "served"}
    /\ es' = [es EXCEPT ![i].conn = "over"]
    /\ UNCHANGED <<linksVars, list, followVars, current, watchQ>>

(* processEvents on n events: it returns after the first one and drops the
   rest (its retry of -1 is truthy).  linkEventHandler enqueues the event. *)
read(i, n) ==
    /\ es[i].conn = "reading"
    /\ es[i].pos + n <= Len(events)
    /\ watchQ' = Append(watchQ, events[es[i].pos + 1])

Dispatch(i) ==
    /\ es[i].state = "open"
    /\ \E n \in 1 .. MaxRead :
        /\ read(i, n)
        /\ es' = [es EXCEPT ![i].pos = @ + n]
    /\ UNCHANGED <<linksVars, list, followVars, current>>

(* The read that was pending when close() was called still returns a chunk. *)
LateDispatch(i) ==
    /\ es[i].state = "closed"
    /\ \E n \in 1 .. MaxRead :
        /\ read(i, n)
        /\ es' = [es EXCEPT ![i].pos = @ + n, ![i].conn = "over"]
    /\ UNCHANGED <<linksVars, list, followVars, current>>

(* The connection drops, the owner closes the stream, or close() aborted it. *)
ReadEnds(i) ==
    /\ es[i].conn = "reading"
    /\ es' = [es EXCEPT ![i].conn = "over", ![i].state = "closed"]
    /\ UNCHANGED <<linksVars, list, followVars, current, watchQ>>

(* One turn of watchLinksEvent. *)
Apply ==
    /\ watchQ # << >>
    /\ updateFromEvent(Head(watchQ))
    /\ watchQ' = Tail(watchQ)
    /\ UNCHANGED <<linksVars, followVars, current, es>>

-----------------------------------------------------------------------------
(* keys.remove of the last shared key: the key-removed listener closes the
   EventSource of a detached following, and only of one in keyMap. *)
KeyRemoved ==
    /\ tracked \/ shared
    /\ shared' = FALSE
    /\ es' = IF tracked /\ current # 0
             THEN [es EXCEPT ![current].state = "closed"]
             ELSE es
    /\ UNCHANGED <<linksVars, list, tracked, step, snap, current, watchQ>>

(* keys.add of a key recorded in keyMap, or fetched by the check in progress. *)
KeyAdded ==
    /\ tracked \/ step # "idle"
    /\ ~shared
    /\ shared' = TRUE
    /\ UNCHANGED <<linksVars, list, tracked, step, snap, streamVars>>

OwnerStep ==
    /\ LinksNext
    /\ UNCHANGED <<list, followVars, streamVars>>

Next ==
    \/ OwnerStep
    \/ StartFollow \/ ServeList \/ ListFails \/ ReceiveList \/ FollowReturns
    \/ \E i \in Streams : \/ ServeEvent(i) \/ EventOpens(i) \/ EventFails(i)
                          \/ Dispatch(i) \/ LateDispatch(i) \/ ReadEnds(i)
    \/ Apply
    \/ KeyRemoved \/ KeyAdded

Spec == Init /\ [][Next]_vars

-----------------------------------------------------------------------------
TypeOK ==
    /\ LinksTypeOK
    /\ ListTypeOK
    /\ tracked \in BOOLEAN
    /\ shared \in BOOLEAN
    /\ step \in {"idle", "list", "listed", "connecting"}
    /\ snap \in [ver: Version, table: Table, at: Nat]
    /\ current \in 0 .. MaxStreams
    /\ es \in [Streams -> EventSource]
    /\ watchQ \in Seq(LinkEvent)

(* What the replica holds of the owner's slot s. *)
Held(s) ==
    IF find(Owner, s) = {} THEN [ver |-> ZeroVersion, value |-> None]
    ELSE LET p == CHOOSE q \in find(Owner, s) : TRUE
         IN  [ver |-> p.ver, value |-> p.value]

(* The replica never invents: every prop it holds is what the owner's table
   held for that slot at the version the prop carries, however list responses,
   late events and the events of several EventSources interleave. *)
ReplicaIsHistory ==
    \A p \in list :
        \E h \in history : h.ver = p.ver /\ h.table[p.slot] = p.value

(* No step takes the replica back: what it holds of a slot is replaced only by
   something newer, so late and repeated events and an old list are harmless. *)
NeverRegress ==
    [][\A p \in list : \E q \in list' :
          /\ q.coop = p.coop /\ q.slot = p.slot
          /\ q = p \/ isPast(p.ver, q.ver)]_vars

(* The slots that stream i answers for: the ones changed since the owner added
   its controller, and those the list response told of.  Not those changed in
   between; nor, when the owner was followed before, those removed before the
   list, which addFromLinks leaves as they were. *)
Covered(i) ==
    {s \in Slots :
        \/ LastChange(s) > es[i].subAt
        \/ LastChange(s) <= es[i].listAt /\ (links[s] # None \/ i = 1)}

Drained(i) ==
    /\ es[i].state = "open" /\ es[i].conn = "reading"
    /\ es[i].pos = Len(events)
    /\ watchQ = << >>

(* A follower that has read all of an open event stream agrees with the owner
   on every slot the stream answers for. *)
DrainedAgrees ==
    \A i \in Streams :
        Drained(i) => \A s \in Covered(i) : Held(s).value = links[s]

(* Following implements the abstract replica: the prop of a slot is its view. *)
Replica == INSTANCE StaleReplica WITH
    table <- links,
    view <- [s \in Slots |-> Held(s)]

StaleReplicaSpec == Replica!Spec

-----------------------------------------------------------------------------
(* coop.js:14-16 offers find for the existing uris and watch for the future
   ones.  Read as a promise about a followed owner: once an open event stream
   is drained, every link of the owner is found. *)
ExistingFound ==
    \A i \in Streams :
        (i = current /\ isFollowing /\ step = "idle" /\ Drained(i)) =>
            \A s \in Slots : links[s] # None =>
                \E p \in getProps(followings) : p.slot = s /\ p.value = links[s]
=============================================================================

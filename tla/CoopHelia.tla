------------------------------- MODULE CoopHelia -------------------------------
(***************************************************************************)
(* CoopHelia (coop-helia.js): nodes share contents of IPFS by publishing   *)
(* two links of its URI, and each follower pins what is shared and         *)
(* publishes the links again, so that they reach nodes that follow it but  *)
(* not the first one.                                                      *)
(*                                                                         *)
(* The table of links is that of CoopLinks, of the two keys; an event is   *)
(* delivered to each follower in order (EventStream).  IPFS is external:   *)
(* a content is found or not.  Nothing is pinned there: isPinned returns a *)
(* promise, and is not awaited.                                            *)
(***************************************************************************)
EXTENDS Naturals, FiniteSets, Sequences

CONSTANTS
    Nodes,
    Follows,    \* the nodes that follow each other: a set of sets of two
    Uris,       \* contents
    Types,      \* of blobs
    None,       \* no value
    Callers,    \* <<node, what>>: who makes which calls
    MaxCalls    \* how many there are

ASSUME HeliaAssumption ==
    /\ \A pair \in Follows : pair \subseteq Nodes /\ Cardinality(pair) = 2
    /\ None \notin Types \cup {"shared"} /\ "shared" \notin Types
    /\ MaxCalls \in Nat

VARIABLES
    links,      \* coop.links.links
    queue,      \* link-added events on their way to the loop of a node, from each node
    loop,       \* watchLinkAddedEvents: "reading", "pinning" or "ended"
    event,      \* the event that it handles
    stopped,    \* this.stopped
    calls       \* history: <<node, uri, value, what>>: "share", "drop" or the key that was put

vars == <<links, queue, loop, event, stopped, calls>>

(* The keys: "coop:ipfs" and "content-type". *)
Keys == {"ipfs", "type"}
Values == Types \cup {"shared"}
Events == [uri: Uris, key: Keys, value: Values]
Tables == [Uris -> [Keys -> Values \cup {None}]]

NoEvent == [uri |-> None, key |-> None, value |-> None]
link(uri, key, value) == [uri |-> uri, key |-> key, value |-> value]

Init ==
    /\ links = [n \in Nodes |-> [uri \in Uris |-> [key \in Keys |-> None]]]
    /\ queue = [n \in Nodes |-> [m \in Nodes |-> << >>]]
    /\ loop = [n \in Nodes |-> "reading"]
    /\ event = [n \in Nodes |-> NoEvent]
    /\ stopped = [n \in Nodes |-> FALSE]
    /\ calls = {}

-----------------------------------------------------------------------------
(* Mutant of isNew: every link is one. *)
isAny(table, l) == TRUE

(* CoopLinks.add returns early when the link is there. *)
isNew(table, l) == table[l.uri][l.key] # l.value

(* A table with a link, and the events of it: none when the link was there. *)
with(table, l) == [table EXCEPT ![l.uri][l.key] = l.value]
events(table, l) == IF isNew(table, l) THEN <<l>> ELSE << >>

(* The links of n are those of table; its followers get the events while they watch.
   rest is the queues before. *)
publish(n, table, new, rest) ==
    /\ links' = [links EXCEPT ![n] = table]
    /\ queue' = [m \in Nodes |->
                    IF {n, m} \in Follows /\ loop[m] # "ended"
                    THEN [rest[m] EXCEPT ![n] = @ \o new] ELSE rest[m]]

add(n, l, rest) == publish(n, with(links[n], l), events(links[n], l), rest)

(* CoopLinks.add of two links, of different keys, in turn. *)
addBoth(n, ls) ==
    LET table == with(links[n], ls[1])
    IN  publish(n, with(table, ls[2]), events(links[n], ls[1]) \o events(table, ls[2]), queue)

-----------------------------------------------------------------------------
(* Mutant of sharedLinks: the type goes first. *)
typeFirst(uri, type) == <<link(uri, "type", type), link(uri, "ipfs", "shared")>>

sharedLinks(uri, type) == <<link(uri, "ipfs", "shared"), link(uri, "type", type)>>

(* The application of a caller calls: once, when it takes something back. *)
called(n, uri, value, what) ==
    /\ Cardinality(calls) < MaxCalls /\ <<n, what>> \in Callers
    /\ what \in {"drop", "ipfs"} => <<n, uri, value, what>> \notin calls
    /\ calls' = calls \cup {<<n, uri, value, what>>}
    /\ UNCHANGED <<loop, event, stopped>>

(* The content is in IPFS: coop.put of its two links. *)
share(n, uri, type) ==
    /\ called(n, uri, type, "share")
    /\ addBoth(n, sharedLinks(uri, type))

(* coop.put by the application, which does not share the content: of a type, or of a
   "coop:ipfs" that is not "shared". *)
put(n, uri, key, value) ==
    /\ called(n, uri, value, key)
    /\ add(n, link(uri, key, value), queue)

(* coop.drop: "link-removed" is an event that no loop asks for. *)
drop(n, uri, key) ==
    /\ called(n, uri, key, "drop")
    /\ links' = [links EXCEPT ![n][uri][key] = None]
    /\ UNCHANGED queue

(* Mutant of isShared: whatever the URI. *)
isAnything(table, uri) == TRUE

isShared(table, uri) == table[uri]["ipfs"] = "shared"

list(n) == {uri \in Uris : isShared(links[n], uri)}

saysShared(l) == l.key = "ipfs" /\ l.value = "shared"

(* The loop reads an event of m: "shared" is published, and the content is looked up
   next; another link is published when its URI is shared. *)
watch(n, m) ==
    LET l == Head(queue[n][m])
        rest == [queue EXCEPT ![n][m] = Tail(@)]
    IN  /\ loop[n] = "reading" /\ queue[n][m] # << >>
        /\ IF saysShared(l) \/ isShared(links[n], l.uri) THEN add(n, l, rest)
           ELSE publish(n, links[n], << >>, rest)
        /\ IF saysShared(l)
           THEN /\ loop' = [loop EXCEPT ![n] = "pinning"]
                /\ event' = [event EXCEPT ![n] = l]
           ELSE UNCHANGED <<loop, event>>
        /\ UNCHANGED <<stopped, calls>>

(* Mutant of afterPin: stopped is not asked. *)
readsOn(n) == "reading"

afterPin(n) == IF stopped[n] THEN "ended" ELSE "reading"

(* heliaPin returns: isShared is asked of the same event, whose link is added again;
   then stopped is asked. *)
pinned(n) ==
    /\ loop[n] = "pinning"
    /\ LET rest == IF afterPin(n) = "ended" THEN [queue EXCEPT ![n] = [m \in Nodes |-> << >>]] ELSE queue
       IN  IF isShared(links[n], event[n].uri) THEN add(n, event[n], rest)
           ELSE publish(n, links[n], << >>, rest)
    /\ loop' = [loop EXCEPT ![n] = afterPin(n)]
    /\ event' = [event EXCEPT ![n] = NoEvent]
    /\ UNCHANGED <<stopped, calls>>

(* The loop ends: nothing is watched any more. *)
ends(n) ==
    /\ loop' = [loop EXCEPT ![n] = "ended"]
    /\ event' = [event EXCEPT ![n] = NoEvent]
    /\ queue' = [queue EXCEPT ![n] = [m \in Nodes |-> << >>]]

(* heliaPin rejects: no block of the content is found. *)
pinFails(n) ==
    /\ loop[n] = "pinning"
    /\ ends(n)
    /\ UNCHANGED <<links, stopped, calls>>

(* stop(): the race ends the loop at once, when it reads. *)
stop(n) ==
    /\ ~stopped[n]
    /\ stopped' = [stopped EXCEPT ![n] = TRUE]
    /\ IF loop[n] = "reading" THEN ends(n) ELSE UNCHANGED <<loop, event, queue>>
    /\ UNCHANGED <<links, calls>>

Next ==
    \E n \in Nodes :
        \/ \E uri \in Uris, type \in Types : share(n, uri, type)
        \/ \E uri \in Uris, key \in Keys :
              drop(n, uri, key) \/ \E value \in Types : put(n, uri, key, value)
        \/ \E m \in Nodes : watch(n, m)
        \/ pinned(n) \/ pinFails(n) \/ stop(n)

(* The loop goes on while there are events; a content is found, or the lookup fails. *)
Fairness ==
    \A n \in Nodes :
        /\ \A m \in Nodes : WF_vars(watch(n, m))
        /\ WF_vars(pinned(n) \/ pinFails(n))

Spec == Init /\ [][Next]_vars /\ Fairness

-----------------------------------------------------------------------------
TypeOK ==
    /\ links \in [Nodes -> Tables]
    /\ queue \in [Nodes -> [Nodes -> Seq(Events)]]
    /\ loop \in [Nodes -> {"reading", "pinning", "ended"}]
    /\ event \in [Nodes -> Events \cup {NoEvent}]
    /\ \A n \in Nodes : loop[n] = "pinning" <=> event[n] # NoEvent
    /\ stopped \in [Nodes -> BOOLEAN]
    /\ \A n \in Nodes : stopped[n] => loop[n] # "reading"

(* A node publishes by itself only what was shared by a node: a type that an
   application put on a content is not spread until the content is shared, and is
   there without that only when someone took the sharing back. *)
OnlySharedSpreads ==
    \A n \in Nodes, uri \in Uris :
        LET own == {call \in calls : call[1] = n /\ call[2] = uri}
        IN  own = {} /\ links[n][uri]["type"] # None =>
                /\ \E call \in calls : call[2] = uri /\ call[4] = "share"
                /\ uri \in list(n) \/ \E call \in calls : call[2] = uri /\ call[4] = "ipfs"

(* What one node shares, all nodes share with its type, whoever they follow, unless
   a link of it is put or dropped by other calls, the type is disputed, or a loop has
   ended. *)
ShareSpreads ==
    \A n \in Nodes, uri \in Uris, type \in Types :
        <<n, uri, type, "share">> \in calls ~>
            \/ \A m \in Nodes : uri \in list(m) /\ links[m][uri]["type"] = type
            \/ \E call \in calls : call[2] = uri /\ (call[3] # type \/ call[4] # "share")
            \/ \E m \in Nodes : loop[m] = "ended"

(* Links are disputed when two calls put different values, or one says that a content
   is not shared. *)
Disputed ==
    LET puts == {call \in calls : call[4] # "drop"}
    IN  \/ \E call \in puts : call[4] = "ipfs"
        \/ \E call1, call2 \in puts : call1[2] = call2[2] /\ call1[3] # call2[3]

(* A link that comes back to where it came from is not published again, unless it was
   dropped meanwhile: what nodes tell each other about a content comes to an end, when
   no link is disputed. *)
EchoEnds ==
    (\E n, m \in Nodes : queue[n][m] # << >>) ~>
        \/ \A n, m \in Nodes : queue[n][m] = << >>
        \/ Disputed
=============================================================================

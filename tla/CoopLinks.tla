------------------------------ MODULE CoopLinks ------------------------------
(***************************************************************************)
(* coop-links.js: the table of links one node publishes.  Every effective  *)
(* change stamps a new version, and dispatches one event that is appended  *)
(* to the queue of the node's TextEventStreamBody.                         *)
(***************************************************************************)
EXTENDS LinkVersion, Sequences

CONSTANTS
    Owner,      \* this.coop.uri
    MaxTime,    \* bound: the last second of the wall clock
    MaxEvents   \* bound: how many changes are made

ASSUME OwnerAssumption == Owner \in Coops
ASSUME BoundsAssumption == MaxTime \in Nat /\ MaxEvents \in Nat

VARIABLES
    links,          \* the table
    lastModified,   \* second of the last change, 0 for new Date(0)
    clock,          \* counter of the changes made in that second
    now,            \* wall clock, in seconds
    events,         \* the events dispatched so far: TextEventStreamBody's #queue
    history         \* history variable: every (version, table) the node has published

linksVars == <<links, lastModified, clock, now, events, history>>

LinkEvent == [type: {"link-added", "link-removed"}, coop: Coops, slot: Slots,
              value: Values, ver: Version]

Snapshot == [ver: Version, table: Table]

CurrentVersion == [time |-> lastModified, clock |-> clock]

Current == [ver |-> CurrentVersion, table |-> links]

-----------------------------------------------------------------------------
LinksInit ==
    /\ links = EmptyTable
    /\ lastModified = 0
    /\ clock = 0
    /\ now = 1
    /\ events = << >>
    /\ history = {Current}

(* Mutant of updateLastModified: the clock is never counted up. *)
updateWithoutCount ==
    /\ clock' = 0
    /\ lastModified' = now
    /\ UNCHANGED now

(* Mutant of updateLastModified: the branches are swapped. *)
updateSwapped ==
    /\ clock' = IF now = lastModified THEN 0 ELSE clock + 1
    /\ lastModified' = now
    /\ UNCHANGED now

(* Two changes in one second differ in the clock, a later second restarts it. *)
updateLastModified ==
    /\ clock' = IF now = lastModified THEN clock + 1 ELSE 0
    /\ lastModified' = now
    /\ UNCHANGED now

(* Mutant of publish: the event carries the version before the update. *)
publishOldVersion(type, s, v) ==
    /\ updateLastModified
    /\ events' = Append(events, [type |-> type, coop |-> Owner, slot |-> s,
                                 value |-> v, ver |-> CurrentVersion])
    /\ history' = history \cup {Current'}

(* The new version and table, and the event that announces it. *)
publish(type, s, v) ==
    /\ updateLastModified
    /\ events' = Append(events, [type |-> type, coop |-> Owner, slot |-> s,
                                 value |-> v, ver |-> CurrentVersion'])
    /\ history' = history \cup {Current'}

(* CoopLinks.add, and each turn of the loop of put. *)
add(s, v) ==
    /\ Len(events) < MaxEvents
    /\ links[s] # v
    /\ links' = [links EXCEPT ![s] = v]
    /\ publish("link-added", s, v)

(* Mutant of remove: nothing is announced. *)
removeSilently(s) ==
    /\ Len(events) < MaxEvents
    /\ links[s] # None
    /\ links' = [links EXCEPT ![s] = None]
    /\ updateLastModified
    /\ history' = history \cup {Current'}
    /\ UNCHANGED events

(* Mutant of remove: lastModified and clock are not updated, as in CoopKeys.remove. *)
removeWithoutUpdate(s) ==
    /\ Len(events) < MaxEvents
    /\ links[s] # None
    /\ links' = [links EXCEPT ![s] = None]
    /\ UNCHANGED <<lastModified, clock, now>>
    /\ events' = Append(events, [type |-> "link-removed", coop |-> Owner, slot |-> s,
                                 value |-> links[s], ver |-> CurrentVersion])
    /\ history' = history \cup {Current'}

(* CoopLinks.remove, and each turn of the loop of drop. *)
remove(s) ==
    /\ Len(events) < MaxEvents
    /\ links[s] # None
    /\ links' = [links EXCEPT ![s] = None]
    /\ publish("link-removed", s, links[s])

(* The wall clock, which new Date() reads, moves to the next second. *)
Tick ==
    /\ now < MaxTime
    /\ now' = now + 1
    /\ UNCHANGED <<links, lastModified, clock, events, history>>

LinksNext ==
    \/ \E s \in Slots, v \in Values : add(s, v)
    \/ \E s \in Slots : remove(s)
    \/ Tick

LinksSpec == LinksInit /\ [][LinksNext]_linksVars

-----------------------------------------------------------------------------
LinksTypeOK ==
    /\ links \in Table
    /\ lastModified \in Nat
    /\ clock \in Nat
    /\ now \in Nat \ {0}
    /\ events \in Seq(LinkEvent)
    /\ history \subseteq Snapshot

(* A version names one table: the replicas drop whatever is not newer than
   what they hold, so updates of the same second that shared a version would
   be lost for good (updateLastModified, coop-links.js). *)
VersionNamesTable ==
    \A g, h \in history : g.ver = h.ver => g.table = h.table

(* Events are dispatched in the order of their versions: each event is newer
   than every event before it, whatever seconds they fall in. *)
EventsOrdered ==
    \A i, j \in 1 .. Len(events) : i < j => isPast(events[i].ver, events[j].ver)

LastChange(s) ==
    LET changes == {i \in 1 .. Len(events) : events[i].slot = s}
    IN  IF changes = {} THEN 0
        ELSE CHOOSE i \in changes : \A j \in changes : j <= i

(* The event stream tells the whole story: a reader of all the events knows
   the table without ever asking for the list (add and remove dispatch for
   every change of the table and for nothing else). *)
EventsReplay ==
    \A s \in Slots :
        LET i == LastChange(s)
        IN  links[s] = IF i = 0 \/ events[i].type = "link-removed"
                       THEN None ELSE events[i].value
=============================================================================

# http2p in TLA+

http2p runs HTTP requests over libp2p streams. On top of it, *coop* lets nodes
publish links (properties of URIs), find each other, and follow each other's
links; a gateway, a discovery and a sharing of IPFS contents are clients of the
two. This directory models `closable-stream.js`, `http2p.js`, the event stream
(`text-event-stream-body.js`, `http2p-event-source.js`), the coop (`coop*.js`) and
what the gateway and the discovery do with a fetch. TLC checks small instances of
the models; TLAPS proves the theorems of the modules named `*Proofs` for every
value of the constants.

## The system

| Component | State | Operations | Interacts with |
|---|---|---|---|
| `ClosableStream` (closable-stream.js) | two queues, the loops `reading` and `writing`, three flags | source, sink, closeRead, closeWrite | a libp2p stream below, and the same wrapper at its other end |
| `Http2p` (http2p.js) | listeners of the scope; per fetch a stream and a reader of lines | fetch, ping, the protocol handler, respondWith, close | libp2p; whoever listens for fetch events |
| `TextEventStreamBody` (text-event-stream-body.js) | queue, controllers, closed | dispatchEvent, sendRetry, newReadableStream, close | one body per node, one stream per reader |
| `EventSource` (http2p-event-source.js) | readyState, the bytes that remain | fetchUri, close | a streaming fetch |
| `CoopLinks` (coop-links.js) | `links`, `lastModified`, `clock` | put, drop, list response | announces every change through the node's event stream |
| `CoopList` (coop-list.js) | `list`: props of (owner, uri, key) with a version | addFromLinks, updateFromEvent, getProps, find | fed by list responses and by the watch loop; reads followings |
| `CoopKeys`, `CoopCache` (coop-keys.js, coop-cache.js) | `keys`; responses of others for 60 s | add, remove, fetch | announces key-added, key-removed |
| `CoopFollowings` (coop-followings.js) | `keyMap`, `timeMap` | put, isFollowing, detachingFollowings | announces coop-detected |
| `CoopWatchers` (coop-watchers.js) | event sources, mainnet event sources, watch streams | watchEventSource, watch, close | hands remote events to the loops of coop.js |
| `Coop` (coop.js) | `checkings`, `keyAddedDataCache` | the request handler, checkCoop, followCoop, connectMainnet, four event loops, the key-removed listener, stop | everything above |
| `CoopHelia` (coop-helia.js) | the loop over link-added events, `stopped` | share, put, list, get, stop | reads and writes the links of a coop; IPFS |
| `CoopMdns` (coop-mdns.js) | an AbortController | the serviceUp handler, stop | dials, then a fetch |
| Gateway (gateway-http2p.js, create-gateway-servers*.js) | web requests under way | the listener, stop of a node | a fetch per web request |
| browser bundles, examples, tests | - | - | clients of the above |

A node is one event loop. Every `await` is a point where handlers, watch loops
and polling loops of the same node interleave, and between nodes there are
requests (which may fail) and streams (which may end at any time). What is hard:

* bytes arrive in chunks that have nothing to do with lines or events;
* a stream has two directions and two ends, and each of the four finishes,
  is closed, or breaks by itself, while the notices of it are on their way;
* a fetch passes through pings, a dial, a request, a listener and a response, and
  may be aborted, cancelled or broken at each of them;
* a follower learns the links of an owner from *two* sources, a list response and
  an event stream, that are requested one after the other;
* versions have whole seconds and a counter, so two changes of one second differ
  by the counter only;
* checks of other nodes cause requests, and every request causes a check back;
* the decision to follow compares keys that were fetched or cached earlier with
  keys of this moment;
* announcements (coop-detected, key-added, mainnet-connected) reach whoever is
  listening at that moment, and nobody else;
* nodes that follow each other publish again what they hear.

What should be right: streams deliver in order and end only when they are whole;
who asks and is answered settles; events are told once and in order; versions name
tables; the replica is some past state of the owner, never goes back, and catches
up with what the open stream covers; checks end; following is mutual and only
between nodes that share a key; a shared content spreads and its echo ends.

## The modules

| Module | Models | State and actions |
|---|---|---|
| `ClosableStream` | closable-stream.js, both ends of one stream | the queues, the loops, the flags; `write`, `receive`, `receiveEnd`, `iterate`, `next`, `leave`, `closeRead`, `closeWrite`, and `breaks` of the stream below |
| `Http2p` | http2p.js: a fetch from its ping to the end of its bodies | `stage` of the client, `handler` of the server, and per direction `wire`, `toSend` and `parser` (sourceToMime and the body); `Exchange` is the union of the steps of one fetch |
| `Http2pClients` | the callers of fetch: an application, the gateway, the discovery | extends `Http2p`; `listener`, `writeHead`, `writeBody`; `serviceUp`, `dialAddress`, `stopMdns` |
| `EventChannel` | what an event stream promises | abstract: events are written into a channel per reader, and received |
| `EventStream` | text-event-stream-body.js, http2p-event-source.js, the handlers and streams of coop-watchers.js, followCoop around them, stop of either node | the server's queue and controllers, a pipe per EventSource, its readyState and fetch, the watchers |
| `LinkVersion` | the data of links and the order of versions | `isPast` |
| `CoopLinks` | coop-links.js, dispatchEvent | `links`, `lastModified`, `clock`, `events` (the queue), `now` (the wall clock), `history`; `add`, `remove`, `Tick` |
| `CoopList` | coop-list.js | `list`; `addFromLinks`, `updateFromEvent`, `getProps` |
| `CoopListMerge` | a replica to which anything may arrive in any order | adds `received`; `ReceiveLinks`, `ReceiveEvent` |
| `LinkReplication` | one follower and one owner: followCoop, the event stream, watchLinksEvent, detaching | composes `CoopLinks` and `CoopList`; the follow (`StartFollow` ... `FollowReturns`), the streams (`ServeEvent` ... `ReadEnds`), `Apply`, `KeyRemoved`, `KeyAdded` |
| `StaleReplica` | what following promises | abstract: `Change`, `Refresh` |
| `CoopMesh` | who checks, follows and announces whom: checkCoop, connectMainnet, keys.add, keys.remove, keys.fetch and its cache, three watch loops | one action per step between two awaits, per pair of nodes |
| `CoopHelia` | coop-helia.js on several nodes | the two links of a content per node, the events on their way, the loop; `share`, `put`, `watch`, `pinned`, `pinFails`, `stop` |
| `MC...` | instances for TLC | |
| `CoopLinksProofs`, `CoopListMergeProofs`, `LinkReplicationProofs`, `CoopMeshProofs`, `ClosableStreamProofs`, `EventStreamProofs`, `Http2pProofs`, `CoopHeliaProofs` | theorems and their proofs, about the module each is named after (`Http2pProofs`: about `Http2pClients` too) | |

`LinkReplication` takes the event stream as a sequence of whole events that is read
in steps; `EventStream` looks inside it, for events of any type, and shows that
this is what it is as long as a chunk holds no two ends of events (`EventChannel`
is what both rely on). `CoopMesh` leaves links to the first and what an EventSource
does after `close()` to the second. `CoopHelia` relies on links that reach the
followers in order.

### Abstractions

Links: a slot is a (uri, key) pair. A time is a whole second, as `toUTCString`
leaves of it; second 0 is `new Date(0)`. A prop without a value holds `None`. In
`LinkReplication` the keys are one flag, `shared`: some key of ours is one of the
keys last fetched; it may be set again by keys.add, and by a new check while
nothing was recorded. An EventSource has its readyState and, apart from it, the
state of its fetch (`conn`), because the code lets them disagree: a closed
EventSource becomes open when its response arrives. `pos` is the position in the
owner's events that the reader of the stream has reached; `listAt` and `subAt`
are history.

`EventStream`: an event is two symbols, its beginning and its end, so a chunk may
end within it; the fields between them are left out. `due`, `got` and `told` are
histories of what was written, dispatched and handed to watchers; the number of an
event in them is its place in the queue, which the code needs no id for. `held` are
the EventSources in the maps of the watchers, which are those that stop() closes: one
that was taken off (coop.js:203) and opens again stays open. `repeated` is what
newReadableStream repeats for its two options; nobody passes `all`, and the
`Last-Event-ID` that the coop passes on is `null`, which is no event's.

`Http2p`: a message is a sequence of symbols: a start line and one header line,
each a word, CR and LF, an empty line, and the body in `Pieces`, which may be any
symbols, CR and LF among them. The libp2p stream is
external: it delivers in order, in chunks of any size, and may break. A ping opens
a stream at the server too (`check`), which carries nothing and stays open. What
libp2p.stop() does to streams is not known from this repository (its lock file has
libp2p 0.46.11), so `stopClient` either closes them all, which the other node cannot
tell from an end, or breaks them all. When it closes them, the server gets stuck in the
header loop of each ping (`checkEnds`), and the stopped gateway may hand on a body that
was cut off as if it were whole.
`ClosableStream`: a payload is a value, or one of the two notices; the two ends are the
two nodes of one stream, each with one reader and one iterable. `readme.md:19` of the
sources says that `http2p.js` depends on `closable-stream.js`; at this commit it does
not import it, so `Http2p` is not built on `ClosableStream`.

`CoopMesh`: a check is a record of where checkCoop stands and of the keys it
fetched; the keys that checkCoop compares with its own are those, and its own keys
are read when it decides. A cached response is a set with one element, none is the
empty set; an answer that is not 200 is cached, too (`NotCoop`), and makes the checks of
the next minute fail. `EventFails` is a fetch of `/event` that is rejected, after its
request was handled or before; the EventSource is never connected then (`failed`), and
who waits for it waits for ever. `begin` is checkCoop up to its first await, which runs inside whatever
calls it, among others in the handler of *every* request: `FetchKeys`, `FetchList`,
`FetchEvent` and `FetchMainnetEvent` all contain it. `gone` is history: the keys a
node has removed.

`CoopHelia`: the table is the two links, `coop:ipfs` and `content-type`, of each
content; `share` adds both in turn (`addBoth`), `put` one of them, and every change is
told to the followers (`publish`). A `coop:ipfs` that is not "shared" is one of `Types`.
`drop` takes one of them away, on its node only: no loop asks for `link-removed`. After
either, `isShared` is false again, also for a pin that is under way.
IPFS is external: a lookup finds a content or fails. `isPinned` is not awaited in
the code (coop-helia.js:40), so its promise is true and nothing is pinned; the
model pins nothing. `calls` is history.

Each module that is mutated holds its mutants beside the definition they are of,
under a comment that says what they get wrong. They are used by no specification.

## What TLC checks

| Run | Bounds | Shows |
|---|---|---|
| `merge` | 2 owners, 2 slots, versions of 2 seconds and 2 counts, 4 facts | `LastWriterWins`: the replica is exactly the newest facts received, so order and repetition do not matter |
| `replication` | 2 slots, 2 follows, 3 changes in 2 seconds; symmetric slots | `VersionNamesTable`, `EventsOrdered`, `EventsReplay` of the owner; `ReplicaIsHistory`, `NeverRegress`, `DrainedAgrees` of the replica, and `StaleReplicaSpec`, the refinement of `StaleReplica` |
| `mesh_meet` | 3 nodes, 2 of them with a key meet the third, which has it or not | `FollowIsMutual`, `Introduced`, `MainnetIntroduces`, and `ChecksEnd`: the "check loop" of coop.js:60 stops |
| `mesh_pair` | 2 nodes, 2 keys added late by one, one removed by the other, failures, one expiry | `FollowSharesKey`, `FollowLeavesMainnet`, `FollowHasStream` |
| `stream` | 1 EventSource, 2 watchers, 2 events and a retry; failures, stops of both nodes | `EventChannelSpec`, the refinement of `EventChannel`, and `ReadMeansGot`: events are dispatched once, in order, completely; `StoppedIsSilent`, `EventTold`, `StopEndsSources`, `FollowEnds` |
| `closable` | 2 ends, one sends 2 values or closes, the other may break off; the stream may break | `DataInOrder`, `EndMeansAll`, `CloseReadTold`, `BothFinishedEnds` |
| `http2p` | 1 fetch of each kind of caller, or a web request beside a fetch that gets its node stuck; a body in up to 2 pieces, 1 repeated ping, 2 addresses | `HeadIntact`, `EndMeansWhole`, `FetchSettles`; `WebEndsWhole`, `WebAnswered` of the gateway |
| `helia` | 3 nodes in a line, 1 content, 3 calls: the ends share, the middle puts a type, one end and the middle drop | `OnlySharedSpreads`, `ShareSpreads`, `EchoEnds` |
| `replication_existing` | 1 slot, 1 follow, 1 change | violated: `ExistingFound` |
| `stream_merged` | 2 events, a chunk may hold two | violated: `ReadMeansGot` |
| `mesh_latekeys` | 2 nodes that add the same key | violated: `FollowIsMutual` |
| `mesh_mainnets` | 2 nodes, one with a named mainnet | violated: `MainnetsApart` |

Each module has one type invariant, `TypeOK` (`MergeTypeOK`), in the run of it.

### Why the bounds are enough

* Replication: two changes of one slot in one second, a removal and an addition,
  and a change of another slot in between need three changes and two slots. A
  second follow is needed for a stream that outlives its follow, for a list
  response older than what the replica has, and for a slot removed in between; a
  third repeats the second. Two facts of one slot, one of the same slot of another
  owner and one of another slot need four facts.
* Mesh: three nodes are the fewest with an introduction.
* Stream: the second event is the one that is lost, swapped or repeated with the
  first; the retry takes its place between them. EventSources share nothing but
  the watchers and the end of the server, and each has a queue of its own there,
  so a second one repeats the first. One watcher may throw, the other wants other
  types.
* Closable: the wrapper has no state that counts values; two are enough for an
  order, and for a notice between them.
* Http2p: fetches share only the two nodes, which are up, stopped or stuck. Two pieces
  of body, two lines of head and an empty line, cut anywhere, have every kind of chunk:
  within a word, at a line's end, over the end of the head, and within the body. The
  action constraint `Bounded` keeps what would only multiply apart: the messages of the
  discovery are not cut, and the gateway alone has streams that break and stop(). A second
  fetch of the same node matters for what it does to the node: beside an answered web
  request, whose messages are not cut then, it is aborted in the head of its response,
  and its client gets stuck in the header loop, with the web request at any of its
  steps after the answer.
* Helia: in a line of three the middle node passes on; three calls are two shares
  that meet and a put before them or a drop after them. No node of the instance puts a
  `coop:ipfs` that is not "shared": about that two nodes would tell each other for ever
  (`Disputed`), in queues that grow. The theorems cover it.

`MaxRead` (of `LinkReplication`) and `MergedReads` (of `EventStream`) say whether one
read may return more than one event. When it may, `processEvents` gives up after the
first one (`stream_merged`) and the replica does not agree with the owner.
`NeverRegress`, `ReplicaIsHistory` and the refinement hold for every `MaxRead`,
by the proofs. `SplitCRLF` says whether a chunk may end between CR and LF: `http2p`
is checked without, because `readLine` overlooks such a line end (hazard at
http2p.js:2); both ends of this library write a head as one piece, and libp2p is
assumed not to cut it there.

Bounds that are in the guards, and no part of the code: `MaxEvents`, `MaxRetries`,
`MaxTime`, `MaxStreams`, `MaxReceived`, `MaxExpiries`, `MaxData`, `MaxCalls`,
`Contacts`, `LateKeys`, `GoneKeys` (who removes a key, for good), `Leavers`,
`Closers` and `Callers`. `Retries` and `Addresses` are parameters of the code. The deadlock
check is off wherever the bounds, or a node that is stopped, let a run end; `merge`
has it on. Slots are symmetric in `replication`, whose temporal properties are safety
properties of single steps and insensitive to the names of slots; no run with
fairness uses symmetry.

### What some properties leave out

`DrainedAgrees` speaks of the slots an open stream answers for (`Covered`): the
ones changed after the owner added the stream's controller, and those the list
told of. It leaves out two things the code does: changes between the list and the
subscription are lost (`replication_existing`), and a slot that was removed while
the owner was not followed stays in the replica, as `addFromLinks` removes nothing.

`Introduced` and `MainnetIntroduces` ask that the one to be told has its stream
open in time. Without that, two nodes that meet a hub at the same moment are not
introduced: the hub announces each of them before the other's stream is open.

`FollowSharesKey` compares with the keys that the followed node has *or had*: a node
that removes a key stops following at once, but is followed on by those that know its
key. `FollowLeavesMainnet` is about nodes that have removed no key.

`CloseReadTold` stops at an end whose source has finished, where the notice is
dropped (closable-stream.js:63); `BothFinishedEnds` needs a reader that does not break
off. `EventTold` leaves out watchers whose query threw. `FetchSettles` leaves out
fetches that are aborted, fetches that get no answer or none that is a Response,
and nodes that are busy for ever in the header loop; so does `WebAnswered`, whose node
another fetch may have got stuck. `EndMeansWhole` leaves out streams that the client
closes, and `WebEndsWhole` those that stop() of the gateway closes.

`OnlySharedSpreads` lets a type stay where its content was shared and the sharing was
taken back by a put. `ShareSpreads` leaves out contents that other calls are about, and
`EchoEnds` those whose links are disputed.

### Fairness

`CoopMesh`: requests are answered, events arrive, and callbacks that are ready run.
It is one condition for all of them, which is weaker than one per node: it does not
say which goes on first. That is enough, since the checks end. Nothing is assumed of
contacts, new or removed keys, expiry and failures; `mesh_meet` has no failures.

`EventStream`: for each EventSource, followCoop goes on, its request is served and
answered, what has arrived is read, and an ended stream is seen to end. Nothing is
assumed of events, retries, watchers, stops and failures. A fetch of `/event` may
fail, after which readyState is CONNECTING for ever; `FollowEnds` says that this
is the only way for a follow not to end.

`ClosableStream`: the two loops of each end run, and a reader that has not left
reads on. Nothing is assumed of iterables, calls and breaks.

`Http2p`, `Http2pClients`: the steps that a fetch takes by itself (`Progress`) are
finitely many, so one condition for all fetches is enough; the gateway writes on. Nothing
is assumed of listeners, readers that cancel, aborts, stops and failures.

`CoopHelia`: a loop takes the events that have arrived, and a lookup is over at some
time, with or without a content. Nothing is assumed of calls and stops.

`LinkReplication` has no fairness: its liveness is that of `EventStream`.

## What is proved

Every invariant and every action property that a run checks, and the two
refinements, is a theorem; TLC shows it on a small instance, the proof for any
constants that satisfy the assumptions of the modules (`NoneAssumption`,
`OwnerAssumption`, `BoundsAssumption`, `StreamAssumption`, `MergeAssumption`,
`MeshAssumption`, `EndsAssumption`, `FetchAssumption`, `AddressAssumption`,
`HeliaAssumption`). They say that the bounds are numbers, that `None` is not a value,
and that there are finitely many EventSources and watchers and two ends of a stream;
slots, values, coops, keys, nodes and fetches may be infinite sets.

* `CoopLinksProofs`: `LinksTypeCorrect`, `VersionsNameTables`, `EventsAreOrdered`,
  `EventsReplayTable`. The invariant `LinksInv` adds to the three that every
  published version is at most the current one, and that the current pair is in
  `history`: a new version is newer than the current one (`UpdateIsNewer`, which
  needs that `lastModified` is not in the future), hence than all of them.
  `EventsReplayTable` uses a second invariant about the last event of each slot.
* `CoopListMergeProofs`: `MergeTypeCorrect`, `MergeIsLastWriterWins`. The invariant is
  the property, the types, that facts do not contradict each other, and that the list
  has one prop per slot; `store` is taken apart once (`StoreKeepsMergeInv`).
* `LinkReplicationProofs`: `TypeCorrect`, `ReplicaWithinHistory`,
  `NeverRegresses`, `ReplicationRefines`. `IInv` is needed because the property
  alone is not inductive: it adds that everything on its way to the replica - the
  list response, the events of the owner, the watch stream - is a state of the
  history, and that a slot has one prop. `ReplicationRefines` maps `add` and
  `remove` to `Change`, `ReceiveList` and `Apply` to `Refresh`, and every other
  step to a stutter.
* `DrainedReplicaAgrees`, in the same module, under `MaxRead = 1`. `DInv` adds to
  `IInv`, of the owner, that whatever it published since the last change of a slot holds
  the value that the slot has (`HistorySettles`); of each EventSource, that the events
  it has passed since its subscription are in the watch stream or known to the replica
  (`EventsKept`), and that the replica still knows what the list before it told of, as
  long as the slot was not changed (`ListKept`); and of the first one, that nothing
  the replica holds or will read is older than its list (`FirstListIsOldest`), because
  a list does not say what was removed. A prop not older than the last change of
  its slot then has the right value, by `ReplicaIsHistory`.
* `CoopMeshProofs`: `MeshTypeCorrect`, `FollowingSharesKey`, `FollowingLeavesMainnet`,
  `FollowingHasStream`. `MeshInv` relates, for each pair, the keys of a check, of a cached
  response and of `keyMap` to the keys the other has or had (`KnowsOf`, `CheckKnows`),
  and the EventSource to the check and to the following (`StreamIsShared`,
  `FollowsOnce`). Most steps concern one pair; that the others are left as they were, or
  begin a check, is proved once (`OthersBegin`, `QuietKeepsPair`).
* `ClosableStreamProofs`: `ClosableTypeCorrect`, `DataArrivesInOrder`, `EndMeansAllTaken`.
  The property is about what was taken; `StreamInv` says it of the whole way, per
  direction: the values still on it continue those taken (`Numbered`), none is missing
  (`Carried`), an end comes after all of them (`EndInPlace`), and the flags and loops at
  the two ends agree with where it is (`Settled`).
* `EventStreamProofs`: `EventTypeCorrect`, `SilentAfterEnd`, and under
  `MergedReads = FALSE` `ReadingGetsAll` and `EventStreamRefines`. `EventInv` says of each
  EventSource that what it got is the beginning of what is due, and that what remains
  of a chunk and what is in the pipe hold the rest: all of it (`Holds`), each event's
  end right after its beginning (`Whole`), in the order of their numbers (`Ordered`).
  `EventStreamRefines` maps `dispatchEvent` to `Send`, a read that completes an event to
  `Give`, and every other step to a stutter. `SilentAfterEnd` has an invariant of the
  watchers only.
* `Http2pProofs`, all but the first under `SplitCRLF = FALSE`: `FetchTypeCorrect`,
  `HeadStaysIntact`, `WholeAtTheEnd` and `WebGetsWhole`. `Http2pInv` says, for each direction of a fetch, that nothing was written and
  the reader is nowhere, or that what was read is the beginning of what was written and
  the rest is on its way (`Sound`), with what the reader knows at a line's end, at the
  head's end and after it. `WebInv` adds that what has ended for the web was read to its
  end, and written to its end.
* `CoopHeliaProofs`: `HeliaTypeCorrect`, `SpreadIsShared`. `HeliaInv` says that every
  event that tells of a shared content goes back to a call of `share`, or of `put` when it
  takes the sharing back, and so does every such link of every node, and that a loop only
  looks up what it was told of; a type without a shared content goes back to a call on
  the node itself or to one that took the sharing back.

`MaxRead = 1`, `MergedReads = FALSE` and `SplitCRLF = FALSE` are what the code relies on
and does not ensure, as said above; `stream_merged` shows what happens otherwise.

Only model-checked: everything with fairness, which is beyond the prover
(`FollowIsMutual`, `Introduced`, `MainnetIntroduces`, `ChecksEnd`, `EventTold`,
`StopEndsSources`, `FollowEnds`, `CloseReadTold`, `BothFinishedEnds`, `FetchSettles`,
`WebAnswered`, `ShareSpreads`, `EchoEnds`).

## Where code and documentation disagree

1. `replication_existing`: the list is fetched before the event stream is
   subscribed to (coop.js:91-97), and nothing is replayed, because `headers.get`
   gives `null` where `newReadableStream` expects `undefined` or a known id. A
   link put in between is never found.
2. `stream_merged`: `retry` is -1 without a retry field
   (http2p-event-source.js:133), which line 70 takes for a retry.
3. `mesh_latekeys`: two nodes that add the same key may end up with one following
   the other, who decided on the keys of before and is not asked again.
4. `mesh_mainnets`: the name of the mainnet is sent but dropped by the reader
   (coop-keys.js:72-76).

Also seen while modelling, without a run:

* Coop: an owner whose key is removed during followCoop keeps its event stream
  (coop.js:77-78). An owner followed before is not followed again when its stream
  has ended and its key comes back (coop-followings.js:13).
* Event stream: of a message with several data lines only the last is kept
  (http2p-event-source.js:125). A retry field ends the EventSource with an
  exception instead of a new connection (line 56). An EventSource that was closed
  opens again when its response arrives later (line 28), and stop() does not close it
  when it was taken off its map before (coop.js:203).
* Closable stream: a message that arrives after `source` has finished is dropped,
  the notice of closeRead too (closable-stream.js:63). A reader that breaks off
  (`break` in its loop) ends `source` at its yield without telling the other end.
* Http2p: a CR LF that is cut in two is overlooked by `readLine`. A header that ends
  before its empty line keeps the node busy for ever (http2p.js:66), and with it
  everything else on the node; so does the end of a ping's stream. A response of
  status 204 or 304 cannot be constructed, so its fetch rejects (line 181). An abort
  before the dial is forgotten (line 192).
* Gateway: a fetch that rejects, or a body that fails, leaves the web response open.
* Discovery: after stop() during a dial, the fetch goes out all the same.
* CoopHelia: `isPinned` is not awaited, so nothing is ever pinned. Two nodes that share
  a content with different types publish each other's type in turn, for ever, and
  publish again a link that one of them drops meanwhile. A type does not pass a
  middle node that already had it.

## Not modelled, and why

* `waitUntil`, the text of headers and addresses: no state that anything depends on.
* Advertising by mDNS, the set-up of libp2p, of the servers and of certificates, the
  preflight of CORS (answered at once): I/O and configuration.
* Browser bundles, examples, tests: clients of the library.
* 304 responses of coop-links and coop-keys: the follower sends If-Modified-Since for
  keys only, in whole seconds, against a `lastModified` in milliseconds.
* In `CoopMesh`: stop, restart, a key added again after its removal. In
  `LinkReplication`: an owner that restarts, wall clocks that go back.
* `EventStream` and `CoopMesh` are not composed: the mesh takes a stream to be open,
  closed or dropped.

## Plan

Done: `LinkVersion`, `CoopLinks`, `CoopList`, `CoopListMerge` and their theorems;
`LinkReplication`, `StaleReplica`, the refinement and its safety theorems; `CoopMesh`
with keys that are added and removed; `EventChannel` and `EventStream` with its
refinement; `ClosableStream`; `Http2p` and `Http2pClients`; `CoopHelia`.

The safety properties of all of them are proved.

Next, in this order:

1. The life of an owner: restart (a new table, clock and version from 0) and wall
   clocks that go back, as faults of `CoopLinks` with what the replica then keeps.
2. In `CoopMesh`: stop during a check, and a key that comes back within a second.
3. The eventual side of `DrainedAgrees`: that the read of an open stream drains it,
   under the fairness of `EventStream`.

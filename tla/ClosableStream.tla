---------------------------- MODULE ClosableStream ----------------------------
(***************************************************************************)
(* The wrapper of a libp2p stream that can be closed from its reading side *)
(* (closable-stream.js), at both ends of a stream: what an end writes is   *)
(* data, a notice that it reads no more, or that it has finished writing.  *)
(*                                                                         *)
(* The stream below is external: it delivers messages in order, until it   *)
(* ends or breaks.  Each end calls sink once, with an iterable that may    *)
(* yield a value or end at any time, and reads source or leaves it.        *)
(***************************************************************************)
EXTENDS Naturals, SequencesExt

CONSTANTS
    Ends,
    MaxData,    \* bound: how many values the iterable of an end yields
    Leavers,    \* the ends whose reader may break off
    Closers,    \* the ends that may call closeWrite
    MayBreak    \* whether the stream below may break

ASSUME EndsAssumption ==
    /\ \E e, o \in Ends : e # o /\ Ends = {e, o}
    /\ MaxData \in [Ends -> Nat]
    /\ Leavers \subseteq Ends /\ Closers \subseteq Ends
    /\ MayBreak \in BOOLEAN

VARIABLES
    writeQueue,     \* what is pushed and not yet written
    written,        \* "closed" and "finished" of writing()
    wire,           \* the messages on their way from an end
    writing,        \* whether writing() runs: "on", "over", or "broken"
    reading,        \* the same of reading()
    readQueue,      \* what reading() pushed for source
    remoteClosed, sourceFinished, sinkFinished,
    source,         \* the generator: "open", "done", or "left" by its reader
    sink,           \* whether sink() waits for its iterable: "open" or "over"
    closedRead,     \* history: whether closeRead was called
    given,          \* history: the values pushed before the first "finished"
    values,         \* history: the number of values that the iterable yielded
    taken           \* history: the values that the reader of source has got

writerVars == <<writeQueue, written, wire, writing>>
readerVars == <<reading, readQueue, remoteClosed>>
callerVars == <<sourceFinished, sinkFinished, source, sink, closedRead, given, values, taken>>
vars == <<writerVars, readerVars, callerVars>>

other(e) == CHOOSE o \in Ends : o # e

data(n) == [type |-> "data", value |-> n]
notice(type) == [type |-> type]

Payload == [type: {"data"}, value: Nat] \cup [type: {"close", "finished"}]

(* What reading() hands on to source. *)
Readable == {item \in Payload : item.type # "close"}

Init ==
    /\ writeQueue = [e \in Ends |-> << >>]
    /\ written = [e \in Ends |-> {}]
    /\ wire = [e \in Ends |-> << >>]
    /\ writing = [e \in Ends |-> "on"]
    /\ reading = [e \in Ends |-> "on"]
    /\ readQueue = [e \in Ends |-> << >>]
    /\ remoteClosed = [e \in Ends |-> FALSE]
    /\ sourceFinished = [e \in Ends |-> FALSE]
    /\ sinkFinished = [e \in Ends |-> FALSE]
    /\ source = [e \in Ends |-> "open"]
    /\ sink = [e \in Ends |-> "open"]
    /\ closedRead = [e \in Ends |-> FALSE]
    /\ given = [e \in Ends |-> << >>]
    /\ values = [e \in Ends |-> 0]
    /\ taken = [e \in Ends |-> << >>]

(* newQueue: a push is matched with the next get, in the order of both. *)
push(queue, e, item) == [queue EXCEPT ![e] = Append(@, item)]

-----------------------------------------------------------------------------
(* writing() *)

(* Mutants of writesLast: the first of both notices will do; they must come in order. *)
writesUntilEither(e, item) == item.type # "data"

writesUntilFinished(e, item) == item.type = "finished" /\ "close" \in written[e]

(* Whether the loop of writing() ends once item is written. *)
writesLast(e, item) == {"close", "finished"} \subseteq written[e] \cup {item.type}

(* The next item is written; after both notices the stream is closed for writing. *)
write(e) ==
    LET item == Head(writeQueue[e])
    IN  /\ writing[e] = "on"
        /\ writeQueue[e] # << >>
        /\ writeQueue' = [writeQueue EXCEPT ![e] = Tail(@)]
        /\ wire' = push(wire, e, item)
        /\ written' = [written EXCEPT ![e] = @ \cup ({item.type} \ {"data"})]
        /\ writing' = [writing EXCEPT ![e] = IF writesLast(e, item) THEN "over" ELSE @]
        /\ UNCHANGED <<readerVars, callerVars>>

-----------------------------------------------------------------------------
(* reading() *)

(* The loop is left: source is told, and the stream is closed for reading. *)
readingEnds(e) ==
    /\ reading' = [reading EXCEPT ![e] = "over"]
    /\ readQueue' = push(readQueue, e, notice("finished"))
    /\ UNCHANGED remoteClosed

(* Mutant of handle: a value is handed on before those that wait. *)
handleNewestFirst(e, msg) ==
    /\ remoteClosed' = [remoteClosed EXCEPT ![e] = @ \/ msg.type = "close"]
    /\ readQueue' = IF msg.type = "close" THEN readQueue
                    ELSE [readQueue EXCEPT ![e] = <<msg>> \o @]
    /\ UNCHANGED reading

(* Mutant of handle: the other end's notice is handed on as well. *)
handleAll(e, msg) ==
    /\ remoteClosed' = [remoteClosed EXCEPT ![e] = @ \/ msg.type = "close"]
    /\ readQueue' = push(readQueue, e, msg)
    /\ UNCHANGED reading

handle(e, msg) ==
    /\ remoteClosed' = [remoteClosed EXCEPT ![e] = @ \/ msg.type = "close"]
    /\ readQueue' = IF msg.type = "close" THEN readQueue ELSE push(readQueue, e, msg)
    /\ UNCHANGED reading

(* A message arrives.  Once source has finished the loop is left, whatever the
   message says, a notice that the other end reads no more included. *)
receive(e) ==
    LET o == other(e)
    IN  /\ reading[e] = "on"
        /\ wire[o] # << >>
        /\ wire' = [wire EXCEPT ![o] = Tail(@)]
        /\ IF sourceFinished[e] THEN readingEnds(e) ELSE handle(e, Head(wire[o]))
        /\ UNCHANGED <<writeQueue, written, writing, callerVars>>

(* The other end has closed the stream for writing, and all it wrote was read. *)
receiveEnd(e) ==
    /\ reading[e] = "on"
    /\ wire[other(e)] = << >> /\ writing[other(e)] = "over"
    /\ readingEnds(e)
    /\ UNCHANGED <<writerVars, callerVars>>

(* The stream breaks, or is reset or aborted: both loops of both ends throw, and
   nobody is told but the listeners for "error". *)
breaks ==
    /\ MayBreak
    /\ \E e \in Ends : "on" \in {writing[e], reading[e]}
    /\ writing' = [e \in Ends |-> IF writing[e] = "on" THEN "broken" ELSE writing[e]]
    /\ reading' = [e \in Ends |-> IF reading[e] = "on" THEN "broken" ELSE reading[e]]
    /\ wire' = [e \in Ends |-> << >>]
    /\ UNCHANGED <<writeQueue, written, readQueue, remoteClosed, callerVars>>

-----------------------------------------------------------------------------
(* The wrapped stream, as its caller uses it. *)

(* sink: the iterable yields a value, which is sent unless the other end reads no
   more; or it ends. *)
sinkEnds(e) ==
    /\ sink' = [sink EXCEPT ![e] = "over"]
    /\ writeQueue' = push(writeQueue, e, notice("finished"))
    /\ sinkFinished' = [sinkFinished EXCEPT ![e] = TRUE]
    /\ UNCHANGED given

sinkSends(e, n) ==
    /\ writeQueue' = push(writeQueue, e, data(n))
    /\ given' = [given EXCEPT ![e] = IF sinkFinished[e] THEN @ ELSE Append(@, n)]
    /\ UNCHANGED <<sink, sinkFinished>>

iterate(e) ==
    /\ sink[e] = "open"
    /\ \/ /\ values[e] < MaxData[e]
          /\ values' = [values EXCEPT ![e] = @ + 1]
          /\ IF remoteClosed[e] THEN sinkEnds(e) ELSE sinkSends(e, values[e] + 1)
       \/ /\ sinkEnds(e)
          /\ UNCHANGED values
    /\ UNCHANGED <<written, wire, writing, readerVars, sourceFinished, source, closedRead, taken>>

(* source: the next item is a value for the reader, or the end. *)
next(e) ==
    LET item == Head(readQueue[e])
    IN  /\ source[e] = "open"
        /\ readQueue[e] # << >>
        /\ readQueue' = [readQueue EXCEPT ![e] = Tail(@)]
        /\ IF item.type = "data"
           THEN /\ taken' = [taken EXCEPT ![e] = Append(@, item.value)]
                /\ UNCHANGED <<writeQueue, source, sourceFinished>>
           ELSE /\ source' = [source EXCEPT ![e] = "done"]
                /\ writeQueue' = push(writeQueue, e, notice("close"))
                /\ sourceFinished' = [sourceFinished EXCEPT ![e] = TRUE]
                /\ UNCHANGED taken
        /\ UNCHANGED <<written, wire, writing, reading, remoteClosed,
                       sinkFinished, sink, closedRead, given, values>>

(* The reader breaks off: the generator returns at its yield, and nothing after
   its loop is done. *)
leave(e) ==
    /\ e \in Leavers
    /\ source[e] = "open"
    /\ source' = [source EXCEPT ![e] = "left"]
    /\ UNCHANGED <<writerVars, readerVars, sourceFinished, sinkFinished, sink, closedRead,
                   given, values, taken>>

(* Mutant of closeRead: the other end is not told. *)
closeReadSilently(e) ==
    /\ ~closedRead[e]
    /\ closedRead' = [closedRead EXCEPT ![e] = TRUE]
    /\ sourceFinished' = [sourceFinished EXCEPT ![e] = TRUE]
    /\ UNCHANGED <<writerVars, readerVars, sinkFinished, source, sink, given, values, taken>>

(* closeRead, called once; close() is this and closeWrite. *)
closeRead(e) ==
    /\ ~closedRead[e]
    /\ closedRead' = [closedRead EXCEPT ![e] = TRUE]
    /\ writeQueue' = push(writeQueue, e, notice("close"))
    /\ sourceFinished' = [sourceFinished EXCEPT ![e] = TRUE]
    /\ UNCHANGED <<written, wire, writing, readerVars, sinkFinished, source, sink,
                   given, values, taken>>

(* closeWrite, while sink() has not finished: sink() goes on. *)
closeWrite(e) ==
    /\ e \in Closers
    /\ ~sinkFinished[e]
    /\ writeQueue' = push(writeQueue, e, notice("finished"))
    /\ sinkFinished' = [sinkFinished EXCEPT ![e] = TRUE]
    /\ UNCHANGED <<written, wire, writing, readerVars, sourceFinished, source, sink,
                   closedRead, given, values, taken>>

Next ==
    \/ \E e \in Ends :
        \/ write(e) \/ receive(e) \/ receiveEnd(e)
        \/ iterate(e) \/ next(e) \/ leave(e) \/ closeRead(e) \/ closeWrite(e)
    \/ breaks

Spec == Init /\ [][Next]_vars

(* The two loops of an end run, and a reader that has not left reads on.  Nothing
   is assumed of iterables and of calls. *)
Fairness ==
    \A e \in Ends :
        /\ WF_vars(write(e)) /\ WF_vars(receive(e)) /\ WF_vars(receiveEnd(e))
        /\ WF_vars(next(e))

FairSpec == Spec /\ Fairness

-----------------------------------------------------------------------------
TypeOK ==
    /\ writeQueue \in [Ends -> Seq(Payload)] /\ wire \in [Ends -> Seq(Payload)]
    /\ readQueue \in [Ends -> Seq(Readable)]
    /\ written \in [Ends -> SUBSET {"close", "finished"}]
    /\ writing \in [Ends -> {"on", "over", "broken"}]
    /\ reading \in [Ends -> {"on", "over", "broken"}]
    /\ remoteClosed \in [Ends -> BOOLEAN]
    /\ sourceFinished \in [Ends -> BOOLEAN] /\ sinkFinished \in [Ends -> BOOLEAN]
    /\ source \in [Ends -> {"open", "done", "left"}]
    /\ sink \in [Ends -> {"open", "over"}]
    /\ closedRead \in [Ends -> BOOLEAN]
    /\ given \in [Ends -> Seq(Nat)] /\ taken \in [Ends -> Seq(Nat)]
    /\ values \in [Ends -> Nat]

(* However the two queues, the wire and the notices of both directions interleave,
   a reader gets what the other end sent, in order, and nothing of what it sent
   after it had finished. *)
DataInOrder == \A e \in Ends : IsPrefix(taken[e], given[other(e)])

(* A source that ends by itself has yielded everything: its end is never the
   other end's notice overtaking data, nor the end of the stream below. *)
EndMeansAll ==
    \A e \in Ends :
        source[e] = "done" /\ ~closedRead[e] => taken[e] = given[other(e)]

(* closeRead stops the sink of the other end ("closing from read side", readme.md:19)
   as long as that end's own source has not finished: a notice that arrives later
   is dropped, and that sink goes on. *)
CloseReadTold ==
    \A e \in Ends : closedRead[e] ~>
        \/ remoteClosed[other(e)] \/ sourceFinished[other(e)]
        \/ "broken" \in {writing[e], reading[other(e)]}

(* When both directions are finished at both ends, both loops of both ends end, and
   the stream below is closed: nobody waits for a notice that was dropped. *)
BothFinishedEnds ==
    (\A e \in Ends : sourceFinished[e] /\ sinkFinished[e])
        ~> \A e \in Ends : writing[e] # "on" /\ reading[e] # "on"
=============================================================================

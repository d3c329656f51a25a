---------------------------- MODULE EventMonitor -----------------------------
(***************************************************************************)
(* The four goroutines between the daemon's event stream and               *)
(* listenForEvents, in the vendored dockerclient: the decoder and the      *)
(* reader of readJSONStream, the converter of MonitorEvents, and the       *)
(* goroutine of StartMonitorEvents, here the consumer.  They hand one item *)
(* at a time to the next one over unbuffered channels: decodeChan,         *)
(* resultChan, eventOrErrorChan.  A channel is closed by the goroutine     *)
(* that sends on it when it ends.                                          *)
(*                                                                         *)
(* The program never calls StopAllMonitorEvents; the select that serves it *)
(* is here with it.  The GET that opens the stream is in Startup.          *)
(***************************************************************************)
EXTENDS Naturals, Sequences

CONSTANT MaxEvents   \* bound: the events that the daemon emits

ASSUME EventsAssumption == MaxEvents \in Nat

Event == 1..MaxEvents
Error == 0   \* a decodingResult with its err set

VARIABLES
  emitted,      \* the number of events so far
  socket,       \* events sent by the daemon and not yet decoded
  stream,       \* "open", "failed", or "closed" by the reader
  stopped,      \* whether eventStopChan is closed
  decoder, reader, converter,   \* the item held by each goroutine, or none
  gone,         \* the goroutines that have ended
  draining,     \* whether the reader empties decodeChan
  delivered     \* the events handed to listenForEvents

held == <<decoder, reader, converter>>
vars == <<emitted, socket, stream, stopped, held, gone, draining, delivered>>

Goroutine == {"decoder", "reader", "converter", "consumer"}
-----------------------------------------------------------------------------
(* The daemon *)

Emit ==
  /\ emitted < MaxEvents
  /\ emitted' = emitted + 1
  /\ socket' = IF stream = "open" THEN Append(socket, emitted') ELSE socket
  /\ UNCHANGED <<stream, stopped, held, gone, draining, delivered>>

\* The connection is lost; what the daemon has sent may be lost with it.
Fail ==
  /\ stream = "open"
  /\ stream' = "failed"
  /\ \E n \in 0..Len(socket) : socket' = SubSeq(socket, 1, n)
  /\ UNCHANGED <<emitted, stopped, held, gone, draining, delivered>>

StopAllMonitorEvents ==
  /\ ~stopped
  /\ stopped' = TRUE
  /\ UNCHANGED <<emitted, socket, stream, held, gone, draining, delivered>>
-----------------------------------------------------------------------------
(* readJSONStream *)

\* Faulty variant of Oldest: the last event sent is decoded first.
Newest(s) == s[Len(s)]

Oldest(s) == Head(s)

\* decoder.Decode: an event, or an error - the end of the stream, or bytes that
\* are no event.
Decode ==
  /\ "decoder" \notin gone /\ decoder = <<>>
  /\ \/ /\ stream # "closed" /\ socket # <<>>
        /\ decoder' = <<Oldest(socket)>>
        /\ socket' = Tail(socket)
     \/ /\ stream = "closed" \/ (stream = "failed" /\ socket = <<>>)
        /\ decoder' = <<Error>>
        /\ UNCHANGED socket
  /\ UNCHANGED <<emitted, stream, stopped, reader, converter, gone, draining, delivered>>

\* Faulty variant of Ends: after an error the loop is gone through once more.
GoesOn(g, x) == gone' = gone

Ends(g, x) == gone' = IF x = <<Error>> THEN gone \cup {g} ELSE gone

\* decodeChan: the decoder ends after an error.  While the reader empties the
\* channel, what it receives is dropped.
Decoded ==
  /\ decoder # <<>> /\ "reader" \notin gone /\ reader = <<>>
  /\ reader' = IF draining THEN <<>> ELSE decoder
  /\ decoder' = <<>>
  /\ Ends("decoder", decoder)
  /\ UNCHANGED <<emitted, socket, stream, stopped, converter, draining, delivered>>

\* The select of the reader sees that stopChan is closed; then it empties decodeChan.
ReaderStops ==
  /\ stopped /\ "reader" \notin gone /\ reader = <<>> /\ ~draining
  /\ stream' = "closed"
  /\ draining' = TRUE
  /\ UNCHANGED <<emitted, socket, stopped, held, gone, delivered>>

\* decodeChan is closed.
ReaderDrained ==
  /\ draining /\ "reader" \notin gone /\ "decoder" \in gone
  /\ gone' = gone \cup {"reader"}
  /\ UNCHANGED <<emitted, socket, stream, stopped, held, draining, delivered>>

\* resultChan: after an error the reader closes the stream and ends.
Read ==
  /\ reader # <<>> /\ "converter" \notin gone /\ converter = <<>>
  /\ converter' = reader
  /\ reader' = <<>>
  /\ Ends("reader", reader)
  /\ stream' = IF reader = <<Error>> THEN "closed" ELSE stream
  /\ UNCHANGED <<emitted, socket, stopped, decoder, draining, delivered>>
-----------------------------------------------------------------------------
(* MonitorEvents and StartMonitorEvents *)

\* Faulty variant of IsError: the error field is not looked at.
NoError(x) == FALSE

IsError(x) == x = <<Error>>

\* eventOrErrorChan: an error ends the consumer, an event goes to the callback,
\* which returns at once.
Consume ==
  /\ converter # <<>> /\ "consumer" \notin gone
  /\ converter' = <<>>
  /\ \/ /\ IsError(converter)
        /\ gone' = gone \cup {"consumer"}
        /\ UNCHANGED delivered
     \/ /\ ~IsError(converter)
        /\ delivered' = delivered \o converter
        /\ UNCHANGED gone
  /\ UNCHANGED <<emitted, socket, stream, stopped, decoder, reader, draining>>

\* resultChan is closed; eventOrErrorChan is closed.
ConverterEnds ==
  /\ "converter" \notin gone /\ converter = <<>> /\ "reader" \in gone
  /\ gone' = gone \cup {"converter"}
  /\ UNCHANGED <<emitted, socket, stream, stopped, held, draining, delivered>>

ConsumerEnds ==
  /\ "consumer" \notin gone /\ "converter" \in gone
  /\ gone' = gone \cup {"consumer"}
  /\ UNCHANGED <<emitted, socket, stream, stopped, held, draining, delivered>>
-----------------------------------------------------------------------------
Init ==
  /\ emitted = 0 /\ socket = <<>> /\ stream = "open" /\ stopped = FALSE
  /\ decoder = <<>> /\ reader = <<>> /\ converter = <<>>
  /\ gone = {} /\ draining = FALSE /\ delivered = <<>>

ReaderEnds == ReaderStops \/ ReaderDrained

Next ==
  \/ Emit \/ Fail \/ StopAllMonitorEvents
  \/ Decode \/ Decoded \/ ReaderEnds \/ Read \/ Consume
  \/ ConverterEnds \/ ConsumerEnds

\* The goroutines run.  A select whose stopChan stays closed takes that branch in
\* the end, as Go picks among the ready ones at random.
Spec ==
  /\ Init /\ [][Next]_vars
  /\ WF_vars(Decode) /\ WF_vars(Decoded) /\ SF_vars(ReaderEnds)
  /\ WF_vars(Read) /\ WF_vars(Consume)
  /\ WF_vars(ConverterEnds) /\ WF_vars(ConsumerEnds)
-----------------------------------------------------------------------------
(* Properties *)

Item == {<<>>} \cup {<<n>> : n \in Event \cup {Error}}

TypeOK ==
  /\ emitted \in 0..MaxEvents
  /\ socket \in Seq(Event)
  /\ stream \in {"open", "failed", "closed"}
  /\ stopped \in BOOLEAN /\ draining \in BOOLEAN
  /\ decoder \in Item /\ reader \in Item /\ converter \in Item
  /\ gone \in SUBSET Goroutine
  /\ delivered \in Seq(Event)

\* When the stream has failed or is stopped, all four goroutines end: nobody is
\* left behind with an item that no one takes.
NobodyIsLeft == (stream # "open" \/ stopped) ~> (gone = Goroutine)

\* The events in what a goroutine holds, as a sequence.
EventsOf(x) == IF x = <<Error>> THEN <<>> ELSE x

\* What is still to be delivered, the oldest first: behind a reader that empties
\* decodeChan nothing is.
Pending ==
  EventsOf(converter) \o
    (EventsOf(reader) \o (IF draining THEN <<>> ELSE EventsOf(decoder) \o socket))

Abstract == INSTANCE EventStream WITH
  pending <- Pending, up <- (stream = "open")

\* Whatever the goroutines and the channels do, events arrive once each, in
\* order, until the stream breaks.
ImplementsStream == Abstract!Spec

\* The part of it that speaks of single steps.
StreamSteps == Abstract!Init /\ [][Abstract!Next]_(Abstract!vars)

\* Event number n is the n-th that listenForEvents is given.
InOrder == \A i \in 1..Len(delivered) : delivered[i] = i
-----------------------------------------------------------------------------
(* The inductive invariant *)

\* As long as the stream is whole nobody has an error, and the reader goes on.
WholeInv ==
  stream = "open" => ~draining /\ decoder # <<Error>> /\ reader # <<Error>>

\* Delivered and pending events are the first ones of those emitted, and all of
\* them while the stream is whole.
OrderInv ==
  LET known == delivered \o Pending IN
    /\ Len(known) <= emitted
    /\ \A i \in 1..Len(known) : known[i] = i
    /\ stream = "open" => Len(known) = emitted
=============================================================================

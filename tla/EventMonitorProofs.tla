------------------------- MODULE EventMonitorProofs -------------------------
(***************************************************************************)
(* Proofs about EventMonitor for any number of events: its types, that it  *)
(* implements EventStream step by step, and that events arrive in order    *)
(* without a gap.  That what is not lost arrives, and that no goroutine    *)
(* stays behind, rest on fairness and are left to TLC.                     *)
(***************************************************************************)
EXTENDS EventMonitor, SequenceTheorems, TLAPS

Typed == TypeOK /\ WholeInv
-----------------------------------------------------------------------------
(* Items *)

\* An item is nothing, an error or one event.
LEMMA ItemCases ==
  ASSUME NEW x \in Item
  PROVE  /\ x = <<>> \/ x = <<Error>> \/ \E n \in Event : x = <<n>>
         /\ EventsOf(x) \in Seq(Event)
         /\ EventsOf(<<>>) = <<>> /\ EventsOf(<<Error>>) = <<>>
         /\ \A n \in Event : EventsOf(<<n>>) = <<n>> /\ <<n>> # <<Error>>
<1>1. x = <<>> \/ x = <<Error>> \/ \E n \in Event : x = <<n>>
  BY DEF Item
<1>2. \A n \in Event : n # Error
  BY DEF Event, Error
<1>3. \A n \in Event : <<n>> # <<Error>>
  BY <1>2
<1>4. <<>> # <<Error>>
  OBVIOUS
<1>5. /\ EventsOf(<<>>) = <<>> /\ EventsOf(<<Error>>) = <<>>
      /\ \A n \in Event : EventsOf(<<n>>) = <<n>>
  BY <1>3, <1>4 DEF EventsOf
<1>6. EventsOf(x) \in Seq(Event)
  <2>1. <<>> \in Seq(Event) /\ \A n \in Event : <<n>> \in Seq(Event)
    OBVIOUS
  <2>2. CASE x = <<>> \/ x = <<Error>>
    BY <1>5, <2>1, <2>2
  <2>3. ASSUME NEW n \in Event, x = <<n>>  PROVE EventsOf(x) \in Seq(Event)
    BY <1>5, <2>1, <2>3
  <2> QED
    BY <1>1, <2>2, <2>3
<1> QED
  BY <1>1, <1>3, <1>5, <1>6

\* Nothing and an error hold no event.
LEMMA NothingIsAnItem ==
  /\ <<>> \in Item /\ <<Error>> \in Item
  /\ \A n \in Event : <<n>> \in Item
  /\ EventsOf(<<>>) = <<>> /\ EventsOf(<<Error>>) = <<>>
BY DEF Item, EventsOf
-----------------------------------------------------------------------------
(* Types *)

LEMMA InitTyped == Init => Typed
<1> SUFFICES ASSUME Init  PROVE TypeOK /\ WholeInv
  BY DEF Typed
<1>1. <<>> \in Seq(Event) /\ <<>> \in Item /\ 0 \in 0..MaxEvents
  BY EventsAssumption, NothingIsAnItem
<1>2. <<>> # <<Error>>
  OBVIOUS
<1> QED
  BY <1>1, <1>2 DEF Init, TypeOK, WholeInv

LEMMA StepTyped == Typed /\ [Next]_vars => Typed'
<1> SUFFICES ASSUME TypeOK, WholeInv, [Next]_vars  PROVE TypeOK' /\ WholeInv'
  BY DEF Typed
<1>1. CASE Emit
  <2>1. emitted' \in 0..MaxEvents /\ emitted' \in Event
    BY <1>1, EventsAssumption DEF Emit, TypeOK, Event
  <2>2. socket' \in Seq(Event)
    BY <1>1, <2>1 DEF Emit, TypeOK
  <2> QED
    BY <1>1, <2>1, <2>2 DEF Emit, TypeOK, WholeInv, held
<1>2. CASE Fail
  <2>1. PICK n \in 0..Len(socket) : socket' = SubSeq(socket, 1, n)
    BY <1>2 DEF Fail
  <2>2. socket' \in Seq(Event)
    BY <2>1 DEF TypeOK
  <2> QED
    BY <1>2, <2>2 DEF Fail, TypeOK, WholeInv, held
<1>3. CASE StopAllMonitorEvents
  BY <1>3 DEF StopAllMonitorEvents, TypeOK, WholeInv, held
<1>4. CASE Decode
  <2>1. CASE socket # <<>> /\ decoder' = <<Oldest(socket)>> /\ socket' = Tail(socket)
    <3>1. Oldest(socket) \in Event /\ socket' \in Seq(Event)
      BY <2>1 DEF Oldest, TypeOK
    <3>2. decoder' \in Item /\ decoder' # <<Error>>
      BY <2>1, <3>1, NothingIsAnItem, ItemCases
    <3> QED
      BY <1>4, <3>1, <3>2 DEF Decode, TypeOK, WholeInv
  <2>2. CASE /\ stream = "closed" \/ (stream = "failed" /\ socket = <<>>)
             /\ decoder' = <<Error>> /\ UNCHANGED socket
    BY <1>4, <2>2, NothingIsAnItem DEF Decode, TypeOK, WholeInv
  <2> QED
    BY <1>4, <2>1, <2>2 DEF Decode
<1>5. CASE Decoded
  BY <1>5, NothingIsAnItem DEF Decoded, Ends, Goroutine, TypeOK, WholeInv
<1>6. CASE ReaderStops
  BY <1>6 DEF ReaderStops, Goroutine, TypeOK, WholeInv, held
<1>7. CASE ReaderDrained
  BY <1>7 DEF ReaderDrained, Goroutine, TypeOK, WholeInv, held
<1>8. CASE Read
  BY <1>8, NothingIsAnItem DEF Read, Ends, Goroutine, TypeOK, WholeInv
<1>9. CASE Consume
  <2>1. ~IsError(converter) => converter \in Seq(Event)
    BY ItemCases DEF IsError, EventsOf, TypeOK
  <2>2. delivered' \in Seq(Event)
    <3>1. delivered \in Seq(Event)
      BY DEF TypeOK
    <3>2. CASE IsError(converter)
      BY <1>9, <3>1, <3>2 DEF Consume
    <3>3. CASE ~IsError(converter)
      <4>1. delivered' = delivered \o converter
        BY <1>9, <3>3 DEF Consume
      <4> QED
        BY <2>1, <3>1, <3>3, <4>1, ConcatProperties
    <3> QED
      BY <3>2, <3>3
  <2>3. gone' \in SUBSET Goroutine
    BY <1>9 DEF Consume, Goroutine, TypeOK
  <2>4. converter' \in Item
    BY <1>9, NothingIsAnItem DEF Consume
  <2>5. UNCHANGED <<emitted, socket, stream, stopped, decoder, reader, draining>>
    BY <1>9 DEF Consume
  <2> QED
    BY <2>2, <2>3, <2>4, <2>5 DEF TypeOK, WholeInv
<1>10. CASE ConverterEnds \/ ConsumerEnds
  <2>1. gone' \in SUBSET Goroutine
    BY <1>10 DEF ConverterEnds, ConsumerEnds, Goroutine, TypeOK
  <2>2. UNCHANGED <<emitted, socket, stream, stopped, decoder, reader, converter, draining,
                    delivered>>
    BY <1>10 DEF ConverterEnds, ConsumerEnds, held
  <2> QED
    BY <2>1, <2>2 DEF TypeOK, WholeInv
<1>11. CASE UNCHANGED vars
  BY <1>11 DEF vars, held, TypeOK, WholeInv
<1> QED
  BY <1>1, <1>2, <1>3, <1>4, <1>5, <1>6, <1>7, <1>8, <1>9, <1>10, <1>11 DEF Next, ReaderEnds

\* Each goroutine holds one item at most, and none of them gets hold of anything
\* that was not emitted.
THEOREM MonitorTypeCorrect == Spec => []TypeOK
<1>1. Typed => TypeOK
  BY DEF Typed
<1> QED
  BY InitTyped, StepTyped, <1>1, PTL DEF Spec
-----------------------------------------------------------------------------
(* Sequences *)

\* An event is appended at the end of what is there.
LEMMA ConcatAppend ==
  ASSUME NEW S, NEW s \in Seq(S), NEW t \in Seq(S), NEW e \in S
  PROVE  s \o Append(t, e) = Append(s \o t, e)
<1>1. <<e>> \in Seq(S) /\ s \o t \in Seq(S)
  BY ConcatProperties
<1>2. Append(t, e) = t \o <<e>> /\ Append(s \o t, e) = (s \o t) \o <<e>>
  BY <1>1, AppendIsConcat
<1> QED
  BY <1>1, <1>2, ConcatAssociative

\* The end of a sequence is cut off by cutting off the end of its last part.
LEMMA ConcatCut ==
  ASSUME NEW S, NEW s \in Seq(S), NEW t \in Seq(S), NEW n \in 0..Len(t)
  PROVE  /\ s \o SubSeq(t, 1, n) = SubSeq(s \o t, 1, Len(s) + n)
         /\ Len(s) + n \in 0..Len(s \o t)
<1>1. /\ Len(s) \in Nat /\ Len(t) \in Nat /\ n \in Nat /\ n <= Len(t)
      /\ s \o t \in Seq(S) /\ Len(s \o t) = Len(s) + Len(t)
      /\ \A i \in 1..(Len(s) + Len(t)) :
           (s \o t)[i] = IF i <= Len(s) THEN s[i] ELSE t[i - Len(s)]
  BY LenProperties, ConcatProperties
<1> DEFINE u == SubSeq(t, 1, n)
           l == s \o u
           k == SubSeq(s \o t, 1, Len(s) + n)
<1>2. /\ u \in Seq(S) /\ Len(u) = n
      /\ \A i \in 1..n : u[i] = t[i]
  <2>1. \A i \in 1..n : t[i] \in S
    BY <1>1, ElementOfSeq
  <2>2. /\ u \in Seq(S) /\ Len(u) = IF 1 <= n THEN n - 1 + 1 ELSE 0
        /\ \A i \in 1..(n - 1 + 1) : u[i] = t[1 + i - 1]
    BY <1>1, <2>1, SubSeqProperties
  <2> QED
    BY <1>1, <2>2
<1> HIDE DEF u
<1>3. /\ l \in Seq(S) /\ Len(l) = Len(s) + n
      /\ \A i \in 1..(Len(s) + n) : l[i] = IF i <= Len(s) THEN s[i] ELSE u[i - Len(s)]
  BY <1>2, ConcatProperties
<1>4. /\ k \in Seq(S) /\ Len(k) = Len(s) + n
      /\ \A i \in 1..(Len(s) + n) : k[i] = (s \o t)[i]
  <2> DEFINE m == Len(s) + n
  <2>1. m \in Nat /\ m <= Len(s \o t) /\ 1 \in Int /\ m \in Int
    BY <1>1
  <2> HIDE DEF m
  <2>2. \A i \in 1..m : (s \o t)[i] \in S
    BY <1>1, <2>1, ElementOfSeq
  <2>3. /\ SubSeq(s \o t, 1, m) \in Seq(S)
        /\ Len(SubSeq(s \o t, 1, m)) = IF 1 <= m THEN m - 1 + 1 ELSE 0
        /\ \A i \in 1..(m - 1 + 1) : SubSeq(s \o t, 1, m)[i] = (s \o t)[1 + i - 1]
    BY <2>1, <2>2, SubSeqProperties
  <2>4. /\ SubSeq(s \o t, 1, m) \in Seq(S) /\ Len(SubSeq(s \o t, 1, m)) = m
        /\ \A i \in 1..m : SubSeq(s \o t, 1, m)[i] = (s \o t)[i]
    BY <2>1, <2>3
  <2> QED
    BY <2>4 DEF m
<1>5. \A i \in 1..(Len(s) + n) : l[i] = k[i]
  <2> HIDE DEF l, k
  <2> TAKE i \in 1..(Len(s) + n)
  <2>1. i \in 1..(Len(s) + Len(t)) /\ (i > Len(s) => i - Len(s) \in 1..n)
    BY <1>1
  <2>2. l[i] = IF i <= Len(s) THEN s[i] ELSE u[i - Len(s)]
    BY <1>3
  <2>3. k[i] = IF i <= Len(s) THEN s[i] ELSE t[i - Len(s)]
    BY <1>1, <1>4, <2>1
  <2>4. i > Len(s) => u[i - Len(s)] = t[i - Len(s)]
    BY <1>2, <2>1
  <2> QED
    BY <1>1, <2>2, <2>3, <2>4
<1>6. l = k
  <2> HIDE DEF l, k
  <2> QED
    BY <1>3, <1>4, <1>5, SeqEqual
<1> QED
  BY <1>1, <1>6 DEF u

\* The first event is taken off.
LEMMA ConcatHeadTail ==
  ASSUME NEW S, NEW e \in S, NEW t \in Seq(S)
  PROVE  <<e>> \o t # <<>> /\ Head(<<e>> \o t) = e /\ Tail(<<e>> \o t) = t
<1> DEFINE s == <<e>> \o t
<1>1. <<e>> \in Seq(S) /\ Len(<<e>>) = 1 /\ <<e>>[1] = e /\ Len(t) \in Nat
  OBVIOUS
<1>2. /\ s \in Seq(S) /\ Len(s) = 1 + Len(t)
      /\ \A i \in 1..(1 + Len(t)) : s[i] = IF i <= 1 THEN <<e>>[i] ELSE t[i - 1]
  BY <1>1, ConcatProperties
<1>3. s # <<>> /\ Head(s) = s[1]
  <2> HIDE DEF s
  <2> QED
    BY <1>1, <1>2
<1>4. /\ Tail(s) \in Seq(S) /\ Len(Tail(s)) = Len(t)
      /\ \A i \in 1..Len(t) : Tail(s)[i] = t[i]
  <2> HIDE DEF s
  <2>1. /\ Tail(s) \in Seq(S) /\ Len(Tail(s)) = Len(s) - 1
        /\ \A i \in 1..Len(Tail(s)) : Tail(s)[i] = s[i + 1]
    BY <1>2, <1>3, HeadTailProperties
  <2> QED
    BY <1>1, <1>2, <2>1
<1>5. Tail(s) = t
  <2> HIDE DEF s
  <2> QED
    BY <1>4, SeqEqual
<1> QED
  BY <1>1, <1>2, <1>3, <1>5

LEMMA HeadThenTail ==
  ASSUME NEW S, NEW s \in Seq(S), s # <<>>
  PROVE  <<Head(s)>> \o Tail(s) = s
<1> DEFINE h == Head(s)
           t == Tail(s)
           u == <<h>> \o t
<1>1. /\ h \in S /\ h = s[1] /\ Len(s) \in Nat
      /\ t \in Seq(S) /\ Len(t) = Len(s) - 1
      /\ \A i \in 1..Len(t) : t[i] = s[i + 1]
  BY HeadTailProperties
<1> HIDE DEF h, t
<1>2. <<h>> \in Seq(S) /\ Len(<<h>>) = 1 /\ <<h>>[1] = h /\ Len(t) \in Nat
  BY <1>1
<1>3. /\ u \in Seq(S) /\ Len(u) = 1 + Len(t)
      /\ \A i \in 1..(1 + Len(t)) : u[i] = IF i <= 1 THEN <<h>>[i] ELSE t[i - 1]
  BY <1>1, <1>2, ConcatProperties
<1> HIDE DEF u
<1>4. Len(u) = Len(s) /\ Len(s) = 1 + Len(t)
  BY <1>1, <1>2, <1>3
<1>5. ASSUME NEW i \in 1..Len(u)  PROVE u[i] = s[i]
  <2>1. CASE i = 1
    BY <1>1, <1>2, <1>3, <1>4, <2>1
  <2>2. CASE i # 1
    <3>1. i - 1 \in 1..Len(t) /\ (i - 1) + 1 = i
      BY <1>2, <1>4, <2>2
    <3>2. u[i] = t[i - 1]
      BY <1>2, <1>3, <1>4, <2>2
    <3> QED
      BY <1>1, <3>1, <3>2
  <2> QED
    BY <2>1, <2>2
<1>6. u = s
  BY <1>3, <1>4, <1>5, SeqEqual
<1> QED
  BY <1>6 DEF u, h, t
-----------------------------------------------------------------------------
(* The refinement *)

\* The events on their way are sequences, from the consumer back to the socket.
LEMMA PartsAreTyped ==
  ASSUME TypeOK
  PROVE  /\ EventsOf(converter) \in Seq(Event) /\ EventsOf(reader) \in Seq(Event)
         /\ EventsOf(decoder) \in Seq(Event) /\ socket \in Seq(Event)
         /\ EventsOf(decoder) \o socket \in Seq(Event)
         /\ EventsOf(reader) \o (EventsOf(decoder) \o socket) \in Seq(Event)
         /\ Pending \in Seq(Event)
<1>1. /\ EventsOf(converter) \in Seq(Event) /\ EventsOf(reader) \in Seq(Event)
      /\ EventsOf(decoder) \in Seq(Event) /\ socket \in Seq(Event)
  BY ItemCases DEF TypeOK
<1>2. EventsOf(decoder) \o socket \in Seq(Event) /\ <<>> \in Seq(Event)
  BY <1>1, ConcatProperties
<1>3. /\ EventsOf(reader) \o (EventsOf(decoder) \o socket) \in Seq(Event)
      /\ EventsOf(reader) \o <<>> \in Seq(Event)
  BY <1>1, <1>2, ConcatProperties
<1>4. /\ EventsOf(converter) \o (EventsOf(reader) \o (EventsOf(decoder) \o socket)) \in Seq(Event)
      /\ EventsOf(converter) \o (EventsOf(reader) \o <<>>) \in Seq(Event)
  BY <1>1, <1>3, ConcatProperties
<1> QED
  BY <1>1, <1>2, <1>3, <1>4 DEF Pending

LEMMA InitFollows == Init => Abstract!Init
<1> SUFFICES ASSUME Init  PROVE Abstract!Init
  OBVIOUS
<1>1. /\ EventsOf(converter) = <<>> /\ EventsOf(reader) = <<>> /\ EventsOf(decoder) = <<>>
      /\ socket = <<>> /\ ~draining
  BY NothingIsAnItem DEF Init
<1>2. <<>> \in Seq(Event) /\ <<>> \o <<>> = <<>>
  BY ConcatEmptySeq
<1>3. Pending = <<>>
  BY <1>1, <1>2 DEF Pending
<1> QED
  BY <1>3 DEF Init, Abstract!Init

\* The daemon appends an event to the stream.
LEMMA EmitFollows ==
  ASSUME Typed, Emit
  PROVE  Abstract!Emit
<1>1. emitted' \in Event
  BY EventsAssumption DEF Typed, TypeOK, Emit, Event
<1>2. UNCHANGED <<stream, decoder, reader, converter, draining, delivered>>
  BY DEF Emit, held
<1>3. CASE stream = "open"
  <2>1. socket' = Append(socket, emitted') /\ ~draining
    BY <1>3 DEF Emit, Typed, WholeInv
  <2>2. /\ EventsOf(converter) \in Seq(Event) /\ EventsOf(reader) \in Seq(Event)
        /\ EventsOf(decoder) \in Seq(Event) /\ socket \in Seq(Event)
        /\ EventsOf(decoder) \o socket \in Seq(Event)
        /\ EventsOf(reader) \o (EventsOf(decoder) \o socket) \in Seq(Event)
    BY PartsAreTyped DEF Typed
  <2>3. /\ Pending = EventsOf(converter) \o (EventsOf(reader) \o (EventsOf(decoder) \o socket))
        /\ Pending' = EventsOf(converter) \o
             (EventsOf(reader) \o (EventsOf(decoder) \o Append(socket, emitted')))
    BY <1>2, <2>1 DEF Pending
  <2>4. EventsOf(decoder) \o Append(socket, emitted')
          = Append(EventsOf(decoder) \o socket, emitted')
    BY <1>1, <2>2, ConcatAppend
  <2>5. EventsOf(reader) \o Append(EventsOf(decoder) \o socket, emitted')
          = Append(EventsOf(reader) \o (EventsOf(decoder) \o socket), emitted')
    BY <1>1, <2>2, ConcatAppend
  <2>6. EventsOf(converter) \o Append(EventsOf(reader) \o (EventsOf(decoder) \o socket), emitted')
          = Append(EventsOf(converter) \o (EventsOf(reader) \o (EventsOf(decoder) \o socket)),
                   emitted')
    BY <1>1, <2>2, ConcatAppend
  <2>7. Pending' = Append(Pending, emitted')
    BY <2>3, <2>4, <2>5, <2>6
  <2> QED
    BY <1>2, <1>3, <2>7 DEF Emit, Abstract!Emit
<1>4. CASE stream # "open"
  <2>1. Pending' = Pending
    BY <1>2, <1>4 DEF Emit, Pending
  <2> QED
    BY <1>2, <1>4, <2>1 DEF Emit, Abstract!Emit
<1> QED
  BY <1>3, <1>4

\* With the connection the end of what is on its way is lost.
LEMMA FailFollows ==
  ASSUME Typed, Fail
  PROVE  Abstract!Break
<1>1. /\ UNCHANGED <<emitted, decoder, reader, converter, draining, delivered>>
      /\ stream' = "failed" /\ ~draining
  BY DEF Fail, held, Typed, WholeInv
<1>2. PICK n \in 0..Len(socket) : socket' = SubSeq(socket, 1, n)
  BY DEF Fail
<1>3. /\ EventsOf(converter) \in Seq(Event) /\ EventsOf(reader) \in Seq(Event)
      /\ EventsOf(decoder) \in Seq(Event) /\ socket \in Seq(Event)
      /\ EventsOf(decoder) \o socket \in Seq(Event)
      /\ EventsOf(reader) \o (EventsOf(decoder) \o socket) \in Seq(Event)
  BY PartsAreTyped DEF Typed
<1> DEFINE s1 == EventsOf(decoder) \o socket
           s2 == EventsOf(reader) \o s1
           s3 == EventsOf(converter) \o s2
           m1 == Len(EventsOf(decoder)) + n
           m2 == Len(EventsOf(reader)) + m1
           m3 == Len(EventsOf(converter)) + m2
<1>4. EventsOf(decoder) \o socket' = SubSeq(s1, 1, m1) /\ m1 \in 0..Len(s1)
  BY <1>2, <1>3, ConcatCut
<1>5. EventsOf(reader) \o SubSeq(s1, 1, m1) = SubSeq(s2, 1, m2) /\ m2 \in 0..Len(s2)
  <2> HIDE DEF m1
  <2> QED
    BY <1>3, <1>4, ConcatCut
<1>6. EventsOf(converter) \o SubSeq(s2, 1, m2) = SubSeq(s3, 1, m3) /\ m3 \in 0..Len(s3)
  <2> HIDE DEF m2
  <2> QED
    BY <1>3, <1>5, ConcatCut
<1>7. /\ Pending = s3
      /\ Pending' = EventsOf(converter) \o (EventsOf(reader) \o (EventsOf(decoder) \o socket'))
  BY <1>1 DEF Pending
<1>8. m3 \in 0..Len(Pending) /\ Pending' = SubSeq(Pending, 1, m3)
  BY <1>4, <1>5, <1>6, <1>7
<1> QED
  BY <1>1, <1>8 DEF Abstract!Break

\* From the socket to the decoder, and on to the reader and the converter, the
\* events stay in their order.
LEMMA PassingOnFollows ==
  ASSUME Typed, Decode \/ Decoded \/ Read
  PROVE  /\ Pending' = Pending /\ UNCHANGED <<emitted, delivered>>
         /\ stream = "open" <=> stream' = "open"
<1>1. /\ converter \in Item /\ reader \in Item /\ decoder \in Item
      /\ EventsOf(converter) \in Seq(Event) /\ EventsOf(reader) \in Seq(Event)
      /\ EventsOf(decoder) \in Seq(Event) /\ socket \in Seq(Event)
      /\ EventsOf(decoder) \o socket \in Seq(Event)
      /\ EventsOf(reader) \o (EventsOf(decoder) \o socket) \in Seq(Event)
  BY PartsAreTyped DEF Typed, TypeOK
<1>2. EventsOf(<<>>) = <<>> /\ EventsOf(<<Error>>) = <<>>
  BY NothingIsAnItem
<1>3. CASE Decode
  <2>1. /\ decoder = <<>> /\ EventsOf(decoder) = <<>>
        /\ UNCHANGED <<emitted, stream, reader, converter, draining, delivered>>
    BY <1>2, <1>3 DEF Decode
  <2>2. EventsOf(decoder') \o socket' = EventsOf(decoder) \o socket
    <3>1. EventsOf(decoder) \o socket = socket
      BY <1>1, <2>1, ConcatEmptySeq
    <3>2. CASE socket # <<>> /\ decoder' = <<Oldest(socket)>> /\ socket' = Tail(socket)
      <4>1. /\ Head(socket) \in Event /\ Tail(socket) \in Seq(Event)
            /\ decoder' = <<Head(socket)>>
        BY <1>1, <3>2, HeadTailProperties DEF Oldest
      <4>2. EventsOf(decoder') = <<Head(socket)>>
        BY <1>1, <4>1, ItemCases
      <4>3. <<Head(socket)>> \o Tail(socket) = socket
        BY <1>1, <3>2, HeadThenTail
      <4> QED
        BY <3>1, <3>2, <4>2, <4>3
    <3>3. CASE decoder' = <<Error>> /\ socket' = socket
      BY <1>2, <2>1, <3>3
    <3> QED
      BY <1>3, <3>2, <3>3 DEF Decode
  <2> QED
    BY <2>1, <2>2 DEF Pending
<1>4. CASE Decoded
  <2>1. /\ reader = <<>> /\ EventsOf(reader) = <<>> /\ decoder' = <<>>
        /\ EventsOf(decoder') = <<>>
        /\ reader' = IF draining THEN <<>> ELSE decoder
        /\ UNCHANGED <<emitted, socket, stream, converter, draining, delivered>>
    BY <1>2, <1>4 DEF Decoded
  <2>2. CASE draining
    BY <2>1, <2>2 DEF Pending
  <2>3. CASE ~draining
    <3>1. EventsOf(decoder') \o socket' = socket
      BY <1>1, <2>1, ConcatEmptySeq
    <3>2. EventsOf(reader) \o (EventsOf(decoder) \o socket) = EventsOf(decoder) \o socket
      BY <1>1, <2>1, ConcatEmptySeq
    <3> QED
      BY <2>1, <2>3, <3>1, <3>2 DEF Pending
  <2> QED
    BY <2>2, <2>3
<1>5. CASE Read
  <2> DEFINE rest == IF draining THEN <<>> ELSE EventsOf(decoder) \o socket
  <2>1. /\ converter = <<>> /\ EventsOf(converter) = <<>> /\ reader' = <<>>
        /\ EventsOf(reader') = <<>> /\ converter' = reader
        /\ UNCHANGED <<emitted, socket, decoder, draining, delivered>>
    BY <1>2, <1>5 DEF Read
  <2>2. rest \in Seq(Event) /\ EventsOf(reader) \o rest \in Seq(Event)
    <3>1. rest \in Seq(Event)
      BY <1>1
    <3> HIDE DEF rest
    <3> QED
      BY <1>1, <3>1, ConcatProperties
  <2>3. /\ Pending = EventsOf(converter) \o (EventsOf(reader) \o rest)
        /\ Pending' = EventsOf(converter') \o (EventsOf(reader') \o rest)
    BY <2>1 DEF Pending
  <2> HIDE DEF rest
  <2>4. <<>> \o (EventsOf(reader) \o rest) = EventsOf(reader) \o rest /\ <<>> \o rest = rest
    BY <2>2, ConcatEmptySeq
  <2>5. stream = "open" <=> stream' = "open"
    BY <1>5 DEF Read, Typed, WholeInv
  <2> QED
    BY <2>1, <2>3, <2>4, <2>5
<1> QED
  BY <1>3, <1>4, <1>5

\* The reader that is told to stop drops all that is behind it.
LEMMA ReaderStopsFollows ==
  ASSUME Typed, ReaderStops
  PROVE  Abstract!Break
<1>1. /\ reader = <<>> /\ EventsOf(reader) = <<>> /\ draining' /\ ~draining
      /\ stream' = "closed" /\ UNCHANGED <<emitted, reader, converter, delivered>>
  BY NothingIsAnItem DEF ReaderStops, held
<1>2. /\ EventsOf(converter) \in Seq(Event) /\ EventsOf(reader) \in Seq(Event)
      /\ EventsOf(decoder) \o socket \in Seq(Event) /\ Pending \in Seq(Event)
  BY PartsAreTyped DEF Typed
<1> DEFINE s == EventsOf(decoder) \o socket
<1>3. <<>> \o s = s /\ <<>> \o <<>> = <<>> /\ EventsOf(converter) \o <<>> = EventsOf(converter)
  BY <1>2, ConcatEmptySeq
<1>4. Pending = EventsOf(converter) \o s /\ Pending' = EventsOf(converter)
  BY <1>1, <1>3 DEF Pending
<1>5. /\ EventsOf(converter) \o SubSeq(s, 1, 0)
           = SubSeq(EventsOf(converter) \o s, 1, Len(EventsOf(converter)) + 0)
      /\ Len(EventsOf(converter)) + 0 \in 0..Len(EventsOf(converter) \o s)
  <2>1. 0 \in 0..Len(s)
    BY <1>2
  <2> HIDE DEF s
  <2> QED
    BY <1>2, <2>1, ConcatCut DEF s
<1>6. SubSeq(s, 1, 0) = <<>>
  BY SubSeqEmpty
<1>7. /\ Pending' = SubSeq(Pending, 1, Len(EventsOf(converter)) + 0)
      /\ Len(EventsOf(converter)) + 0 \in 0..Len(Pending)
  BY <1>3, <1>4, <1>5, <1>6
<1> QED
  BY <1>1, <1>7 DEF Abstract!Break

\* The consumer hands the oldest event to listenForEvents.
LEMMA ConsumeFollows ==
  ASSUME Typed, Consume
  PROVE  [Abstract!Next]_(Abstract!vars)
<1>1. /\ converter # <<>> /\ converter' = <<>> /\ EventsOf(converter') = <<>>
      /\ UNCHANGED <<emitted, socket, stream, decoder, reader, draining>>
  BY NothingIsAnItem DEF Consume
<1>2. /\ converter \in Item /\ EventsOf(reader) \in Seq(Event)
      /\ EventsOf(decoder) \o socket \in Seq(Event) /\ delivered \in Seq(Event)
      /\ <<>> \in Seq(Event)
  BY PartsAreTyped DEF Typed, TypeOK
<1> DEFINE rest == EventsOf(reader) \o (IF draining THEN <<>> ELSE EventsOf(decoder) \o socket)
<1>3. rest \in Seq(Event)
  BY <1>2, ConcatProperties
<1>4. Pending = EventsOf(converter) \o rest /\ Pending' = EventsOf(converter') \o rest
  BY <1>1 DEF Pending
<1> HIDE DEF rest
<1>5. Pending' = rest
  BY <1>1, <1>3, <1>4, ConcatEmptySeq
<1>6. CASE converter = <<Error>>
  <2>1. EventsOf(converter) = <<>> /\ delivered' = delivered
    BY <1>6, NothingIsAnItem DEF Consume, IsError
  <2>2. Pending' = Pending
    BY <1>3, <1>4, <1>5, <2>1, ConcatEmptySeq
  <2> QED
    BY <1>1, <2>1, <2>2 DEF Abstract!vars
<1>7. ASSUME NEW n \in Event, converter = <<n>>
      PROVE  Abstract!Deliver
  <2>1. EventsOf(converter) = <<n>> /\ converter # <<Error>>
    BY <1>2, <1>7, ItemCases
  <2>2. delivered' = Append(delivered, n)
    BY <1>2, <1>7, <2>1, AppendIsConcat DEF Consume, IsError
  <2>3. Pending # <<>> /\ Head(Pending) = n /\ Tail(Pending) = rest
    BY <1>3, <1>4, <2>1, ConcatHeadTail
  <2> QED
    BY <1>1, <1>5, <2>2, <2>3 DEF Abstract!Deliver
<1>8. CASE \E n \in Event : converter = <<n>>
  BY <1>7, <1>8 DEF Abstract!Next
<1> QED
  BY <1>1, <1>2, <1>6, <1>8, ItemCases

\* The ends of the goroutines, and the order to stop, move no event.
LEMMA EndsFollow ==
  ASSUME StopAllMonitorEvents \/ ReaderDrained \/ ConverterEnds \/ ConsumerEnds
  PROVE  UNCHANGED Abstract!vars
<1>1. UNCHANGED <<emitted, socket, stream, decoder, reader, converter, draining, delivered>>
  BY DEF StopAllMonitorEvents, ReaderDrained, ConverterEnds, ConsumerEnds, held
<1> QED
  BY <1>1 DEF Pending, Abstract!vars

LEMMA StepFollows == Typed /\ [Next]_vars => [Abstract!Next]_(Abstract!vars)
<1> SUFFICES ASSUME Typed, [Next]_vars  PROVE [Abstract!Next]_(Abstract!vars)
  OBVIOUS
<1>1. CASE Emit
  BY <1>1, EmitFollows DEF Abstract!Next
<1>2. CASE Fail
  BY <1>2, FailFollows DEF Abstract!Next
<1>3. CASE Decode \/ Decoded \/ Read
  BY <1>3, PassingOnFollows DEF Abstract!vars
<1>4. CASE ReaderStops
  BY <1>4, ReaderStopsFollows DEF Abstract!Next
<1>5. CASE Consume
  BY <1>5, ConsumeFollows
<1>6. CASE StopAllMonitorEvents \/ ReaderDrained \/ ConverterEnds \/ ConsumerEnds
  BY <1>6, EndsFollow
<1>7. CASE UNCHANGED vars
  BY <1>7 DEF vars, held, Pending, Abstract!vars
<1> QED
  BY <1>1, <1>2, <1>3, <1>4, <1>5, <1>6, <1>7 DEF Next, ReaderEnds

\* The four goroutines hand on the daemon's events as one stream that may break.
THEOREM StreamImplemented == Spec => StreamSteps
<1> QED
  BY InitTyped, StepTyped, InitFollows, StepFollows, PTL DEF Spec, StreamSteps
-----------------------------------------------------------------------------
(* Order *)

\* What the steps of the stream do to the events delivered and pending: one is
\* added at the end, or they stay, or they are cut off somewhere.
LEMMA KnownEvents ==
  ASSUME Typed, Typed', [Abstract!Next]_(Abstract!vars)
  PROVE  LET known == delivered \o Pending IN
           /\ known \in Seq(Event)
           /\ \/ known' = known /\ emitted' = emitted /\ (stream' = "open" => stream = "open")
              \/ /\ emitted' = emitted + 1 /\ stream' # "open" /\ known' = known
              \/ /\ emitted' = emitted + 1 /\ stream = "open"
                 /\ emitted' \in Event /\ known' = Append(known, emitted')
              \/ /\ emitted' = emitted /\ stream' # "open"
                 /\ \E n \in 0..Len(known) : known' = SubSeq(known, 1, n)
<1> DEFINE known == delivered \o Pending
<1>1. delivered \in Seq(Event) /\ Pending \in Seq(Event)
  BY PartsAreTyped DEF Typed, TypeOK
<1>2. known \in Seq(Event)
  BY <1>1, ConcatProperties
<1>3. CASE Abstract!Emit
  <2>1. emitted' = emitted + 1 /\ delivered' = delivered /\ emitted' \in Event
    BY <1>3, EventsAssumption DEF Abstract!Emit, Typed, TypeOK, Event
  <2>2. CASE stream = "open"
    <3>1. Pending' = Append(Pending, emitted')
      BY <1>3, <2>2 DEF Abstract!Emit
    <3>2. delivered \o Append(Pending, emitted') = Append(delivered \o Pending, emitted')
      BY <1>1, <2>1, ConcatAppend
    <3> QED
      BY <1>2, <2>1, <2>2, <3>1, <3>2
  <2>3. CASE stream # "open"
    <3>1. Pending' = Pending /\ stream' # "open"
      BY <1>3, <2>3 DEF Abstract!Emit
    <3> QED
      BY <1>2, <2>1, <3>1
  <2> QED
    BY <2>2, <2>3
<1>4. CASE Abstract!Deliver
  <2> DEFINE h == Head(Pending)
             t == Tail(Pending)
  <2>1. /\ Pending # <<>> /\ delivered' = Append(delivered, h) /\ Pending' = t
        /\ emitted' = emitted /\ (stream' = "open" <=> stream = "open")
    BY <1>4 DEF Abstract!Deliver
  <2>2. h \in Event /\ t \in Seq(Event) /\ <<h>> \o t = Pending
    BY <1>1, <2>1, HeadTailProperties, HeadThenTail
  <2> HIDE DEF h, t
  <2>3. <<h>> \in Seq(Event) /\ Append(delivered, h) = delivered \o <<h>>
    BY <1>1, <2>2, AppendIsConcat
  <2>4. (delivered \o <<h>>) \o t = delivered \o (<<h>> \o t)
    BY <1>1, <2>2, <2>3, ConcatAssociative
  <2>5. known' = known
    BY <2>1, <2>2, <2>3, <2>4
  <2> QED
    BY <1>2, <2>1, <2>5
<1>5. CASE Abstract!Break
  <2>1. delivered' = delivered /\ emitted' = emitted /\ stream' # "open"
    BY <1>5 DEF Abstract!Break
  <2>2. PICK n \in 0..Len(Pending) : Pending' = SubSeq(Pending, 1, n)
    BY <1>5 DEF Abstract!Break
  <2>3. /\ delivered \o SubSeq(Pending, 1, n) = SubSeq(known, 1, Len(delivered) + n)
        /\ Len(delivered) + n \in 0..Len(known)
    BY <1>1, ConcatCut
  <2> QED
    BY <1>2, <2>1, <2>2, <2>3
<1>6. CASE UNCHANGED Abstract!vars
  <2>1. Pending' = Pending /\ delivered' = delivered /\ emitted' = emitted
        /\ (stream' = "open" <=> stream = "open")
    BY <1>6 DEF Abstract!vars
  <2> QED
    BY <1>2, <2>1
<1> QED
  BY <1>3, <1>4, <1>5, <1>6 DEF Abstract!Next

LEMMA InitOrdered == Init => OrderInv
<1> SUFFICES ASSUME Init  PROVE OrderInv
  OBVIOUS
<1>1. Pending = <<>> /\ delivered = <<>> /\ emitted = 0
  BY InitFollows DEF Init, Abstract!Init
<1>2. <<>> \o <<>> = <<>>
  OBVIOUS
<1>3. Len(delivered \o Pending) = 0
  BY <1>1, <1>2
<1> QED
  BY <1>1, <1>3 DEF OrderInv

LEMMA StepOrdered ==
  ASSUME Typed, Typed', OrderInv, [Abstract!Next]_(Abstract!vars)
  PROVE  OrderInv'
<1> DEFINE known == delivered \o Pending
<1>1. /\ known \in Seq(Event)
      /\ \/ known' = known /\ emitted' = emitted /\ (stream' = "open" => stream = "open")
         \/ /\ emitted' = emitted + 1 /\ stream' # "open" /\ known' = known
         \/ /\ emitted' = emitted + 1 /\ stream = "open"
            /\ emitted' \in Event /\ known' = Append(known, emitted')
         \/ /\ emitted' = emitted /\ stream' # "open"
            /\ \E n \in 0..Len(known) : known' = SubSeq(known, 1, n)
  BY KnownEvents
<1>2. /\ Len(known) <= emitted /\ (stream = "open" => Len(known) = emitted)
      /\ \A i \in 1..Len(known) : known[i] = i
      /\ emitted \in Nat
  BY DEF OrderInv, Typed, TypeOK
<1> DEFINE Ordered == /\ Len(known') <= emitted'
                      /\ \A i \in 1..Len(known') : known'[i] = i
                      /\ stream' = "open" => Len(known') = emitted'
<1> SUFFICES Ordered
  BY DEF OrderInv
<1> HIDE DEF known
<1>3. Len(known) \in Nat
  BY <1>1
<1>4. CASE known' = known /\ emitted' = emitted /\ (stream' = "open" => stream = "open")
  BY <1>2, <1>4
<1>5. CASE emitted' = emitted + 1 /\ stream' # "open" /\ known' = known
  BY <1>2, <1>3, <1>5
<1>6. CASE /\ emitted' = emitted + 1 /\ stream = "open"
           /\ emitted' \in Event /\ known' = Append(known, emitted')
  <2>1. /\ Len(known') = Len(known) + 1 /\ known'[Len(known) + 1] = emitted'
        /\ \A i \in 1..Len(known) : known'[i] = known[i]
    BY <1>1, <1>6, AppendProperties
  <2> QED
    BY <1>2, <1>3, <1>6, <2>1
<1>7. CASE /\ emitted' = emitted /\ stream' # "open"
           /\ \E n \in 0..Len(known) : known' = SubSeq(known, 1, n)
  <2>1. PICK n \in 0..Len(known) : known' = SubSeq(known, 1, n)
    BY <1>7
  <2>2. Len(known') = n /\ \A i \in 1..n : known'[i] = known[i]
    BY <1>1, <1>3, <2>1
  <2> QED
    BY <1>2, <1>3, <1>7, <2>1, <2>2
<1> QED
  BY <1>1, <1>4, <1>5, <1>6, <1>7

\* Whatever is lost, what listenForEvents is given are the first events, each of
\* them once and in the order in which the daemon emitted them.
THEOREM EventsInOrder == Spec => []InOrder
<1>1. Typed /\ OrderInv => InOrder
  <2> SUFFICES ASSUME Typed, OrderInv  PROVE InOrder
    OBVIOUS
  <2> DEFINE known == delivered \o Pending
  <2>1. delivered \in Seq(Event) /\ Pending \in Seq(Event)
    BY PartsAreTyped DEF Typed, TypeOK
  <2>2. /\ Len(known) = Len(delivered) + Len(Pending)
        /\ \A i \in 1..(Len(delivered) + Len(Pending)) :
             known[i] = IF i <= Len(delivered) THEN delivered[i]
                        ELSE Pending[i - Len(delivered)]
    BY <2>1, ConcatProperties
  <2>3. \A i \in 1..Len(known) : known[i] = i
    BY DEF OrderInv
  <2>4. Len(delivered) \in Nat /\ Len(Pending) \in Nat
    BY <2>1
  <2> HIDE DEF known
  <2> QED
    BY <2>2, <2>3, <2>4 DEF InOrder
<1>2. Typed /\ Typed' /\ OrderInv /\ [Next]_vars => OrderInv'
  BY StepFollows, StepOrdered
<1> QED
  BY InitTyped, StepTyped, InitOrdered, <1>1, <1>2, PTL DEF Spec
=============================================================================

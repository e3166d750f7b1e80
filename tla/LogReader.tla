------------------------------ MODULE LogReader ------------------------------
(***************************************************************************)
(* Processing the events of a log of the file transport                    *)
(* (TFileTransport.cpp: peek, read, readAll, TFileProcessor) while         *)
(* somebody else appends to it.  Events have the same length here and are  *)
(* never damaged (FileTransport has those that are); each holds one        *)
(* message.  A processor may fail in the middle of an event, with an       *)
(* exception of Thrift or another.  Time-outs above 0 wait and then do     *)
(* what none does.                                                         *)
(***************************************************************************)
EXTENDS Integers, Sequences

CONSTANTS
  EventCells,      \* the length of an event
  ReadBufferCells, \* readBuffSize_, at least an event
  ChunkCells,      \* chunkSize_
  MaxLogEvents     \* bound: events appended

VARIABLES
  written,      \* events in the file
  reader,       \* the position of the file, offset_, bufferLen_, bufferPtr_
  currentEvent_, \* the event that is being read and what is left of it
  readTimeout_, \* "tail": wait for more at the end of the file
  underWay,     \* the call of the TFileProcessor
  handed,       \* the events handed to the processor
  leftTailing   \* a call that tails has ended early

logReaderVars == <<written, reader, currentEvent_, readTimeout_, underWay, handed, leftTailing>>

NoEvent == <<0, 0>>
NoCall == [kind |-> "none", numEvents |-> 0, tail |-> FALSE, numProcessed |-> 0, old |-> "none", curChunk |-> 0]

LogReaderInit ==
  /\ written \in 0..MaxLogEvents
  /\ reader = [position |-> 0, offset_ |-> 0, bufferLen_ |-> 0, bufferPtr_ |-> 0]
  /\ currentEvent_ = NoEvent /\ readTimeout_ = "none"
  /\ underWay = NoCall /\ handed = << >> /\ leftTailing = FALSE

AppendEvent ==
  /\ written < MaxLogEvents /\ written' = written + 1
  /\ UNCHANGED <<reader, currentEvent_, readTimeout_, underWay, handed, leftTailing>>

-----------------------------------------------------------------------------
\* The buffer is empty: offset_ goes on to what comes next, as much as there is of it.
Refilled(r) ==
  LET there == EventCells * written - r.position
      got == IF there < ReadBufferCells THEN there ELSE ReadBufferCells
  IN [position |-> r.position + got, offset_ |-> r.offset_ + r.bufferLen_, bufferLen_ |-> got, bufferPtr_ |-> 0]

AtEnd == reader.bufferPtr_ = reader.bufferLen_ /\ reader.position = EventCells * written

\* Faulty variant: what the buffer still has of the event is passed over.
EventFromNextBuffer(r) ==
  IF r.bufferLen_ - r.bufferPtr_ >= EventCells THEN [r EXCEPT !.bufferPtr_ = @ + EventCells]
  ELSE [Refilled(r) EXCEPT !.bufferPtr_ = EventCells]

\* An event: the end of one buffer may have its beginning.
ReadEvent(r) ==
  LET have == r.bufferLen_ - r.bufferPtr_
  IN IF have >= EventCells THEN [r EXCEPT !.bufferPtr_ = @ + EventCells]
     ELSE [Refilled(r) EXCEPT !.bufferPtr_ = EventCells - have]

\* Which event a reader comes to next.
Following(r) == (r.position - r.bufferLen_ + r.bufferPtr_) \div EventCells + 1

\* currentEvent_, if need be after reading it.
HasEvent == currentEvent_ # NoEvent \/ ~AtEnd
Current == IF currentEvent_ # NoEvent THEN currentEvent_ ELSE <<Following(reader), EventCells>>
Takes(left) ==
  /\ HasEvent
  /\ reader' = IF currentEvent_ # NoEvent THEN reader ELSE ReadEvent(reader)
  /\ currentEvent_' = IF left = 0 THEN NoEvent ELSE <<Current[1], left>>

\* Is something there?  The answer is kept for whoever reads it.
Peek ==
  /\ underWay = NoCall /\ currentEvent_ = NoEvent /\ Takes(EventCells)
  /\ UNCHANGED <<written, readTimeout_, underWay, handed, leftTailing>>

-----------------------------------------------------------------------------
\* TFileProcessor.
Process(numEvents, tail) ==
  /\ underWay = NoCall
  /\ underWay' = [NoCall EXCEPT !.kind = "process", !.numEvents = numEvents, !.tail = tail, !.old = readTimeout_]
  /\ readTimeout_' = IF tail THEN "tail" ELSE readTimeout_
  /\ UNCHANGED <<written, reader, currentEvent_, handed, leftTailing>>

ProcessChunk ==
  /\ underWay = NoCall
  /\ underWay' = [NoCall EXCEPT !.kind = "chunk", !.curChunk = reader.offset_ \div ChunkCells]
  /\ UNCHANGED <<written, reader, currentEvent_, readTimeout_, handed, leftTailing>>

\* Faulty variant: the old time-out is forgotten.
NotRestored == readTimeout_

\* A call breaks out of its loop, and restores.
Restored == IF underWay.tail THEN underWay.old ELSE readTimeout_
Breaks == underWay' = NoCall /\ readTimeout_' = Restored /\ UNCHANGED leftTailing

\* It leaves it otherwise: the time-out stays.
Leaves == underWay' = NoCall /\ leftTailing' = (leftTailing \/ underWay.tail) /\ UNCHANGED readTimeout_

\* An event that is whole is a message.
Handled ==
  /\ underWay # NoCall /\ Current[2] = EventCells /\ Takes(0)
  /\ handed' = Append(handed, Current[1])
  /\ \/ /\ underWay.kind = "process"
        /\ IF underWay.numEvents > 0 /\ underWay.numProcessed + 1 = underWay.numEvents THEN Leaves
           ELSE /\ underWay' = [underWay EXCEPT !.numProcessed = IF underWay.numEvents > 0 THEN @ + 1 ELSE @]
                /\ UNCHANGED <<readTimeout_, leftTailing>>
     \/ /\ underWay.kind = "chunk"
        /\ IF reader'.offset_ \div ChunkCells # underWay.curChunk THEN Breaks
           ELSE UNCHANGED <<underWay, readTimeout_, leftTailing>>
  /\ UNCHANGED written

\* A TException, with some of the event left; what is left will be no message to the next call.
HandledBadly ==
  /\ underWay # NoCall
  /\ \E left \in 0 .. Current[2] - 1 : (Current[2] < EventCells => left = 0) /\ Takes(left)
  /\ handed' = IF Current[2] = EventCells THEN Append(handed, Current[1]) ELSE handed
  /\ Breaks /\ UNCHANGED written

\* Any other exception of a handler.
HandlerEscapes ==
  /\ underWay # NoCall /\ Current[2] = EventCells /\ Takes(0)
  /\ handed' = Append(handed, Current[1])
  /\ Leaves /\ UNCHANGED written

\* A TEOFException, for readAll that gets nothing.
EndOfFile ==
  /\ underWay # NoCall /\ ~HasEvent /\ readTimeout_ = "none"
  /\ reader' = Refilled(reader)
  /\ IF underWay.tail THEN UNCHANGED <<underWay, readTimeout_, leftTailing>> ELSE Breaks
  /\ UNCHANGED <<written, currentEvent_, handed>>

LogReaderNext ==
  \/ AppendEvent \/ Peek
  \/ \E numEvents \in 0..2, tail \in BOOLEAN : Process(numEvents, tail)
  \/ ProcessChunk \/ Handled \/ HandledBadly \/ HandlerEscapes \/ EndOfFile

-----------------------------------------------------------------------------
LogReaderTypeOK ==
  /\ written \in 0..MaxLogEvents
  /\ reader.bufferLen_ \in 0..ReadBufferCells /\ reader.bufferPtr_ \in 0 .. reader.bufferLen_
  /\ currentEvent_ \in ((1..MaxLogEvents) \X (1..EventCells)) \cup {NoEvent}
  /\ readTimeout_ \in {"none", "tail"} /\ leftTailing \in BOOLEAN
  /\ DOMAIN underWay = DOMAIN NoCall /\ Len(handed) <= MaxLogEvents

\* The processor gets each event once, in the order of the file, over all calls, however they end and
\* wherever buffers end; and offset_ is where the buffer has its place in the file.
EventsProcessed ==
  /\ \A i \in 1 .. Len(handed) : handed[i] = i
  /\ reader.offset_ + reader.bufferLen_ = reader.position

\* A call that is not to tail never waits for more at the end of the file, unless a call that was to has
\* ended early.
EndsAtEnd == underWay # NoCall /\ ~underWay.tail /\ readTimeout_ = "tail" => leftTailing
=============================================================================

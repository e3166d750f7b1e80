--------------------------- MODULE FileTransport ---------------------------
(***************************************************************************)
(* TFileTransport: events go into a buffer that a writer thread exchanges  *)
(* for its own and appends to a file, so that none crosses the boundary of *)
(* a chunk; flush waits for the writer's fsync; the destructor lets it     *)
(* finish.  A reader finds the events again by their sizes.                *)
(*                                                                         *)
(* One thread writes and flushes, as the comments of the code ask.  A file *)
(* is a sequence of cells; of an event the first Header cells are its      *)
(* size, and a cell says which event and which place in it it is.          *)
(***************************************************************************)
EXTENDS Integers, Sequences

CONSTANTS
  Header, Chunk,   \* the cells of a size, of a chunk
  Sizes,           \* the sizes of events, with their headers
  MaxEvents,
  BufferSize,      \* eventBufferSize_
  MaxFaults        \* the errors of the disk and the crashes

\* What the constants are assumed to be.
SizesAssumption ==
  /\ {Header, Chunk, MaxEvents, BufferSize, MaxFaults} \subseteq Nat /\ Sizes \subseteq Nat
  /\ Chunk > Header /\ \A n \in Sizes : n > Header

VARIABLES
  given,       \* the sizes of the events so far
  caller,      \* what the caller does
  enqueueBuffer_, dequeueBuffer_,
  forceFlush_, closing_,
  writer,      \* where writerThread is
  hasIOError, offset_,
  file, onDisk,   \* the file, and how much of it fsync has made sure of
  damaged,     \* history: the chunks in which an event stands behind a torn one, or across the end
  lost,        \* history: the events that were torn, dropped or put into these chunks
  unsynced,    \* history: the last fsync has failed
  faults

callers == <<given, caller>>
buffers == <<enqueueBuffer_, dequeueBuffer_>>
flags == <<forceFlush_, closing_>>
damages == <<damaged, lost>>
disk == <<file, onDisk, damages, unsynced>>
fileVars == <<callers, buffers, flags, writer, hasIOError, offset_, disk, faults>>

Size(e) == given[e]
Zero == <<0, 0>>
Junk == 0
Cells(e) == [k \in 1 .. Size(e) |-> <<e, k>>]
Zeros(n) == [k \in 1 .. n |-> Zero]
ChunkOf(offset) == offset \div Chunk

FileInit ==
  /\ given = << >> /\ caller = "idle"
  /\ enqueueBuffer_ = << >> /\ dequeueBuffer_ = << >>
  /\ forceFlush_ = FALSE /\ closing_ = FALSE
  /\ writer = "none" /\ hasIOError = FALSE /\ offset_ = 0
  /\ file = << >> /\ onDisk = 0 /\ damaged = {} /\ lost = {} /\ unsynced = FALSE
  /\ faults = 0

-----------------------------------------------------------------------------
\* What a reader makes of a file.

\* readEvent, from the beginning to the end of the file: it skips cells in which
\* no size fits before the boundary of a chunk, and sizes of zero; an event that
\* crosses a boundary is corrupted, and reading goes on at the next chunk.
\* (maxCorruptedEvents_ is 0.)  An event whose cells are not its own reads as Junk.  What it makes
\* of cells that are no size stays in the chunk: an event that reached beyond would be corrupted.
Events(f) ==
  LET NextChunk(p) == (ChunkOf(p - 1) + 1) * Chunk + 1
      read[p \in 1 .. Len(f) + Chunk] ==
        IF p + Header - 1 > Len(f) THEN << >>
        ELSE IF ChunkOf(p - 1) # ChunkOf(p + Header - 2) THEN read[p + 1]
        ELSE IF \A k \in 0 .. Header - 1 : f[p + k] = Zero THEN read[p + Header]
        ELSE IF \E k \in 0 .. Header - 1 : f[p + k] # <<f[p][1], k + 1>>
             THEN <<Junk>> \o read[NextChunk(p)]
        ELSE LET e == f[p][1]
                 last == p + Size(e) - 1
             IN  IF ChunkOf(p - 1) # ChunkOf(last - 1) THEN read[NextChunk(p)]
                 ELSE IF last > Len(f) THEN << >>
                 ELSE <<IF SubSeq(f, p, last) = Cells(e) THEN e ELSE Junk>> \o read[last + 1]
  IN  read[1]

-----------------------------------------------------------------------------
\* The caller.

Idle == caller = "idle"

\* enqueueEvent; the first one starts the writer.
Enqueue(n) ==
  /\ Idle /\ Len(given) < MaxEvents
  /\ given' = Append(given, n)
  /\ writer' = IF writer = "none" THEN "opening" ELSE writer
  /\ IF Len(enqueueBuffer_) = BufferSize
     THEN caller' = "blocked" /\ UNCHANGED enqueueBuffer_
     ELSE enqueueBuffer_' = Append(enqueueBuffer_, Len(given) + 1) /\ UNCHANGED caller
  /\ UNCHANGED <<dequeueBuffer_, flags, hasIOError, offset_, disk, faults>>

\* After the wait for notFull_.
Unblocked ==
  /\ caller = "blocked" /\ Len(enqueueBuffer_) < BufferSize
  /\ caller' = "idle"
  /\ enqueueBuffer_' = Append(enqueueBuffer_, Len(given))
  /\ UNCHANGED <<given, dequeueBuffer_, flags, writer, hasIOError, offset_, disk, faults>>

flush ==
  /\ Idle /\ writer # "none"
  /\ caller' = "flushing" /\ forceFlush_' = TRUE
  /\ UNCHANGED <<given, buffers, closing_, writer, hasIOError, offset_, disk, faults>>

FlushEnds ==
  /\ caller = "flushing" /\ ~forceFlush_
  /\ caller' = "idle"
  /\ UNCHANGED <<given, buffers, flags, writer, hasIOError, offset_, disk, faults>>

\* The destructor, up to join.
Destroy ==
  /\ Idle /\ writer # "none" /\ closing_' = TRUE /\ caller' = "joining"
  /\ UNCHANGED <<given, buffers, forceFlush_, writer, hasIOError, offset_, disk, faults>>

\* ... and another transport for the same file.
Joined ==
  /\ caller = "joining" /\ writer = "ended"
  /\ caller' = "idle" /\ writer' = "none" /\ closing_' = FALSE
  /\ enqueueBuffer_' = << >> /\ dequeueBuffer_' = << >> /\ hasIOError' = FALSE
  /\ UNCHANGED <<given, forceFlush_, offset_, disk, faults>>

\* The cells up to k are whole events, and sizes of zero behind them or padding to the boundary.
WholeUpTo(k) ==
  \/ k % Chunk = 0
  \/ \E m \in 0 .. k : /\ (k - m) % Header = 0 /\ \A j \in m + 1 .. k : file[j] = Zero
                       /\ m > 0 => file[m] # Zero /\ file[m][2] = Size(file[m][1])

\* The machine stops: what fsync has not made sure of may be lost from some
\* cell on.
Crash ==
  /\ faults < MaxFaults /\ faults' = faults + 1
  /\ \E k \in onDisk .. Len(file) : file' = SubSeq(file, 1, k) /\ onDisk' = k
  /\ caller' = "idle" /\ writer' = "none" /\ closing_' = FALSE /\ forceFlush_' = FALSE
  /\ enqueueBuffer_' = << >> /\ dequeueBuffer_' = << >> /\ hasIOError' = FALSE
  /\ unsynced' = FALSE
  /\ UNCHANGED <<given, offset_, damages>>

-----------------------------------------------------------------------------
\* writerThread.

Goes(from, to) == writer = from /\ writer' = to

\* In a damaged chunk the reader may find what it takes for a corrupted event, and throw.
LastDamaged == ChunkOf(Len(file)) \in damaged

\* Where seekToEnd leaves offset_: it is the place of the read buffer, unless
\* the reader ran into the end of the file behind the last event.
SeekToEnd ==
  LET stays == file # << >> /\ file[Len(file)] # Zero /\ WholeUpTo(Len(file))
  IN  (IF stays \/ LastDamaged THEN {ChunkOf(Len(file)) * Chunk} ELSE {})
        \cup (IF stays /\ ~LastDamaged THEN {} ELSE {Len(file)})

\* The file is opened.  What lastDispatchPtr_ adds brings offset_ to the end of
\* the file, so that nothing is cut off; a partial event neither.
Open ==
  /\ Goes("opening", "top")
  /\ offset_' = Len(file)
  /\ UNCHANGED <<callers, buffers, flags, hasIOError, disk, faults>>

OpenFails ==
  /\ Goes("opening", "top") /\ hasIOError' = TRUE
  /\ \/ LastDamaged /\ UNCHANGED faults
     \/ faults < MaxFaults /\ faults' = faults + 1
  /\ UNCHANGED <<callers, buffers, flags, offset_, disk>>

BuffersEmpty == enqueueBuffer_ = << >> /\ dequeueBuffer_ = << >>

MayEnd == closing_ /\ (hasIOError \/ BuffersEmpty)

Top ==
  /\ ~MayEnd /\ Goes("top", "swapping")
  /\ UNCHANGED <<callers, buffers, flags, hasIOError, offset_, disk, faults>>

\* Nobody looks at the result of an fsync.
Syncs ==
  \/ onDisk' = Len(file) /\ unsynced' = FALSE /\ UNCHANGED faults
  \/ faults < MaxFaults /\ faults' = faults + 1 /\ unsynced' = TRUE /\ UNCHANGED onDisk

Ends ==
  /\ MayEnd /\ Goes("top", "ended")
  /\ IF hasIOError THEN UNCHANGED <<onDisk, unsynced, faults>> ELSE Syncs
  /\ UNCHANGED <<callers, buffers, flags, hasIOError, offset_, file, damages>>

\* swapEventBuffers; after a wait, whatever ended it, the buffers are exchanged
\* only if there is nothing in them.
Swap ==
  /\ enqueueBuffer_ # << >> /\ Goes("swapping", "writing")
  /\ dequeueBuffer_' = enqueueBuffer_ /\ enqueueBuffer_' = << >>
  /\ UNCHANGED <<callers, flags, hasIOError, offset_, disk, faults>>

Waits ==
  /\ enqueueBuffer_ = << >>
  /\ Goes("swapping", IF closing_ THEN "checking" ELSE "waiting")
  /\ UNCHANGED <<callers, buffers, flags, hasIOError, offset_, disk, faults>>

Wakes ==
  /\ Goes("waiting", "checking")
  /\ UNCHANGED <<callers, buffers, flags, hasIOError, offset_, disk, faults>>

Event == Head(dequeueBuffer_)
Taken == dequeueBuffer_' = Tail(dequeueBuffer_)
HasEvent == writer = "writing" /\ dequeueBuffer_ # << >>

\* The recovery from an error of the disk: the file is opened again, unless the
\* transport closes.
Recover ==
  /\ HasEvent /\ hasIOError
  /\ \/ closing_ /\ writer' = "ended" /\ UNCHANGED <<hasIOError, offset_>>
     \/ ~closing_ /\ hasIOError' = FALSE /\ offset_' \in SeekToEnd /\ UNCHANGED writer
  /\ UNCHANGED <<callers, buffers, flags, disk, faults>>

SkipEvent ==
  /\ HasEvent /\ ~hasIOError /\ Size(Event) > Chunk
  /\ Taken
  /\ UNCHANGED <<callers, enqueueBuffer_, flags, writer, hasIOError, offset_, disk, faults>>

\* Faulty variant: the cell behind the event counts as the event's.
LastCellMissed(e) == ChunkOf(offset_) # ChunkOf(offset_ + Size(e) - 2)

WouldCross(e) == ChunkOf(offset_) # ChunkOf(offset_ + Size(e) - 1)

MayWrite == HasEvent /\ ~hasIOError /\ Size(Event) <= Chunk

\* A write of n cells may be cut short, which nobody looks at either.
Completes(n, k) == k = n /\ UNCHANGED faults
CutShort(n, k) == k \in 1 .. n - 1 /\ faults < MaxFaults /\ faults' = faults + 1

Pad ==
  /\ MayWrite /\ WouldCross(Event)
  /\ LET padding == (ChunkOf(Len(file)) + 1) * Chunk - Len(file)
     IN  \E k \in 1 .. padding :
           /\ Completes(padding, k) \/ CutShort(padding, k)
           /\ file' = file \o Zeros(k) /\ offset_' = Len(file) + padding
  /\ UNCHANGED <<callers, buffers, flags, writer, hasIOError, onDisk, damages, unsynced>>

\* The chunks that an event of n cells is put into.
Touched(n) == {ChunkOf(Len(file)), ChunkOf(Len(file) + n - 1)}

\* A torn event, or an offset that does not tell where the file ends, spoils the chunks of the event
\* that is written next.
Spoils(n) ==
  \/ ~WholeUpTo(Len(file))
  \/ offset_ # Len(file) /\ ChunkOf(Len(file)) # ChunkOf(Len(file) + n - 1)

WriteEvent ==
  /\ MayWrite /\ ~WouldCross(Event) /\ Taken
  /\ LET n == Size(Event)
     IN  \E k \in 1 .. n :
           /\ Completes(n, k) \/ CutShort(n, k)
           /\ file' = file \o SubSeq(Cells(Event), 1, k) /\ offset_' = offset_ + n
           /\ damaged' = IF Spoils(n) THEN damaged \cup Touched(n) ELSE damaged
           /\ lost' = IF k < n \/ Touched(n) \cap damaged' # {} THEN lost \cup {Event} ELSE lost
  /\ UNCHANGED <<callers, enqueueBuffer_, flags, writer, hasIOError, onDisk, unsynced>>

\* Either write fails: the event is dropped.
WriteFails ==
  /\ MayWrite /\ Taken
  /\ faults < MaxFaults /\ faults' = faults + 1
  /\ hasIOError' = TRUE /\ lost' = lost \cup {Event}
  /\ offset_' = IF WouldCross(Event) THEN Len(file) ELSE offset_
  /\ UNCHANGED <<callers, enqueueBuffer_, flags, writer, file, onDisk, damaged, unsynced>>

Written ==
  /\ dequeueBuffer_ = << >> /\ Goes("writing", "checking")
  /\ UNCHANGED <<callers, buffers, flags, hasIOError, offset_, disk, faults>>

\* Whether to sync.  An error of the disk, and events that came meanwhile, are
\* seen to first.
MustSync == ~hasIOError /\ forceFlush_ /\ enqueueBuffer_ = << >>

Check ==
  /\ Goes("checking", IF MustSync THEN "syncing" ELSE "top")
  /\ UNCHANGED <<callers, buffers, flags, hasIOError, offset_, disk, faults>>

\* Enough was written, or enough time has passed.  (Where this fsync fails it is as if there had been
\* none: nobody has been promised anything.)
SyncInBetween ==
  /\ ~hasIOError /\ ~forceFlush_ /\ Goes("checking", "top")
  /\ onDisk' = Len(file) /\ unsynced' = FALSE
  /\ UNCHANGED <<callers, buffers, flags, hasIOError, offset_, file, damages, faults>>

ForcedSync ==
  /\ Goes("syncing", "telling") /\ Syncs
  /\ UNCHANGED <<callers, buffers, flags, hasIOError, offset_, file, damages>>

Tell ==
  /\ Goes("telling", "top") /\ forceFlush_' = FALSE
  /\ UNCHANGED <<callers, buffers, closing_, hasIOError, offset_, disk, faults>>

-----------------------------------------------------------------------------
Caller == (\E n \in Sizes : Enqueue(n)) \/ Unblocked \/ flush \/ FlushEnds \/ Destroy \/ Joined
Writer == \/ Open \/ OpenFails \/ Top \/ Ends \/ Swap \/ Waits \/ Wakes \/ Recover \/ SkipEvent
          \/ Pad \/ WriteEvent \/ WriteFails \/ Written \/ Check \/ SyncInBetween \/ ForcedSync
          \/ Tell

FileNext == Caller \/ Writer \/ Crash

\* The writer thread is scheduled, its waits end with their deadlines, and a
\* caller that has been told goes on.
FileFairness == WF_fileVars(Writer) /\ WF_fileVars(FlushEnds)

FileSpec == FileInit /\ [][FileNext]_fileVars /\ FileFairness

-----------------------------------------------------------------------------
FileTypeOK ==
  /\ given \in Seq(Sizes) /\ Len(given) <= MaxEvents
  /\ caller \in {"idle", "blocked", "flushing", "joining"}
  /\ Len(enqueueBuffer_) <= BufferSize /\ Len(dequeueBuffer_) <= BufferSize
  /\ writer \in {"none", "opening", "top", "swapping", "waiting", "writing", "checking", "syncing",
                 "telling", "ended"}
  /\ offset_ \in Nat /\ onDisk \in 0 .. Len(file)
  /\ damaged \subseteq Nat /\ lost \subseteq 1 .. Len(given) /\ unsynced \in BOOLEAN
  /\ faults \in 0 .. MaxFaults

Fits(e) == Size(e) <= Chunk
Blocked == IF caller = "blocked" THEN <<Len(given)>> ELSE << >>

\* What a reader finds; once something has gone wrong it may find junk, and a lost event by chance.
Found(f) ==
  LET Counts(e) == e \notin lost /\ (e = Junk => faults = 0) IN SelectSeq(Events(f), Counts)

Log == INSTANCE DurableLog WITH
         log <- Found(file),
         durable <- Found(SubSeq(file, 1, onDisk)),
         queue <- SelectSeq(dequeueBuffer_ \o enqueueBuffer_ \o Blocked, Fits),
         flushing <- caller = "flushing",
         open <- writer # "ended",
         broken <- hasIOError,
         spoilt <- lost,
         doubted <- unsynced

\* The transport, its file and its reader are a durable log: what the reader
\* finds, over boundaries of chunks, padding, errors of the disk, crashes and restarts, are the events
\* in their order; what flush returned for is found after any crash, unless the fsync failed; flush
\* returns.  Not found are only events that an error dropped or cut short, and those that were
\* written behind a torn one in the same chunk (openLogFile throws no partial event away), or
\* across the end of a chunk because offset_ did not tell where the file ends.
ImplementsLog == Log!LogSpec
=============================================================================

----------------------------- MODULE RecordLog -----------------------------
(***************************************************************************)
(* The record log of whisperlib/io/logio: a LogWriter that packs records   *)
(* into blocks of a fixed size and blocks into numbered files (logio.cc,   *)
(* recordio.cc), and a LogReader of another thread that follows it.        *)
(*                                                                         *)
(* A record is its number, a piece of it in a block is a record header     *)
(* (IS_FIRST is part 1, HAS_CONT is cont) with the number; sizes are       *)
(* counted in units, a header being one unit.  The CRC of a block is the   *)
(* serial number of the block: 0 is the CRC that means "not known".        *)
(***************************************************************************)
EXTENDS Integers, Sequences, FiniteSets, SequencesExt

CONSTANTS
    NumRecords,     \* bound: records given to WriteRecord
    Sizes,          \* payload sizes of records
    Capacity,       \* block_size_ - kBlockTrailerEnd
    Dumpable,       \* dumpable_size_
    BlocksPerFile,
    MoveMidRecord,  \* a reader is also moved or replaced in the middle of a record
    MaxFaults       \* bound: failed writes and crashes

\* With the default 0.9 a block that is left open has room for a header and a
\* byte, from blocks of 53 bytes on.
ASSUME LogAssumption ==
    /\ NumRecords \in Nat /\ Sizes \subseteq Nat /\ BlocksPerFile \in Nat \ {0}
    /\ Capacity \in Nat /\ Dumpable \in Nat /\ Dumpable + 2 <= Capacity

VARIABLES
    disk,       \* function from file numbers to the blocks of the file
    torn,       \* files that end in a part of a block
    w,          \* the LogWriter with its RecordWriter
    written,    \* number of the last record given to WriteRecord
    serial,     \* number of blocks finalized
    marks,      \* Tell() of the writer before each record, where it makes sense
    r,          \* the LogReader with its RecordReader
    returned,   \* observation: what GetNextRecord returned since the reader was made
    sought,     \* observation: the record the last Seek went to, 0 after Rewind
    astray,     \* observation: since it was last moved the reader had a removed file open
    stray,      \* observation: a failed write left blocks in buf_ that belong elsewhere
    faults

diskVars == <<disk, torn, stray>>
writerVars == <<w, written, serial, marks>>
readerVars == <<r, returned, sought, astray>>
vars == <<diskVars, writerVars, readerVars, faults>>

NoPos == [file |-> -1, block |-> 0, record |-> 0]
Pos(f, b, n) == [file |-> f, block |-> b, record |-> n]
Before(p, q) ==
    \/ p.file < q.file
    \/ p.file = q.file /\ (p.block < q.block \/ (p.block = q.block /\ p.record < q.record))

Exists(f) == f \in DOMAIN disk
Blocks(f) == IF Exists(f) THEN disk[f] ELSE <<>>

NewWriter == [pc |-> "down", file |-> 0, content |-> <<>>, fill |-> 0, buf |-> <<>>,
              prev |-> 0, rest |-> 0, part |-> 1, then |-> "idle"]
\* errors: num_errors_ is not 0.  unlinked: the file that is open is not in the
\* directory any more, and holds what is in kept.
NewReader == [pc |-> "idle", file |-> -1, open |-> FALSE, pos |-> 0, record |-> 0,
              content |-> <<>>, partial |-> <<>>, prev |-> 0, skip |-> FALSE,
              skipped |-> 0, target |-> 0, errors |-> FALSE,
              unlinked |-> FALSE, kept |-> <<>>]

Init ==
    /\ disk = [f \in {} |-> <<>>] /\ torn = {} /\ stray = FALSE
    /\ w = NewWriter /\ written = 0 /\ serial = 0
    /\ marks = [n \in 1..NumRecords |-> NoPos]
    /\ r = NewReader /\ returned = <<>> /\ sought = 0 /\ astray = FALSE
    /\ faults = 0

-----------------------------------------------------------------------------
(* The files of the writer.  Each operator takes the disk it works on.      *)

Create(d, f) == [g \in DOMAIN d \cup {f} |-> IF g \in DOMAIN d THEN d[g] ELSE <<>>]

\* The file OpenNextLog ends in, from file f on: full files are passed over.
OpenAt(d, f) ==
    CHOOSE g \in f..(f + Cardinality(DOMAIN d)) :
        /\ g \in DOMAIN d => Len(d[g]) < BlocksPerFile
        /\ \A h \in f..(g - 1) : h \in DOMAIN d /\ Len(d[h]) = BlocksPerFile

\* OpenNextLog cuts off what is behind the last whole block.
OpenNextLog(d, f) ==
    LET g == OpenAt(d, f) IN
      /\ disk' = Create(d, g)
      /\ torn' = torn \ {g}
      /\ w' = [w EXCEPT !.file = g, !.prev = 0, !.pc = "idle"]

Initialize ==
    /\ w.pc = "down"
    /\ OpenNextLog(disk, IF DOMAIN disk = {} THEN 0 ELSE Max(DOMAIN disk))
    /\ UNCHANGED <<stray, written, serial, marks, readerVars, faults>>

\* Variant: the records in the block that is being filled are not counted.
WriterTellBlock ==
    IF Len(Blocks(w.file)) = BlocksPerFile THEN Pos(w.file + 1, 0, 0)
    ELSE Pos(w.file, Len(Blocks(w.file)), 0)

\* LogWriter::Tell, which does not count what is in buf_.
WriterTell ==
    IF Len(Blocks(w.file)) = BlocksPerFile THEN Pos(w.file + 1, 0, Len(w.content))
    ELSE Pos(w.file, Len(Blocks(w.file)), Len(w.content))

-----------------------------------------------------------------------------
(* RecordWriter: AppendRecord goes block by block, FinalizeContent makes a  *)
(* block out of content_ that names the block before it.                    *)

Piece(cont) == [rec |-> written, part |-> w.part, cont |-> cont]
IsFirst(p) == p.part = 1
Finalized(content) == [pieces |-> content, id |-> serial + 1, prev |-> w.prev]

WriteRecord ==
    /\ w.pc = "idle" /\ written < NumRecords
    /\ written' = written + 1
    /\ marks' = [marks EXCEPT ![written + 1] = IF w.buf = <<>> THEN WriterTell ELSE NoPos]
    /\ \E s \in Sizes : w' = [w EXCEPT !.pc = "append", !.rest = s, !.part = 1]
    /\ UNCHANGED <<diskVars, serial, readerVars, faults>>

Available == Capacity - 1 - w.fill

AppendPart ==
    /\ w.pc = "append" /\ w.rest > Available
    /\ LET content == Append(w.content, Piece(TRUE)) IN
         w' = [w EXCEPT !.buf = Append(@, Finalized(content)), !.prev = serial + 1,
                        !.content = <<>>, !.fill = 0, !.rest = @ - Available, !.part = @ + 1]
    /\ serial' = serial + 1
    /\ UNCHANGED <<diskVars, written, marks, readerVars, faults>>

AppendRest ==
    /\ w.pc = "append" /\ w.rest <= Available
    /\ LET content == Append(w.content, Piece(FALSE))
           full == w.fill + 1 + w.rest > Dumpable
       IN  /\ w' = IF full
                   THEN [w EXCEPT !.pc = "write", !.then = "idle", !.rest = 0,
                                  !.buf = Append(@, Finalized(content)), !.prev = serial + 1,
                                  !.content = <<>>, !.fill = 0]
                   ELSE [w EXCEPT !.pc = IF w.part = 1 THEN "idle" ELSE "write", !.then = "idle",
                                  !.rest = 0, !.content = content, !.fill = @ + 1 + w.rest]
           /\ serial' = IF full THEN serial + 1 ELSE serial
    /\ UNCHANGED <<diskVars, written, marks, readerVars, faults>>

\* Flush and Close: what is in content_ goes out as a block.
FinalizeContent(then) ==
    /\ w.pc = "idle"
    /\ w' = IF w.content = <<>> THEN [w EXCEPT !.pc = "write", !.then = then]
            ELSE [w EXCEPT !.pc = "write", !.then = then, !.content = <<>>, !.fill = 0,
                           !.buf = Append(@, Finalized(w.content)), !.prev = serial + 1]
    /\ serial' = IF w.content = <<>> THEN serial ELSE serial + 1
    /\ UNCHANGED <<diskVars, written, marks, readerVars, faults>>

Flush == (w.content # <<>> \/ w.buf # <<>>) /\ FinalizeContent("idle")
Close == FinalizeContent("down")

-----------------------------------------------------------------------------
(* WriteBuffer, one round of its loop at a time.                            *)

ToWrite == Min({BlocksPerFile - Len(Blocks(w.file)), Len(w.buf)})
Appended(n) == [disk EXCEPT ![w.file] = @ \o SubSeq(w.buf, 1, n)]
Fault == faults < MaxFaults /\ faults' = faults + 1

WriteChunk ==
    /\ w.pc = "write" /\ w.buf # <<>> /\ w.file \notin torn
    /\ LET d == Appended(ToWrite)
           rest == SubSeq(w.buf, ToWrite + 1, Len(w.buf))
       IN  IF Len(d[w.file]) = BlocksPerFile
           THEN LET g == OpenAt(d, w.file + 1) IN
                  /\ disk' = Create(d, g)
                  /\ torn' = torn \ {g}
                  /\ w' = [w EXCEPT !.buf = rest, !.file = g, !.prev = 0]
           ELSE /\ disk' = d /\ UNCHANGED torn
                /\ w' = [w EXCEPT !.buf = rest]
    /\ UNCHANGED <<stray, written, serial, marks, readerVars, faults>>

\* The write fails: a short one is cut off again, one that reports an error after
\* some calls of writev leaves blocks or a part of one behind; buf_ is kept.
WriteFails ==
    /\ w.pc = "write" /\ w.buf # <<>> /\ w.file \notin torn /\ Fault
    /\ \E n \in 0..(ToWrite - 1), part \in BOOLEAN :
        /\ disk' = Appended(n)
        /\ stray' = (stray \/ n > 0)
        /\ torn' = IF part THEN torn \cup {w.file} ELSE torn
    /\ w' = [w EXCEPT !.pc = IF w.then = "down" THEN "closing" ELSE "idle"]
    /\ UNCHANGED <<written, serial, marks, readerVars>>

\* "Bad file size" until the file is opened again.
WriteRefused ==
    /\ w.pc = "write" /\ w.buf # <<>> /\ w.file \in torn
    /\ w' = [w EXCEPT !.pc = IF w.then = "down" THEN "closing" ELSE "idle"]
    /\ UNCHANGED <<diskVars, written, serial, marks, readerVars, faults>>

Wrote ==
    /\ w.pc = "write" /\ w.buf = <<>>
    /\ w' = [w EXCEPT !.pc = IF w.then = "down" THEN "closing" ELSE "idle"]
    /\ UNCHANGED <<diskVars, written, serial, marks, readerVars, faults>>

\* A mark is good as long as its block is there.
MarksOn(d) ==
    [n \in DOMAIN marks |->
        IF marks[n].file \in DOMAIN d /\ marks[n].block < Len(d[marks[n].file])
        THEN marks[n] ELSE NoPos]

\* The destructor behind Close aborts the process when buf_ is not empty, so
\* that in either case nothing of the writer is left.
CloseFile ==
    /\ w.pc = "closing"
    /\ w' = NewWriter
    /\ marks' = MarksOn(disk)
    /\ UNCHANGED <<diskVars, written, serial, readerVars, faults>>

Crash ==
    /\ w.pc # "down" /\ Fault
    /\ w' = NewWriter
    /\ IF w.pc = "write" /\ w.buf # <<>> /\ w.file \notin torn
       THEN \E n \in 0..ToWrite, part \in BOOLEAN :
              /\ disk' = Appended(n)
              /\ torn' = IF part /\ n < ToWrite THEN torn \cup {w.file} ELSE torn
              /\ UNCHANGED stray
       ELSE UNCHANGED diskVars
    /\ marks' = MarksOn(disk')
    /\ UNCHANGED <<written, serial, readerVars>>

-----------------------------------------------------------------------------
(* LogReader.                                                               *)

ReaderTell ==
    LET block == IF r.open /\ r.pos > 0 THEN r.pos - (IF r.record = 0 THEN 0 ELSE 1) ELSE 0
    IN  Pos(r.file, block, r.record)

\* The first block not read yet; never moves on to the next file.
TellAtBlock == Pos(r.file, IF r.open THEN r.pos ELSE 0, 0)

\* CloseInternal keeps record_content_ and skip_record_.
Closed(x, f) == [x EXCEPT !.open = FALSE, !.file = f, !.pos = 0, !.record = 0,
                          !.content = <<>>, !.prev = 0, !.unlinked = FALSE, !.kept = <<>>]
\* The blocks of the file that the reader has open, whatever has its name now.
OpenBlocks(x) == IF x.unlinked THEN x.kept ELSE Blocks(x.file)

\* Variant: a record that goes on in the next file is dropped.
OpenFileForgets(x, f) ==
    IF x.open /\ x.file = f THEN x
    ELSE [Closed(x, f) EXCEPT !.open = Exists(f), !.partial = <<>>]

\* A file of that number that is open stays open, also when it has been removed.
OpenFile(x, f) ==
    IF x.open /\ x.file = f THEN x ELSE [Closed(x, f) EXCEPT !.open = Exists(f)]

\* Rewind looks for the first file.
Rewound(x) ==
    Closed([x EXCEPT !.pc = "idle"], IF DOMAIN disk = {} THEN -1 ELSE Min(DOMAIN disk))

GetNextRecord ==
    /\ r.pc = "idle"
    /\ LET x == IF r.file = -1 THEN Rewound(r) ELSE r
           y == IF x.file = -1 \/ x.open THEN x ELSE OpenFile(x, x.file)
       IN  r' = [y EXCEPT !.pc = IF y.open THEN "read" ELSE "idle", !.skipped = 0]
    /\ UNCHANGED <<diskVars, writerVars, returned, sought, astray, faults>>

\* The callers that move a reader do it between two calls.  After a Seek that
\* failed, which leaves the reader where it came to, they seek again or rewind.
MayMove == r.pc \in {"idle", "failed"} /\ (MoveMidRecord \/ (r.partial = <<>> /\ ~r.skip))

Rewind ==
    /\ MayMove /\ r.file # -1
    /\ r' = Rewound(r)
    /\ returned' = <<>> /\ sought' = 0 /\ astray' = FALSE
    /\ UNCHANGED <<diskVars, writerVars, faults>>

\* What ReadBlock and ReadNextBlock find at the reader's position.
EndOfFile == r.pos = BlocksPerFile
NextBlock == OpenBlocks(r)[r.pos + 1]
BrokenChain(b) == b.prev # 0 /\ r.prev # 0 /\ b.prev # r.prev

Take(x, b) == [x EXCEPT !.pos = @ + 1, !.content = b.pieces, !.prev = b.id, !.record = 0,
                        !.skipped = 0]

NextFile ==
    /\ r.pc = "read" /\ r.content = <<>> /\ EndOfFile
    /\ LET x == OpenFile([r EXCEPT !.record = 0], r.file + 1) IN
         r' = [x EXCEPT !.pc = IF x.open THEN "read" ELSE "idle", !.skipped = 0]
    /\ UNCHANGED <<diskVars, writerVars, returned, sought, astray, faults>>

\* Blocks out of order are an error of the record that is being read, or else
\* an error of their own, after which their records are read.
ReadBlock ==
    /\ r.pc = "read" /\ r.content = <<>> /\ ~EndOfFile
    /\ IF r.pos >= Len(OpenBlocks(r))
       THEN r' = [r EXCEPT !.pc = "idle", !.record = 0, !.skipped = 0]
       ELSE LET x == Take(r, NextBlock) IN
              r' = IF ~BrokenChain(NextBlock) THEN x
                   ELSE IF r.partial # <<>> THEN [x EXCEPT !.skip = TRUE]
                   ELSE [x EXCEPT !.pc = "idle", !.errors = TRUE, !.record = 1]
    /\ UNCHANGED <<diskVars, writerVars, returned, sought, astray, faults>>

SkipPiece ==
    /\ r.pc = "read" /\ r.content # <<>> /\ r.skip
    /\ r' = [r EXCEPT !.content = Tail(@), !.skip = Head(r.content).cont, !.skipped = @ + 1]
    /\ UNCHANGED <<diskVars, writerVars, returned, sought, astray, faults>>

\* The end of a GetNextRecord that returns true.
Return(x) == [x EXCEPT !.pc = "idle", !.record = @ + x.skipped + 1, !.skipped = 0]

\* Variant: a first piece goes on the record that was begun before it.
ReadPieceJoins ==
    /\ r.pc = "read" /\ r.content # <<>> /\ ~r.skip
    /\ LET p == Head(r.content)
           x == [r EXCEPT !.content = Tail(@)]
       IN  \/ /\ ~IsFirst(p) /\ r.partial = <<>>
              /\ r' = [x EXCEPT !.skipped = @ + 1]
              /\ UNCHANGED <<returned, sought>>
           \/ /\ IsFirst(p) \/ r.partial # <<>>
              /\ p.cont
              /\ r' = [x EXCEPT !.partial = Append(@, p)]
              /\ UNCHANGED <<returned, sought>>
           \/ /\ IsFirst(p) \/ r.partial # <<>>
              /\ ~p.cont
              /\ r' = Return([x EXCEPT !.partial = <<>>])
              /\ returned' = Append(returned, Append(r.partial, p))
              /\ UNCHANGED sought
    /\ UNCHANGED <<diskVars, writerVars, astray, faults>>

ReadPiece ==
    /\ r.pc = "read" /\ r.content # <<>> /\ ~r.skip
    /\ LET p == Head(r.content)
           x == [r EXCEPT !.content = Tail(@)]
       IN  \/ /\ IsFirst(p) /\ r.partial # <<>>
              /\ r' = Return([x EXCEPT !.partial = <<>>, !.skipped = @ + 1, !.errors = TRUE])
              /\ UNCHANGED <<returned, sought>>
           \/ /\ ~IsFirst(p) /\ r.partial = <<>>
              /\ r' = [x EXCEPT !.skipped = @ + 1]
              /\ UNCHANGED <<returned, sought>>
           \/ /\ IsFirst(p) <=> r.partial = <<>>
              /\ p.cont
              /\ r' = [x EXCEPT !.partial = Append(@, p)]
              /\ UNCHANGED <<returned, sought>>
           \/ /\ IsFirst(p) <=> r.partial = <<>>
              /\ ~p.cont
              /\ r' = Return([x EXCEPT !.partial = <<>>])
              /\ returned' = Append(returned, Append(r.partial, p))
              /\ UNCHANGED sought
    /\ UNCHANGED <<diskVars, writerVars, astray, faults>>

\* Seek: the records before the sought one are read and dropped.
AdvanceToPosInFile(x, pos) ==
    LET y == [x EXCEPT !.content = <<>>, !.prev = 0, !.pos = pos.block]
        blocks == OpenBlocks(x)
    IN  IF pos.record = 0 THEN y
        ELSE IF pos.block >= Len(blocks) THEN [y EXCEPT !.pc = "failed"]
        ELSE [Take(y, blocks[pos.block + 1]) EXCEPT !.pc = "seek", !.target = pos.record]

SeekTo(x, pos) ==
    IF pos.block = 0 /\ pos.record = 0 /\ pos.file > 0 /\ Exists(pos.file - 1) /\ ~Exists(pos.file)
    THEN Closed(x, pos.file)
    ELSE LET y == OpenFile(x, pos.file) IN
           IF y.open THEN AdvanceToPosInFile(y, pos) ELSE [y EXCEPT !.pc = "failed"]

\* One record of AdvanceToPosInFile, read without keeping it.
SeekPiece ==
    /\ r.pc = "seek"
    /\ IF r.record >= r.target THEN r' = [r EXCEPT !.pc = "idle", !.target = 0]
       ELSE IF r.content = <<>> THEN r' = [r EXCEPT !.pc = "failed", !.target = 0, !.skipped = 0]
       ELSE LET p == Head(r.content)
                x == [r EXCEPT !.content = Tail(@)]
                counted == [x EXCEPT !.record = @ + x.skipped + 1, !.skipped = 0]
            IN  r' = IF r.skip
                     THEN LET y == [x EXCEPT !.skip = p.cont, !.skipped = @ + 1] IN
                            IF y.skipped >= r.target
                            THEN [y EXCEPT !.record = @ + y.skipped + 1, !.skipped = 0] ELSE y
                     ELSE IF IsFirst(p) /\ r.partial # <<>>
                     THEN [x EXCEPT !.pc = "failed", !.partial = <<>>, !.target = 0, !.skipped = 0]
                     ELSE IF p.cont THEN x
                     ELSE [counted EXCEPT !.partial = <<>>]
    /\ UNCHANGED <<diskVars, writerVars, returned, sought, astray, faults>>

\* A new reader, or this one, seeks to a record by the writer's mark.
Seek(n, x) ==
    /\ MayMove
    /\ marks[n] # NoPos /\ (Exists(marks[n].file) \/ Exists(marks[n].file - 1))
    /\ r' = SeekTo([x EXCEPT !.pc = "idle"], marks[n])
    /\ returned' = <<>>
    /\ sought' = n /\ astray' = r'.unlinked
    /\ UNCHANGED <<diskVars, writerVars, faults>>

\* A new reader goes on where the old one says it is.  Nobody asks a reader that
\* has read nothing since it was moved inside its file: Seek leaves record_num_ as
\* it was, and Tell is wrong until the next block.
Resume ==
    /\ MayMove /\ r.pc = "idle" /\ ReaderTell.file # -1
    /\ r.record = 0 \/ r.prev # 0
    /\ r' = [SeekTo(NewReader, ReaderTell) EXCEPT !.errors = r.errors]
    /\ UNCHANGED <<diskVars, writerVars, returned, sought, astray, faults>>

-----------------------------------------------------------------------------
(* TruncateAt the block the reader is at, and CleanLog.                     *)

\* Variant: the block at the position is kept.
CutBehind(pos) ==
    [f \in {g \in DOMAIN disk : g < pos.file \/ (g = pos.file /\ pos.block > 0)} |->
        IF f = pos.file THEN SubSeq(disk[f], 1, Min({pos.block + 1, Len(disk[f])})) ELSE disk[f]]

Cut(pos) ==
    [f \in {g \in DOMAIN disk : g < pos.file \/ (g = pos.file /\ pos.block > 0)} |->
        IF f = pos.file THEN SubSeq(disk[f], 1, pos.block) ELSE disk[f]]

\* The caller truncates where a record ends and before the end of the log, as
\* raft_server.cc:933-942 does.  The blocks in buf_ are written before, which may
\* fail without being noticed.  At block 0 the file is removed and a new one of that
\* number made: a reader that has it open, as Raft's readers for the other nodes may
\* (raft_server.cc:178), is left with the removed one.
TruncateAt ==
    /\ w.pc = "idle" /\ r.pc = "idle" /\ r.file # -1 /\ ~r.unlinked
    /\ r.content = <<>> /\ r.partial = <<>> /\ Before(TellAtBlock, WriterTell)
    /\ LET pos == TellAtBlock
           pending == IF w.content = <<>> THEN w.buf ELSE Append(w.buf, Finalized(w.content))
           room == Min({BlocksPerFile - Len(Blocks(w.file)), Len(pending)})
           g == OpenAt(Cut(pos), pos.file)
           Leaves(n) ==
               IF ~r.open \/ pos.block > 0 THEN UNCHANGED <<r, astray>>
               ELSE /\ r' = [r EXCEPT !.unlinked = TRUE,
                                      !.kept = Blocks(r.file) \o
                                               SubSeq(pending, 1, IF w.file = r.file THEN n ELSE 0)]
                    /\ astray' = TRUE
       IN  /\ \/ /\ pending = <<>> \/ w.file \notin torn
                 /\ w' = [w EXCEPT !.file = g, !.prev = 0, !.content = <<>>, !.fill = 0, !.buf = <<>>]
                 /\ Leaves(room)
                 /\ UNCHANGED <<stray, faults>>
              \/ /\ pending # <<>>
                 /\ IF w.file \in torn THEN UNCHANGED faults /\ Leaves(0)
                    ELSE Fault /\ \E n \in 0..(room - 1) : Leaves(n)
                 /\ stray' = TRUE
                 /\ w' = [w EXCEPT !.file = g, !.prev = 0, !.content = <<>>, !.fill = 0, !.buf = pending]
           /\ disk' = Create(Cut(pos), g)
           /\ torn' = {}
           /\ serial' = IF w.content = <<>> THEN serial ELSE serial + 1
           /\ marks' = [n \in DOMAIN marks |-> IF Before(marks[n], pos) THEN marks[n] ELSE NoPos]
    /\ UNCHANGED <<written, returned, sought>>

\* Files before the reader's are removed.  Nobody removes all of them: the next
\* Initialize would start again with file 0, behind every reader.
CleanLog ==
    /\ Exists(r.file)
    /\ \E f \in DOMAIN disk : f < r.file
    /\ disk' = [f \in {g \in DOMAIN disk : g >= r.file} |-> disk[f]]
    /\ UNCHANGED <<torn, stray, writerVars, readerVars, faults>>

-----------------------------------------------------------------------------
WriterStep ==
    \/ Initialize \/ WriteRecord \/ AppendPart \/ AppendRest \/ Flush \/ Close
    \/ WriteChunk \/ WriteFails \/ WriteRefused \/ Wrote \/ CloseFile \/ Crash
ReaderStep ==
    \/ GetNextRecord \/ NextFile \/ ReadBlock \/ SkipPiece \/ ReadPiece
    \/ SeekPiece \/ Rewind \/ Resume
    \/ \E n \in 1..NumRecords : Seek(n, r) \/ Seek(n, NewReader)

Next == WriterStep \/ ReaderStep \/ TruncateAt \/ CleanLog
Spec == Init /\ [][Next]_vars

-----------------------------------------------------------------------------
(* What the files hold, read the simple way.                                *)

\* The pieces of the first n blocks of file f, in order.
PiecesOf(f, n) == FlattenSeq([i \in 1..n |-> Blocks(f)[i].pieces])
\* The pieces of the log, and those that the reader has consumed, over all files.
LogPieces ==
    FlattenSeq([i \in 1..(IF DOMAIN disk = {} THEN 0 ELSE Max(DOMAIN disk) + 1) |->
                    PiecesOf(i - 1, Len(Blocks(i - 1)))])
Consumed ==
    LET upTo(f) == IF f < r.file THEN Len(Blocks(f)) ELSE IF f = r.file THEN r.pos ELSE 0
        all == FlattenSeq([i \in 1..(IF DOMAIN disk = {} THEN 0 ELSE Max(DOMAIN disk) + 1) |->
                              PiecesOf(i - 1, upTo(i - 1))])
    IN  SubSeq(all, 1, Len(all) - Len(r.content))
\* The pieces i..j of s are one record, from its first piece to its last.
IsRecord(s, i, j) ==
    /\ ~s[j].cont
    /\ \A k \in i..j : s[k].rec = s[i].rec /\ s[k].part = k - i + 1 /\ (k < j => s[k].cont)
WholeRecords(s) ==
    LET ends == {j \in DOMAIN s : \E i \in 1..j : IsRecord(s, i, j)}
        inOrder == SetToSortSeq(ends, <)
    IN  [k \in DOMAIN inOrder |-> s[inOrder[k]].rec]

(* The type invariant.                                                      *)
TypeOK ==
    /\ \A f \in DOMAIN disk : f \in Nat /\ Len(disk[f]) <= BlocksPerFile
    /\ torn \subseteq Nat
    /\ w.pc \in {"down", "idle", "append", "write", "closing"}
    /\ w.fill \in 0..Capacity /\ (w.pc = "idle" => w.fill <= Dumpable)
    /\ r.pc \in {"idle", "read", "seek", "failed"} /\ r.pos \in 0..BlocksPerFile

(* A reader that has counted no error and is not inside a record has        *)
(* returned the records of the log between its start and its position, each *)
(* once and in order, across blocks, files, truncations, restarts of the    *)
(* writer and new readers (logio_test.cc:182, "rid == crt_rid").  Not so a  *)
(* reader whose open file TruncateAt removed, which goes on with the        *)
(* removed file (logio.cc:534-536), until it is moved off that file.        *)
NoSilentLoss ==
    r.pc = "idle" /\ r.partial = <<>> /\ ~r.errors /\ ~stray /\ ~astray =>
        LET whole == SelectSeq(WholeRecords(Consumed), LAMBDA n : n >= sought)
            got == [i \in DOMAIN returned |-> Head(returned[i]).rec]
        IN  IF Exists(0) THEN got = whole ELSE IsSuffix(whole, got)

(* What GetNextRecord returns as a record is never put together from pieces *)
(* of two records or from a record with a hole (recordio.cc:289-377), as    *)
(* long as no failed write left blocks to be written twice or behind a cut, *)
(* and the reader was not left on a removed file, whose last record it      *)
(* would go on with in the next file of the new log.                        *)
ReturnedWhole ==
    ~stray /\ ~astray => \A i \in DOMAIN returned : IsRecord(returned[i], 1, Len(returned[i]))

(* A reader that seeks to the Tell of the writer before a record finds that *)
(* record first, or a later one when it is not in the log                   *)
(* (logio_test.cc:196, "Seek works at EVERY position").  Not so a reader    *)
(* that Seek leaves on a removed file of the same number.                   *)
SeekFindsRecord ==
    returned # <<>> /\ sought # 0 /\ ~r.errors /\ ~stray /\ ~astray =>
        LET first == Head(Head(returned)).rec
        IN  first = sought \/ (first > sought /\ sought \notin ToSet(WholeRecords(LogPieces)))

(* TruncateAt (logio.cc:182) at the block where the reader is leaves the    *)
(* blocks before it in place and nothing behind it, at the end of a file    *)
(* too, where TellAtBlock names a block that the file cannot have.          *)
TruncateKeepsPrefix ==
    [][TruncateAt =>
         /\ Consumed' = Consumed
         /\ \A f \in DOMAIN disk' : f > r.file \/ (f = r.file /\ r.pos > 0) =>
               Blocks(f)' = IF f = r.file THEN SubSeq(Blocks(f), 1, r.pos) ELSE <<>>]_vars
=============================================================================

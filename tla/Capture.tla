------------------------------ MODULE Capture ------------------------------
(***************************************************************************)
(* The output of one process stream: the pipe reader (process.go), the     *)
(* capture writer with its escape-sequence stripper, ring buffer, log file *)
(* and rotation (internal/logging), and the line splitter that forwards a  *)
(* stream without a log file to the daemon's own output.                   *)
(*                                                                         *)
(* A byte of output is its index in the stream; its kind is what the       *)
(* stripper and the splitter look at.  All of a call on the writer happens *)
(* under cw.mu and is one step.  A file is the sequence of bytes in it, a  *)
(* missing file is an empty one.  Every operation on files may fail, alone *)
(* or with others; logrotate may move the log file away at any moment.     *)
(***************************************************************************)
EXTENDS Integers, Sequences, SequencesExt, FiniteSets

CONSTANTS
  Configs,     \* CaptureConfig, and the kinds of bytes that the program prints
  MaxBackups,  \* bound on Backups
  MaxInput,    \* bound on the bytes of the stream
  MaxRead,     \* the buffer of readPipe
  RingSize,    \* the ring buffer of a capture writer
  MaxReadAlloc,  \* maxReadAlloc, and maxReadLength of the API
  DefaultLength, \* the length of a log request without one
  MaxLine,     \* maxLineBytes
  MaxPending   \* maxPendingEscape

Kinds == {"esc", "[", "param", "letter", "cr", "nl"}

ASSUME CaptureConstants ==
  /\ MaxBackups \in Nat /\ MaxInput \in Nat
  /\ {MaxRead, RingSize, MaxLine} \subseteq Nat \ {0}
  /\ MaxPending \in Nat /\ MaxPending >= 2
  /\ MaxReadAlloc \in Nat /\ DefaultLength \in 1..MaxReadAlloc
  /\ Configs \subseteq [logfile : BOOLEAN, strip : BOOLEAN, maxBytes : Nat,
                        backups : 0..MaxBackups, prints : SUBSET Kinds]

VARIABLES
  cfg,      \* cw.config
  child,    \* the program is not running, is running, or the daemon has ended
  input,    \* the kinds of all bytes read from the pipe
  pending,  \* ANSIStripper.pending
  ring,     \* RingBuffer
  handle,   \* cw.file: nil, closed, or the file at the path or moved away
  dir,      \* the log file (0) and its backups
  away,     \* the files that logrotate moved away, oldest first
  partial,  \* LineSplitter.buf
  captured, \* history: what Capture returned
  written,  \* history: the bytes that were written to the log file
  lines,    \* history: the lines that were forwarded
  failed    \* history: what rotations failed at: to put the log "file" aside or to
            \* empty it, or to move a "backup" that the next file then replaced

logs == <<handle, dir, away>>
stream == <<input, pending, ring, captured>>
forwarded == <<partial, lines>>
vars == <<cfg, child, stream, logs, forwarded, written, failed>>

-----------------------------------------------------------------------------
(***************************************************************************)
(* The ring buffer.                                                        *)
(***************************************************************************)
NewRing == [buf |-> [i \in 0..RingSize - 1 |-> 0], pos |-> 0, full |-> FALSE]

\* Mutant of RingPut: full is set one byte late.
RingPutFullLate(r, b) ==
  LET pos == (r.pos + 1) % RingSize
  IN  [buf |-> [r.buf EXCEPT ![r.pos] = b], pos |-> pos, full |-> r.full \/ pos = 1]

\* One turn of the loop of Write.
RingPut(r, b) ==
  LET pos == (r.pos + 1) % RingSize
  IN  [buf |-> [r.buf EXCEPT ![r.pos] = b], pos |-> pos, full |-> r.full \/ pos = 0]

RingWrite(r, data) ==
  LET put[i \in 0..Len(data)] == IF i = 0 THEN r ELSE RingPut(put[i - 1], data[i])
  IN  put[Len(data)]

RingLen(r) == IF r.full THEN RingSize ELSE r.pos

RingRead(r, n) ==
  IF n \notin 1..MaxReadAlloc THEN <<>> ELSE
  LET count == IF n > RingLen(r) THEN RingLen(r) ELSE n
      start == IF r.pos < count THEN r.pos - count + RingSize ELSE r.pos - count
  IN  [i \in 1..count |-> r.buf[(start + i - 1) % RingSize]]

-----------------------------------------------------------------------------
(***************************************************************************)
(* The stripper and the line splitter.  data is a sequence of bytes of the *)
(* stream k.                                                               *)
(***************************************************************************)
IsFinal(kind) == kind \in {"[", "letter"}

StartsCSI(k, data, i) == k[data[i]] = "esc" /\ i < Len(data) /\ k[data[i + 1]] = "["

\* The position behind the escape sequence whose parameters begin at i.
SkipCSI(k, data, i) ==
  LET ends == {j \in i..Len(data) : IsFinal(k[data[j]])}
  IN  IF ends = {} THEN Len(data) + 1 ELSE (CHOOSE j \in ends : \A m \in ends : j <= m) + 1

StripANSI(k, data) ==
  LET rest[i \in 1..Len(data) + 1] ==
        IF i > Len(data) THEN <<>>
        ELSE IF StartsCSI(k, data, i) THEN rest[SkipCSI(k, data, i + 2)]
        ELSE <<data[i]>> \o rest[i + 1]
  IN  rest[1]

\* Where a trailing escape sequence without its final byte begins: at its ESC,
\* which only "[" and parameter bytes follow.
unfinishedEscape(k, data) ==
  LET n == Len(data)
      Open(i) == /\ k[data[i]] = "esc"
                 /\ i = n \/ k[data[i + 1]] = "["
                 /\ \A j \in i + 2..n : k[data[j]] = "param"
      at == {i \in 1..n : n - i + 1 <= MaxPending + 1 /\ Open(i)}
  IN  IF at = {} THEN n + 1 ELSE CHOOSE i \in at : TRUE

\* Mutant of Strip: an unfinished sequence is not held back.
StripChunk(k, held, data) ==
  [pending |-> <<>>, data |-> StripANSI(k, held \o data)]

Strip(k, held, data) ==
  LET all == held \o data
      cut == unfinishedEscape(k, all)
      end == SubSeq(all, cut, Len(all))
  IN  [pending |-> IF Len(end) <= MaxPending THEN end ELSE <<>>,
       data |-> StripANSI(k, SubSeq(all, 1, cut - 1))]

Newlines(k, data) == {i \in 1..Len(data) : k[data[i]] = "nl"}

\* TrimSuffix of a carriage return.
TrimCR(k, line) ==
  IF line # <<>> /\ k[line[Len(line)]] = "cr" THEN SubSeq(line, 1, Len(line) - 1) ELSE line

\* LineSplitter.Write: the lines it emits, up to a newline and the carriage return before
\* it or of MaxLine bytes, and what stays in the buffer.
Split(k, data) ==
  LET Line(line, rest) ==
        [lines |-> <<line>> \o rest.lines, rest |-> rest.rest]
      split[i \in 1..Len(data) + 1] ==
        LET ends == {j \in Newlines(k, data) : i <= j}
        IN  IF ends # {}
            THEN LET e == CHOOSE e \in ends : \A j \in ends : e <= j
                 IN  Line(TrimCR(k, SubSeq(data, i, e - 1)), split[e + 1])
            ELSE IF Len(data) - i + 1 >= MaxLine
            THEN Line(SubSeq(data, i, i + MaxLine - 1), split[i + MaxLine])
            ELSE [lines |-> <<>>, rest |-> SubSeq(data, i, Len(data))]
  IN  split[1]

-----------------------------------------------------------------------------
(***************************************************************************)
(* Files.                                                                  *)
(***************************************************************************)
Rename(d, from, to) ==
  IF d[from] = <<>> THEN d ELSE [d EXCEPT ![to] = d[from], ![from] = <<>>]

\* Mutant of rotateFile: the log file is renamed before the backups are shifted.
rotateFileFirst(d, backups, ok) ==
  LET removed == IF ok[backups] THEN [d EXCEPT ![backups] = <<>>] ELSE d
      shifted[i \in 1..backups] ==
        IF i = backups THEN IF ok[0] THEN Rename(removed, 0, 1) ELSE removed
        ELSE IF ok[i] THEN Rename(shifted[i + 1], i, i + 1) ELSE shifted[i + 1]
  IN  shifted[1]

\* Remove the oldest backup, shift the others from the oldest on, rename the file.  ok tells
\* which of these calls work: nothing stops at one that does not.
rotateFile(d, backups, ok) ==
  LET shifted[i \in 0..backups] ==
        IF i = backups THEN IF ok[i] THEN [d EXCEPT ![i] = <<>>] ELSE d
        ELSE IF ok[i] THEN Rename(shifted[i + 1], i, i + 1) ELSE shifted[i + 1]
  IN  shifted[0]

\* A backup stayed where it was, and the next file took its place.
Replaces(ok, backups) == \E i \in 1..backups - 1 : ~ok[i] /\ ok[i - 1]

\* The file that the open handle h writes to.
Content(h, d, a) == IF h = "path" THEN d[0] ELSE Last(a)

IsOpen(h) == h \in {"path", "away"}

\* file.Write and file.Truncate through the open handle.
SetContent(content) ==
  IF handle = "path" THEN dir' = [dir EXCEPT ![0] = content] /\ UNCHANGED away
                     ELSE away' = Front(away) \o <<content>> /\ UNCHANGED dir

\* Mutant of TooLarge: only a file above the limit is rotated.
AboveLimit(content) == cfg.maxBytes # 0 /\ Len(content) > cfg.maxBytes

TooLarge(content) == cfg.maxBytes # 0 /\ Len(content) >= cfg.maxBytes

\* What a write of data may have written when it ends, with an error if that is not all.
Starts(data) == {SubSeq(data, 1, n) : n \in 0..Len(data)}

\* The end of Capture: write data to the log file and rotate the file if it is too large.
\* That does nothing if the file cannot be examined or truncated.  With backups the file is
\* closed, renamed with the backups and opened anew, as far as each of these works.
WriteLog(data) ==
  \/ /\ ~IsOpen(handle)
     /\ UNCHANGED <<logs, written, failed>>
  \/ /\ IsOpen(handle)
     /\ \E put \in Starts(data) :
        LET content == Content(handle, dir, away) \o put
        IN  /\ written' = written \cup ToSet(put)
            /\ \/ /\ ~TooLarge(content)
                  /\ SetContent(content)
                  /\ UNCHANGED <<handle, failed>>
               \/ /\ TooLarge(content)
                  /\ SetContent(content)
                  /\ failed' = failed \cup {"file"}
                  /\ UNCHANGED handle
               \/ /\ TooLarge(content) /\ cfg.backups = 0
                  /\ SetContent(<<>>)
                  /\ UNCHANGED <<handle, failed>>
               \/ /\ TooLarge(content) /\ cfg.backups # 0
                  /\ \E ok \in [0..cfg.backups -> BOOLEAN], opened \in BOOLEAN :
                       LET d == IF handle = "path" THEN [dir EXCEPT ![0] = content] ELSE dir
                       IN  /\ dir' = rotateFile(d, cfg.backups, ok)
                           /\ away' = IF handle = "path" THEN away ELSE Front(away) \o <<content>>
                           /\ handle' = IF opened THEN "path" ELSE "nil"
                           /\ failed' = failed \cup (IF ok[0] THEN {} ELSE {"file"})
                                               \cup (IF Replaces(ok, cfg.backups) THEN {"backup"} ELSE {})

-----------------------------------------------------------------------------
\* passthroughHandler: what the daemon's own output gets of a line.
Forwarded(k, line) == IF cfg.strip THEN StripANSI(k, line) ELSE line

\* readPipe reads a chunk: Capture, then the line splitter if lines are forwarded.
Read(chunk) ==
  /\ child = "up"
  /\ Len(input) + Len(chunk) <= MaxInput
  /\ input' = input \o chunk
  /\ LET raw   == [i \in 1..Len(chunk) |-> Len(input) + i]
         strip == IF cfg.strip THEN Strip(input', pending, raw) ELSE [pending |-> <<>>, data |-> raw]
         split == Split(input', partial \o raw)
     IN  /\ pending' = strip.pending
         /\ ring' = RingWrite(ring, strip.data)
         /\ captured' = captured \o strip.data
         /\ WriteLog(strip.data)
         /\ IF cfg.logfile THEN UNCHANGED <<partial, lines>>
                           ELSE partial' = split.rest /\ lines' = lines \o [i \in DOMAIN split.lines |-> Forwarded(input', split.lines[i])]
  /\ UNCHANGED <<cfg, child>>

\* Mutant of StreamEnd: what is left of a line is dropped.
StreamEndNoFlush ==
  /\ child = "up" /\ child' = "none"
  /\ partial' = <<>>
  /\ UNCHANGED <<cfg, stream, logs, lines, written, failed>>

\* The child is gone: readPipe ends and flushes what is left of a line.
StreamEnd ==
  /\ child = "up" /\ child' = "none"
  /\ lines' = IF partial = <<>> THEN lines ELSE Append(lines, Forwarded(input, partial))
  /\ partial' = <<>>
  /\ UNCHANGED <<cfg, stream, logs, written, failed>>

\* EnsureOpen opens the file if there is none.
EnsureOpen == IF cfg.logfile /\ handle = "nil" THEN "path" ELSE handle

\* A start: without the log file (EnsureOpen failed) there is none.
Start ==
  /\ child = "none" /\ child' = "up"
  /\ handle' = EnsureOpen
  /\ UNCHANGED <<cfg, stream, forwarded, dir, away, written, failed>>

\* Reopen (SIGUSR2): the file is closed, then opened again if that works.
Reopen ==
  /\ child # "ended" /\ handle # "nil"
  /\ handle' \in {"path", "closed"}
  /\ UNCHANGED <<cfg, child, stream, forwarded, dir, away, written, failed>>

\* CloseLogs, last of all when the daemon exits.
Close ==
  /\ child' = "ended"
  /\ handle' = IF IsOpen(handle) THEN "closed" ELSE handle
  /\ UNCHANGED <<cfg, stream, forwarded, dir, away, written, failed>>

\* logrotate renames a log file that has something in it; an open handle follows it.
MoveAway ==
  /\ dir[0] # <<>>
  /\ away' = Append(away, dir[0]) /\ dir' = [dir EXCEPT ![0] = <<>>]
  /\ handle' = IF handle = "path" THEN "away" ELSE handle
  /\ UNCHANGED <<cfg, child, stream, forwarded, written, failed>>

\* handleReadLog: what the API answers to a request of length bytes.
ReadLog(length) ==
  IF length > MaxReadAlloc
  THEN [status |-> "bad request", data |-> <<>>]
  ELSE [status |-> "ok", data |-> RingRead(ring, IF length > 0 THEN length ELSE DefaultLength)]

\* The bytes in the log file and its backups, and those in files that were moved away.
Logged == UNION {ToSet(dir[i]) : i \in 0..MaxBackups}
Moved == UNION {ToSet(away[k]) : k \in 1..Len(away)}

\* NewCaptureWriter; backups of an earlier run may be there, with gaps.
Init ==
  /\ cfg \in Configs /\ child = "none"
  /\ input = <<>> /\ pending = <<>> /\ ring = NewRing
  /\ handle \in IF cfg.logfile THEN {"nil", "path"} ELSE {"nil"}
  /\ dir \in {[i \in 0..MaxBackups |-> IF i \in old THEN <<-i>> ELSE <<>>] : old \in SUBSET (1..cfg.backups)}
  /\ away = <<>> /\ partial = <<>>
  /\ captured = <<>> /\ lines = <<>> /\ failed = {}
  /\ written = Logged

Next ==
  \/ \E n \in 1..MaxRead : \E chunk \in [1..n -> cfg.prints] : Read(chunk)
  \/ StreamEnd \/ Start \/ Reopen \/ Close \/ MoveAway

Spec == Init /\ [][Next]_vars

-----------------------------------------------------------------------------
\* Whatever the sizes of the writes, the API's log request returns exactly the last bytes
\* of what was captured, as many as asked for and as the ring holds, and refuses to return
\* more than MaxReadAlloc (RingBuffer.Write and Read; pos and full wrap around together).
RingIsTail ==
  \A length \in 0..MaxReadAlloc + 1 :
    LET asked == IF length = 0 THEN DefaultLength ELSE length
        count == Min({asked, RingSize, Len(captured)})
    IN  ReadLog(length) =
          IF length > MaxReadAlloc THEN [status |-> "bad request", data |-> <<>>]
          ELSE [status |-> "ok",
                data |-> SubSeq(captured, Len(captured) - count + 1, Len(captured))]

\* i is a byte of an escape sequence: only parameters lie between it and an ESC [.
InCSI(k, i) ==
  \E j \in 1..i : /\ k[j] = "esc" /\ j < Len(k) /\ k[j + 1] = "["
                  /\ \A m \in j + 2..i - 1 : k[m] = "param"

\* Every escape sequence has parameters, then a final byte, and is not too long.
WellFormed(k) ==
  \A j \in 1..Len(k) - 1 : k[j] = "esc" /\ k[j + 1] = "[" =>
    \A i \in j + 2..Len(k) : (\A m \in j + 2..i - 1 : k[m] = "param") =>
      IsFinal(k[i]) \/ (k[i] = "param" /\ i - j < MaxPending)

\* In the order of the stream, and nothing twice.
Increasing(bytes) == \A i, j \in 1..Len(bytes) : i < j => bytes[i] < bytes[j]

\* However the pipe cuts the output into chunks, the capture is the whole output, in order
\* and with no byte twice; with strip_ansi it is that without the escape sequences, of
\* which a last ESC may be one (ANSIStripper.Strip).
StreamFaithful ==
  /\ Increasing(captured)
  /\ ~cfg.strip => ToSet(captured) = 1..Len(input)
  /\ cfg.strip /\ WellFormed(input) =>
       ToSet(captured) = {i \in 1..Len(input) :
                            ~InCSI(input, i) /\ ~(i = Len(input) /\ input[i] = "esc")}

Consecutive(bytes) == \A i \in 1..Len(bytes) - 1 : bytes[i + 1] = bytes[i] + 1

\* However the pipe cuts the output into chunks, the forwarded lines and what is left in
\* the buffer are its text, in order and complete, each line in one piece and without its
\* newline.  A carriage return before the newline is dropped with it, if every line ended
\* with a newline and not at maxLineBytes or with the child; with strip_ansi the escape
\* sequences then are too (LineSplitter.Write and Flush, passthroughHandler).
LinesFaithful ==
  ~cfg.logfile =>
    LET pieces  == Append(lines, Forwarded(input, partial))
        Bytes   == UNION {ToSet(pieces[n]) : n \in 1..Len(pieces)}
        text    == {i \in 1..Len(input) : input[i] # "nl"}
        newline == (1..Len(input)) \ text
        trimmed == {i \in text : input[i] = "cr" /\ i + 1 \in newline}
        whole   == Len(lines) = Cardinality(newline)
    IN  /\ \A n \in 1..Len(pieces) : Increasing(pieces[n])
        /\ \A m, n \in 1..Len(pieces) : m < n =>
             \A b \in ToSet(pieces[m]), c \in ToSet(pieces[n]) : b < c
        /\ Bytes \subseteq text
        /\ ~cfg.strip => /\ text \ trimmed \subseteq Bytes
                         /\ whole => Bytes = text \ trimmed
                         /\ \A n \in 1..Len(pieces) : Consecutive(pieces[n])
        /\ cfg.strip /\ WellFormed(input) /\ whole =>
             Bytes = {i \in text \ trimmed : ~InCSI(input, i)}

\* The log file and its backups, oldest first, have at any moment bytes that were written
\* in their order and none twice, and they are the last part of it, apart from what
\* logrotate took away, unless a backup could not be moved and the next one replaced it:
\* a rotation loses nothing but the oldest file, and no other failure and neither a reopen
\* nor a moved file makes a hole (rotateIfNeeded, rotateFile, Reopen).
LogIsSuffix ==
  /\ \A i \in 0..MaxBackups : Increasing(dir[i])
  /\ \A i, j \in 0..MaxBackups : i < j => \A b \in ToSet(dir[j]), c \in ToSet(dir[i]) : b < c
  /\ Logged \subseteq written \ Moved
  /\ "backup" \notin failed =>
       \A b \in Logged, c \in written : b < c => c \in Logged \cup Moved

\* As long as the log file can be put aside or emptied, it is below its limit after every
\* write, and a backup exceeds it by less than one read and what the stripper had held
\* back, whatever happens to the other files (rotateIfNeeded).
LogBounded ==
  cfg.maxBytes # 0 /\ "file" \notin failed =>
    /\ Len(dir[0]) < cfg.maxBytes
    /\ \A i \in 1..MaxBackups : Len(dir[i]) < cfg.maxBytes + MaxRead + MaxPending
=============================================================================

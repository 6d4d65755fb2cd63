----------------------------- MODULE JobLogger -----------------------------
(***************************************************************************)
(* The job logger (processor/logger): Write, which the git client feeds    *)
(* its progress to in chunks, and ReadFrom, which takes a Docker stream.   *)
(* Both cut what they get into lines, one log entry each.                  *)
(*                                                                         *)
(* A chunk is shorter than the scanner's first buffer (4096 bytes), so the *)
(* scanner sees it whole.                                                  *)
(***************************************************************************)
EXTENDS Scanning, SequencesExt, FiniteSetsExt

CONSTANTS
  Text,      \* the characters other than LF and CR
  MaxChunk,  \* bound: the longest chunk or stream
  MaxCalls,  \* bound: how many calls are made
  Buf        \* the size of ReadFrom's buffer, 2 at least

LF == "\n"
CR == "\r"
Chunk == UNION {[1 .. n -> Text \cup {LF, CR}] : n \in 1 .. MaxChunk}

VARIABLES
  remainingString,  \* the part of a line Write carries over
  calls,            \* how many calls were made
  op,               \* the last call
  chunk,            \* what it was given
  out,              \* the entries it logged
  given,            \* history: the text of all calls
  logged,           \* history: the text of all entries
  carried           \* history: some Write did not end its last line

loggerVars == <<remainingString, calls, op, chunk, out, given, logged, carried>>

OnlyText(s) == FlattenSeq([i \in DOMAIN s |-> IF s[i] \in Text THEN <<s[i]>> ELSE <<>>])

LoggerInit ==
  /\ remainingString = <<>> /\ calls = 0 /\ op = "none" /\ chunk = <<>> /\ out = <<>>
  /\ given = <<>> /\ logged = <<>> /\ carried = FALSE

\* A line is of other characters than its end, and the buffer has room for a \r and one
\* character more (bufio takes 16 bytes at least).
ASSUME LoggerAssumption ==
  /\ LF \notin Text /\ CR \notin Text
  /\ Buf \in Nat /\ Buf >= 2
  /\ MaxChunk \in Nat

-----------------------------------------------------------------------------
\* Where c next occurs in p from place i on; behind the end, if nowhere.
NextAt(p, c, i) == Min({k \in i .. Len(p) : p[k] = c} \cup {Len(p) + 1})

DropCR(s) == IF s # <<>> /\ Last(s) = CR THEN Front(s) ELSE s

\* ScanLines: the line from i on ends at the next \n, only without any at the next \r.
LineEndAt(p, i) ==
  LET lf == NextAt(p, LF, i)
  IN  IF lf <= Len(p) THEN lf ELSE NextAt(p, CR, i)

\* The tokens the scanner finds in p.
Tokens(p) ==
  Parts(p, [i \in DOMAIN p |->
             Part(DropCR(SubSeq(p, i, LineEndAt(p, i) - 1)), LineEndAt(p, i) + 1)])

NonEmpty(tokens) ==
  FlattenSeq([i \in DOMAIN tokens |-> IF tokens[i] = <<>> THEN <<>> ELSE <<tokens[i]>>])

EndsLine(p) == Last(p) \in {LF, CR}

Entries(p, o, entries) ==
  /\ calls < MaxCalls /\ calls' = calls + 1
  /\ op' = o /\ chunk' = p /\ out' = entries
  /\ given' = given \o OnlyText(p)
  /\ logged' = logged \o OnlyText(FlattenSeq(entries))

FaultyWrite(p) ==                  \* variant: the last line always waits for the next Write
  LET before == NonEmpty(Front(Tokens(p)))
      kept == IF before = <<>> THEN remainingString ELSE <<>>
  IN  /\ Entries(p, "write", before)
      /\ remainingString' = kept \o Last(Tokens(p))
      /\ carried' = (carried \/ ~EndsLine(p))

\* A line is logged when the next one is found; what was carried over is cleared
\* first and never logged.  The last line is logged if the chunk ends it, and else
\* added to the part carried over.
Write(p) ==
  LET before == NonEmpty(Front(Tokens(p)))
      last == Last(Tokens(p))
      kept == IF before = <<>> THEN remainingString ELSE <<>>
  IN  /\ Entries(p, "write", before \o IF EndsLine(p) THEN NonEmpty(<<last>>) ELSE <<>>)
      /\ remainingString' = IF EndsLine(p) THEN kept ELSE kept \o last
      /\ carried' = (carried \/ ~EndsLine(p))

FaultyReadLine(p, i) ==            \* variant: the rest of a long line is skipped
  LET lf == NextAt(p, LF, i)
  IN  Part(DropCR(SubSeq(p, i, Min({lf - 1, i + Buf - 1}))), lf + 1)

\* bufio.Reader.ReadLine: a line without its \n or \r\n; of a line longer than the
\* buffer a piece that fills it, a \r at the end being left for the next.
ReadLine(p, i) ==
  LET lf == NextAt(p, LF, i)
      full == DropCR(SubSeq(p, i, i + Buf - 1))
  IN  IF lf < i + Buf
      THEN IF lf <= Len(p) THEN Part(DropCR(SubSeq(p, i, lf - 1)), lf + 1)
           ELSE Part(SubSeq(p, i, Len(p)), lf)
      ELSE Part(full, i + Len(full))

Pieces(p) == Parts(p, [i \in DOMAIN p |-> ReadLine(p, i)])

ReadFrom(p) == Entries(p, "read", Pieces(p)) /\ UNCHANGED <<remainingString, carried>>

LoggerNext == \E p \in Chunk : Write(p) \/ ReadFrom(p)

LoggerSpec == LoggerInit /\ [][LoggerNext]_loggerVars

-----------------------------------------------------------------------------
(* Properties. *)

\* As long as every chunk ends its last line, all text is logged, in order and once,
\* whatever the line ends and however Write and ReadFrom take turns.
TextIsLogged == ~carried => logged = given

\* A \n, or the \r before one.
IsLineEnd(p, i) == p[i] = LF \/ (p[i] = CR /\ i < Len(p) /\ p[i + 1] = LF)

WithoutLineEnds(p) == FlattenSeq([i \in DOMAIN p |-> IF IsLineEnd(p, i) THEN <<>> ELSE <<p[i]>>])

\* Cut into lines and, beyond the buffer, into pieces, a stream keeps everything but
\* its line ends.
StreamIsKept ==
  op = "read" =>
    /\ FlattenSeq(out) = WithoutLineEnds(chunk)
    /\ \A i \in DOMAIN out : Len(out[i]) <= Buf
=============================================================================

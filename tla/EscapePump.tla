------------------------------ MODULE EscapePump ------------------------------
(***************************************************************************)
(* run_session's stdin side: the task that reads what the user types or    *)
(* pipes in, looks for escape sequences at the start of a line and passes  *)
(* what it read to the channel, with a PTY and without.  What one read     *)
(* returns is up to the kernel; the scan of a buffer goes one turn of its  *)
(* loop at a time.                                                         *)
(***************************************************************************)
EXTENDS Integers, Sequences

CONSTANTS
  Lengths,    \* how much may be typed before stdin ends
  ReadSize,   \* the most one read returns
  None        \* -e none

\* The escape character, "." and "?", a line feed, and any other byte.
Bytes == {"esc", "dot", "help", "nl", "other"}

ASSUME EscapeAssumption ==
  /\ Lengths \subseteq Nat /\ ReadSize \in Nat \ {0}
  /\ None # "esc"

VARIABLES
  escape,         \* escape_char: "esc" or None
  pty,            \* a PTY was requested; the pump is not told
  redirect,       \* -n: stdin is not read
  typed,          \* all that stdin will deliver
  reads,          \* where each read of it ended, in order
  at_line_start,
  carry,          \* bytes kept for the next read
  stream, pos,    \* the buffer being scanned, and the byte the scan is at
  sent,           \* bytes given to the channel
  pump,           \* "reading", "scanning", "disconnected", "ended"
  eof,            \* tx.eof() was called
  gone            \* the channel takes no more data

scanVars == <<at_line_start, stream, pos>>
outputVars == <<sent, eof>>
input == <<escape, pty, redirect, typed>>
stdinVars == <<input, reads, scanVars, carry, outputVars, pump, gone>>

Consumed == IF reads = << >> THEN 0 ELSE reads[Len(reads)]

StdinTypeOK ==
  /\ escape \in {"esc", None}
  /\ {pty, redirect, at_line_start, eof, gone} \subseteq BOOLEAN
  /\ typed \in Seq(Bytes)
  /\ reads \in Seq(DOMAIN typed)
  /\ carry \in Seq(Bytes) /\ stream \in Seq(Bytes) /\ sent \in Seq(Bytes)
  /\ pos \in 1 .. Len(stream) + 1
  /\ pump \in {"reading", "scanning", "disconnected", "ended"}

StdinInit ==
  /\ escape \in {"esc", None}
  /\ pty \in BOOLEAN /\ redirect \in BOOLEAN
  /\ \E n \in Lengths : typed \in [1 .. n -> Bytes]
  /\ reads = << >>
  /\ at_line_start = TRUE
  /\ carry = << >> /\ stream = << >> /\ pos = 1
  /\ sent = << >>
  /\ pump = "reading"
  /\ eof = FALSE
  /\ gone = FALSE

------------------------------------------------------------------------------
Reading == pump = "reading" /\ ~redirect

\* One read, put behind what was kept; -e none skips the scan.
Read ==
  /\ Reading
  /\ \E n \in 1 .. ReadSize :
       /\ Consumed + n <= Len(typed)
       /\ reads' = Append(reads, Consumed + n)
       /\ stream' = carry \o SubSeq(typed, Consumed + 1, Consumed + n)
  /\ carry' = << >>
  /\ pos' = IF escape = None THEN Len(stream') + 1 ELSE 1
  /\ pump' = "scanning"
  /\ UNCHANGED <<input, at_line_start, outputVars, gone>>

\* read() = 0.
StdinEof ==
  /\ Reading
  /\ Consumed = Len(typed)
  /\ eof' = TRUE
  /\ pump' = "ended"
  /\ UNCHANGED <<input, reads, scanVars, carry, sent, gone>>

ReadFails ==
  /\ Reading
  /\ pump' = "ended"
  /\ UNCHANGED <<input, reads, scanVars, carry, outputVars, gone>>

------------------------------------------------------------------------------
(* The scan.  An escape that is the last byte of the buffer is data, as one     *)
(* followed by any byte but "." and "?".                                        *)

Scanning == pump = "scanning" /\ pos <= Len(stream)
Is(byte, at) == at <= Len(stream) /\ stream[at] = byte
Escaped(byte) == at_line_start /\ Is("esc", pos) /\ Is(byte, pos + 1)

Passed(next, line_start) ==
  /\ pos' = next
  /\ at_line_start' = line_start
  /\ UNCHANGED <<input, reads, stream, carry, outputVars, pump, gone>>

LineFeed == Scanning /\ Is("nl", pos) /\ Passed(pos + 1, TRUE)

\* "~?", and a line feed after it.
Help ==
  /\ Scanning /\ Escaped("help")
  /\ Passed(IF Is("nl", pos + 2) THEN pos + 3 ELSE pos + 2, TRUE)

\* Mutant: "~." anywhere in a line.
TerminateAnywhere ==
  /\ Scanning /\ Is("esc", pos) /\ Is("dot", pos + 1)
  /\ eof' = TRUE
  /\ pump' = "disconnected"
  /\ stream' = << >> /\ pos' = 1
  /\ UNCHANGED <<input, reads, at_line_start, carry, sent, gone>>

\* "~." ends the task: nothing of its buffer is sent.
Terminate ==
  /\ Scanning /\ Escaped("dot")
  /\ eof' = TRUE
  /\ pump' = "disconnected"
  /\ stream' = << >> /\ pos' = 1
  /\ UNCHANGED <<input, reads, at_line_start, carry, sent, gone>>

Data ==
  /\ Scanning /\ ~Is("nl", pos) /\ ~Escaped("help") /\ ~Escaped("dot")
  /\ Passed(pos + 1, FALSE)

\* Mutant: an escape at the end of a buffer is held back for the next read.
ForwardHeld ==
  LET whole == IF Is("esc", Len(stream)) THEN Len(stream) - 1 ELSE Len(stream)
  IN  /\ pump = "scanning" /\ pos > Len(stream) /\ ~gone
      /\ sent' = sent \o SubSeq(stream, 1, whole)
      /\ carry' = SubSeq(stream, whole + 1, Len(stream))
      /\ pump' = "reading"
      /\ stream' = << >> /\ pos' = 1
      /\ UNCHANGED <<input, reads, at_line_start, eof, gone>>

\* Everything up to where the scan stopped goes to the channel, the sequences it
\* acted on included; a channel that takes no more ends the task.
Forward ==
  /\ pump = "scanning" /\ pos > Len(stream)
  /\ \/ /\ ~(pos > 1 /\ gone)
        /\ sent' = sent \o SubSeq(stream, 1, pos - 1)
        /\ carry' = SubSeq(stream, pos, Len(stream))
        /\ pump' = "reading"
     \/ /\ pos > 1 /\ gone
        /\ pump' = "ended"
        /\ UNCHANGED <<sent, carry>>
  /\ stream' = << >> /\ pos' = 1
  /\ UNCHANGED <<input, reads, at_line_start, eof, gone>>

ChannelGoes ==
  /\ ~gone
  /\ gone' = TRUE
  /\ UNCHANGED <<input, reads, scanVars, carry, outputVars, pump>>

StdinNext ==
  \/ Read \/ StdinEof \/ ReadFails
  \/ LineFeed \/ Help \/ Terminate \/ Data \/ Forward
  \/ ChannelGoes

StdinSpec == StdinInit /\ [][StdinNext]_stdinVars

------------------------------------------------------------------------------
\* Where a line starts for a reader of all that was typed: at the beginning or
\* after a line feed, and after any number of "~?" from there.
LineStart(i) ==
  \E h \in 0 .. i :
    /\ i - 2 * h = 1 \/ (i - 2 * h > 1 /\ typed[i - 2 * h - 1] = "nl")
    /\ \A k \in 1 .. h : typed[i - 2 * k] = "esc" /\ typed[i - 2 * k + 1] = "help"

SplitAt(i) == \E r \in DOMAIN reads : reads[r] = i

\* A sequence asked for in what has been read.
Asks(action) ==
  \E i \in 1 .. Consumed - 1 : LineStart(i) /\ typed[i] = "esc" /\ typed[i + 1] = action

\* Nothing is lost on the way, in whatever pieces it is read: what the channel has,
\* with what the pump still holds, is all that was read, in order.  Only a read with
\* a disconnect in it, or one the channel refused, goes nowhere.  It speaks of
\* input that asks for no escape sequence, or for a disconnect with a PTY that is
\* obeyed; for the others see below.
ForwardsAll ==
  LET plain == escape = "esc" => ~Asks("help") /\ (Asks("dot") => pty /\ pump = "disconnected")
      held == CASE pump = "reading" -> carry
                [] pump = "scanning" -> stream
                [] OTHER -> << >>
      given == sent \o held
      before == IF Len(reads) < 2 THEN 0 ELSE reads[Len(reads) - 1]
  IN  plain =>
        /\ given = SubSeq(typed, 1, Len(given))
        /\ \/ Len(given) = Consumed
           \/ Len(given) = before /\ (pump = "disconnected" \/ (pump = "ended" /\ gone))
        /\ pump = "disconnected" => eof

\* With a PTY "~." at the start of a line disconnects, and nothing else does, but
\* for a sequence that two reads have cut in two.  The byte after such a cut is in
\* the middle of a line, also where "~?" was cut.
DisconnectsAtLineStart ==
  LET whole(i) == LineStart(i) /\ typed[i] = "esc" /\ typed[i + 1] = "dot" /\ ~SplitAt(i)
      met == \E i \in 1 .. Consumed - 1 : whole(i)
      cut == \E i \in 1 .. Consumed - 1 : typed[i] = "esc" /\ SplitAt(i)
  IN  escape = "esc" /\ pty =>
        /\ pump = "disconnected" => met
        /\ pump \in {"reading", "ended"} /\ met => cut

\* "~?" is for the user, "but the remote shell does not" see it (ssh.rs:1062-1071):
\* no line the channel gets begins with it.  The scan steps over the sequence and
\* the whole buffer is sent.
HelpStaysLocal ==
  escape = "esc" /\ pty =>
    \A i \in 1 .. Len(sent) - 1 :
      i = 1 \/ sent[i - 1] = "nl" => ~(sent[i] = "esc" /\ sent[i + 1] = "help")

\* "we never miss an escape sequence that crossed a read boundary"
\* (ssh.rs:1015-1016): the pump does not read on after a "~." at the start of a
\* line.  The scan takes an escape at the end of a buffer for data, so nothing is
\* ever carried over.
DisconnectsAcrossReads == escape = "esc" /\ pty /\ pump = "reading" => ~Asks("dot")

\* The escape is "only honored when a PTY is allocated", "ignored otherwise"
\* (cli.rs:260-262): without one nothing that is piped in disconnects.
IgnoredWithoutPty == ~pty => pump # "disconnected"
==============================================================================

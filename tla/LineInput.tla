------------------------------ MODULE LineInput ------------------------------
(***************************************************************************)
(* The line buffer between standard input and the handler of commands      *)
(* (input_buffer.c).  read() appends whatever is there, the buffer is      *)
(* searched as a C string for a newline, and a line that was handled is    *)
(* removed by moving the rest to the front.  Nothing ever clears the bytes *)
(* behind the contents, and a read may return any part of what is there:   *)
(* of a terminal one line or less, of a file or a pipe many lines.  The    *)
(* input is text (no NUL).                                                 *)
(***************************************************************************)
EXTENDS Integers, Sequences

CONSTANTS USERBUF_SIZE,
          UINT,         \* the values of an unsigned int are those below
          Letters,      \* what else a line is made of
          MaxTyped      \* bound on the number of characters typed

NL == "newline"
NUL == "NUL"

ASSUME LineInputAssumption ==
  /\ USERBUF_SIZE \in Nat \ {0, 1}
  /\ UINT \in Nat /\ UINT > 2 * USERBUF_SIZE
  /\ NL \notin Letters /\ NUL \notin Letters
  /\ MaxTyped \in Nat

VARIABLES typed,      \* all characters so far
          pending,    \* those not yet read
          buf, cur,   \* the user_iobuf
          handled,    \* the lines passed to handle_line, each with its newline
          status      \* "running" or "exited"

\* Auxiliary, read by the properties only: a read has left several lines in
\* more than half of the buffer.
VARIABLE crowded

inputVars == <<typed, pending, buf, cur, handled, status, crowded>>

Places == 0..USERBUF_SIZE

\* create_userbuf.
InputInit ==
  /\ typed = << >> /\ pending = << >> /\ handled = << >>
  /\ buf = [j \in Places |-> NUL] /\ cur = 0
  /\ status = "running" /\ crowded = FALSE

\* The first newline of the buffer, if there is one before its first NUL.
strchr ==
  {i \in Places : buf[i] = NL /\ \A j \in 0..(i - 1) : buf[j] \notin {NL, NUL}}

\* The user, or another program, writes to the standard input.
Type(c) ==
  /\ status = "running" /\ Len(typed) < MaxTyped
  /\ typed' = Append(typed, c) /\ pending' = Append(pending, c)
  /\ UNCHANGED <<buf, cur, handled, status, crowded>>

\* Reading k characters leaves several lines in more than half of the buffer.
Crowded(k) ==
  cur + k > USERBUF_SIZE \div 2 + 1 /\ \E j \in 1..(k - 1) : pending[j] = NL

\* Mutant: a read may fill one place more than there is.
ReadOneMore(k) ==
  /\ status = "running" /\ strchr = {} /\ cur < USERBUF_SIZE - 1
  /\ k <= USERBUF_SIZE + 1 - cur
  /\ buf' = [j \in Places |-> IF j \in cur..(cur + k - 1)
                              THEN pending[j - cur + 1] ELSE buf[j]]
  /\ cur' = cur + k
  /\ pending' = SubSeq(pending, k + 1, Len(pending))
  /\ crowded' = (crowded \/ Crowded(k))
  /\ UNCHANGED <<typed, handled, status>>

\* The first k of the characters that are pending are appended to the buffer.
Read(k) ==
  /\ status = "running" /\ strchr = {} /\ cur < USERBUF_SIZE - 1
  /\ k <= USERBUF_SIZE - cur
  /\ buf' = [j \in Places |-> IF j \in cur..(cur + k - 1)
                              THEN pending[j - cur + 1] ELSE buf[j]]
  /\ cur' = cur + k
  /\ pending' = SubSeq(pending, k + 1, Len(pending))
  /\ crowded' = (crowded \/ Crowded(k))
  /\ UNCHANGED <<typed, handled, status>>

ReadInput == \E k \in 1..Len(pending) : Read(k)

\* Input is there and the buffer is full: the program exits.
LineTooLong ==
  /\ status = "running" /\ strchr = {} /\ cur >= USERBUF_SIZE - 1
  /\ pending # << >>
  /\ status' = "exited"
  /\ UNCHANGED <<typed, pending, buf, cur, handled, crowded>>

\* The characters of the line that ends at i.
LineTo(i) == [k \in 1..i |-> buf[k - 1]]

\* Mutant: the count keeps the newline.
ShiftOutKeepsOne(i) ==
  /\ handled' = handled \o Append(LineTo(i), NL)
  /\ buf' = [j \in Places |-> IF j < USERBUF_SIZE - i THEN buf[j + i + 1]
                              ELSE IF j = i THEN NUL ELSE buf[j]]
  /\ cur' = (cur - i) % UINT

\* Mutant: the buffer is cleared after a line.
ShiftOutAll(i) ==
  /\ handled' = handled \o Append(LineTo(i), NL)
  /\ buf' = [j \in Places |-> NUL] /\ cur' = 0

\* The newline at i becomes a NUL, the line is handled, USERBUF_SIZE - i bytes
\* behind it are moved to the front, and cur, which is unsigned, goes down.
ShiftOut(i) ==
  /\ handled' = handled \o Append(LineTo(i), NL)
  /\ buf' = [j \in Places |-> IF j < USERBUF_SIZE - i THEN buf[j + i + 1]
                              ELSE IF j = i THEN NUL ELSE buf[j]]
  /\ cur' = (cur - (i + 1)) % UINT

TakeLine(i) ==
  /\ status = "running" /\ i \in strchr /\ ShiftOut(i)
  /\ UNCHANGED <<typed, pending, status, crowded>>

InputNext ==
  \/ \E c \in Letters \cup {NL} : Type(c)
  \/ ReadInput \/ LineTooLong
  \/ \E i \in Places : TakeLine(i)

InputSpec == InputInit /\ [][InputNext]_inputVars

-----------------------------------------------------------------------------
(* Properties.                                                             *)

\* cur is below zero, which an unsigned int is not.
Wrapped == cur > USERBUF_SIZE

\* The type invariant: the contents fit, and what cur wraps by is bounded.
InputTypeOK ==
  /\ {typed, pending, handled} \subseteq Seq(Letters \cup {NL})
  /\ buf \in [Places -> Letters \cup {NL, NUL}] /\ buf[USERBUF_SIZE] = NUL
  /\ cur \in Places \cup (UINT - USERBUF_SIZE)..(UINT - 1)
  /\ status \in {"running", "exited"} /\ crowded \in BOOLEAN

Contents == [k \in 1..cur |-> buf[k - 1]]

\* Until cur wraps, the lines handled are the lines typed, whatever pieces they
\* are read in: no character is lost, repeated or left from an earlier line,
\* though the bytes behind the contents are never cleared (process_user_input).
LinesAsTyped == ~Wrapped => typed = handled \o Contents \o pending

\* What follows the first h characters typed is too long for the buffer.
LongLine(h) ==
  \A k \in 1..(USERBUF_SIZE - 1) : h + k <= Len(typed) /\ typed[h + k] # NL

\* cur wraps, and the program gives up a line that fits, only if some read left
\* several lines in more than half of the buffer: however many short lines come
\* one by one, no newline of theirs is found again (process_user_input).
OnlyLongLines ==
  ~crowded => ~Wrapped /\ (status = "exited" => LongLine(Len(handled)))

\* A read of a terminal ends at the first newline.
ReadsOneLine ==
  ReadInput => \A j \in 1..(Len(pending) - Len(pending') - 1) : pending[j] # NL

\* What the program says when it exits: "buffer full;  line too long!".
ExitMeansLongLine ==
  status = "exited" => \E h \in 0..Len(typed) : LongLine(h)
=============================================================================

----------------------------- MODULE ConsoleProofs -----------------------------
(***************************************************************************)
(* For every size of chunks, packets and requests: the data packets of a   *)
(* chunk carry each of its bytes once and the last of them is FINALACK,    *)
(* the WHOHAS packets of a request name each of its hashes once, and the   *)
(* console handles the lines that were typed.                              *)
(***************************************************************************)
EXTENDS Console, NumberProofs, SequenceTheorems

-----------------------------------------------------------------------------
(***************************************************************************)
(* The lines handled are the lines typed, for every size of the buffer,    *)
(* every text and every read.  A read finds no NUL in the contents, so     *)
(* that a line that is found is the first one of them or is behind them,   *)
(* and one that is behind them wraps cur.  Until a read crowds the buffer  *)
(* there is no newline behind the contents, where an earlier line may have *)
(* left anything else.                                                     *)
(***************************************************************************)
Chars == Letters \cup {NL}

\* There is no NUL in the contents.
NoNul == ~Wrapped => \A j \in 0..(cur - 1) : buf[j] # NUL

\* No newline is left behind the contents.
Tidy == ~crowded => \A j \in cur..USERBUF_SIZE : buf[j] # NL

\* Two newlines of the contents are so far to the front that the second is
\* overwritten when the first line is shifted out.
Uncrowded ==
  ~crowded =>
    \A i, p \in 0..(cur - 1) :
      buf[i] = NL /\ buf[p] = NL /\ i < p => i + p < USERBUF_SIZE

\* cur wraps only in a crowded buffer, and by less than what the lines that
\* can still be found leave of the buffer.
WrapsByLess ==
  Wrapped => /\ crowded
             /\ \E z \in Places : buf[z] = NUL /\ UINT - USERBUF_SIZE + z <= cur

\* The program exits with a full buffer and no line in it.
FullAtExit ==
  status = "exited" /\ ~crowded =>
    cur >= USERBUF_SIZE - 1 /\ \A j \in 0..(cur - 1) : buf[j] # NL

IInv ==
  InputTypeOK /\ LinesAsTyped /\ NoNul /\ Tidy /\ Uncrowded /\ WrapsByLess /\ FullAtExit

-----------------------------------------------------------------------------
\* Concatenation of texts is associative.
LEMMA Regroup ==
  ASSUME NEW s \in Seq(Chars), NEW t \in Seq(Chars), NEW u \in Seq(Chars)
  PROVE  (s \o t) \o u = s \o (t \o u)
BY ConcatAssociative

\* The buffer, and where cur is.
LEMMA BufferType ==
  ASSUME IInv
  PROVE  /\ USERBUF_SIZE \in Nat \ {0, 1} /\ UINT \in Nat /\ UINT > 2 * USERBUF_SIZE
         /\ buf \in [Places -> Chars \cup {NUL}] /\ buf[USERBUF_SIZE] = NUL
         /\ typed \in Seq(Chars) /\ pending \in Seq(Chars) /\ handled \in Seq(Chars)
         /\ ~Wrapped => cur \in 0..USERBUF_SIZE
         /\ Wrapped => cur \in (UINT - USERBUF_SIZE)..(UINT - 1)
         /\ ~crowded => ~Wrapped
         /\ NL # NUL /\ NL \in Chars /\ NUL \notin Chars
         /\ crowded \in BOOLEAN /\ status \in {"running", "exited"}
BY LineInputAssumption
   DEF IInv, InputTypeOK, WrapsByLess, Wrapped, Chars, Places, NL, NUL

\* When the search finds no newline there is none in the contents.
LEMMA NoLineInContents ==
  ASSUME IInv, strchr = {}, ~Wrapped
  PROVE  \A j \in 0..(cur - 1) : buf[j] # NL
<1> DEFINE T == {j \in 0..(cur - 1) : buf[j] = NL}
<1>1. SUFFICES ASSUME T # {} PROVE FALSE
  OBVIOUS
<1>2. cur \in 0..USERBUF_SIZE /\ USERBUF_SIZE \in Nat
  BY BufferType
<1>3. T \subseteq Nat
  BY <1>2
<1>4. PICK x \in T : \A y \in T : x <= y
  <2> HIDE DEF T
  <2> QED BY <1>1, <1>3, LeastElement
<1>5. \A j \in 0..(x - 1) : buf[j] \notin {NL, NUL}
  BY <1>2, <1>4 DEF IInv, NoNul
<1>6. x \in Places
  BY <1>2, <1>4 DEF Places
<1>7. x \in strchr
  BY <1>4, <1>5, <1>6 DEF strchr
<1> QED BY <1>7

\* A newline that is found is the first, and not in the last byte.
LEMMA LineIsFirst ==
  ASSUME IInv, NEW i \in strchr
  PROVE  /\ i \in 0..(USERBUF_SIZE - 1) /\ buf[i] = NL
         /\ \A j \in 0..(i - 1) : buf[j] # NL /\ buf[j] # NUL
         /\ ~crowded => i < cur
<1>1. i \in 0..USERBUF_SIZE /\ buf[i] = NL
  BY DEF strchr, Places
<1>2. i # USERBUF_SIZE
  BY <1>1, BufferType
<1>3. ASSUME ~crowded PROVE i < cur
  BY <1>1, <1>3, BufferType DEF IInv, Tidy
<1> QED BY <1>1, <1>2, <1>3, BufferType DEF strchr

\* The contents are a sequence of characters.
LEMMA ContentsType ==
  ASSUME IInv, ~Wrapped
  PROVE  /\ Contents \in Seq(Chars) /\ Len(Contents) = cur
         /\ \A k \in 1..cur : Contents[k] = buf[k - 1]
<1>1. cur \in 0..USERBUF_SIZE /\ USERBUF_SIZE \in Nat
  BY BufferType
<1>2. \A k \in 1..cur : buf[k - 1] \in Chars
  BY <1>1, BufferType DEF IInv, NoNul, Places
<1> QED BY <1>1, <1>2, SeqDef DEF Contents

-----------------------------------------------------------------------------
LEMMA InitHolds == InputInit => IInv
<1> SUFFICES ASSUME InputInit PROVE IInv
  OBVIOUS
<1> USE LineInputAssumption DEF InputInit, Places
<1>1. InputTypeOK
  BY DEF InputTypeOK
<1>2. LinesAsTyped
  <2>1. Contents = << >>
    BY DEF Contents
  <2> QED BY <2>1 DEF LinesAsTyped
<1>3. NL # NUL /\ ~Wrapped
  BY DEF NL, NUL, Wrapped
<1>4. NoNul /\ Tidy /\ Uncrowded /\ WrapsByLess /\ FullAtExit
  BY <1>3 DEF NoNul, Tidy, Uncrowded, WrapsByLess, FullAtExit
<1> QED BY <1>1, <1>2, <1>4 DEF IInv

\* What the user types is appended to what is pending.
LEMMA TypeKeeps ==
  ASSUME IInv, NEW c \in Chars, Type(c)
  PROVE  IInv'
<1>1. /\ typed \in Seq(Chars) /\ pending \in Seq(Chars) /\ handled \in Seq(Chars)
  BY BufferType
<1>2. Contents' = Contents /\ Wrapped' = Wrapped
  BY DEF Type, Contents, Wrapped
<1>3. InputTypeOK'
  BY <1>1 DEF IInv, InputTypeOK, Type, Chars
<1>4. LinesAsTyped'
  <2>1. SUFFICES ASSUME ~Wrapped PROVE typed' = (handled \o Contents) \o pending'
    BY <1>2 DEF LinesAsTyped, Type
  <2>2. Contents \in Seq(Chars) /\ handled \o Contents \in Seq(Chars)
    BY <1>1, <2>1, ContentsType, ConcatProperties
  <2>3. typed = (handled \o Contents) \o pending
    BY <2>1 DEF IInv, LinesAsTyped
  <2>4. Append(typed, c) = typed \o <<c>> /\ Append(pending, c) = pending \o <<c>>
    BY <1>1, AppendIsConcat
  <2>5. <<c>> \in Seq(Chars)
    OBVIOUS
  <2>6. ((handled \o Contents) \o pending) \o <<c>>
          = (handled \o Contents) \o (pending \o <<c>>)
    <3> DEFINE s == handled \o Contents
               new == <<c>>
    <3>1. s \in Seq(Chars) /\ new \in Seq(Chars) /\ pending \in Seq(Chars)
      BY <1>1, <2>2, <2>5
    <3> HIDE DEF s, new
    <3>2. (s \o pending) \o new = s \o (pending \o new)
      BY <3>1, Regroup
    <3> QED BY <3>2 DEF s, new
  <2> QED BY <2>3, <2>4, <2>6 DEF Type
<1>5. (NoNul /\ Tidy /\ Uncrowded /\ WrapsByLess /\ FullAtExit)'
  BY <1>2 DEF IInv, Type, NoNul, Tidy, Uncrowded, WrapsByLess, FullAtExit
<1> QED BY <1>3, <1>4, <1>5 DEF IInv

\* A read appends the first k pending characters to the contents.
LEMMA ReadKeeps ==
  ASSUME IInv, ReadInput
  PROVE  IInv'
<1>1. PICK k \in 1..Len(pending) :
        /\ k <= USERBUF_SIZE - cur /\ cur < USERBUF_SIZE - 1 /\ strchr = {}
        /\ buf' = [j \in Places |-> IF j \in cur..(cur + k - 1)
                                    THEN pending[j - cur + 1] ELSE buf[j]]
        /\ cur' = cur + k
        /\ pending' = SubSeq(pending, k + 1, Len(pending))
        /\ crowded' = (crowded \/ Crowded(k))
        /\ UNCHANGED <<typed, handled, status>> /\ status = "running"
  BY DEF ReadInput, Read
<1>2. /\ typed \in Seq(Chars) /\ pending \in Seq(Chars) /\ handled \in Seq(Chars)
      /\ buf \in [Places -> Chars \cup {NUL}]
      /\ cur \in 0..USERBUF_SIZE /\ USERBUF_SIZE \in Nat \ {0, 1} /\ ~Wrapped
  BY <1>1, BufferType DEF Wrapped
<1>3. /\ k \in Nat \ {0} /\ cur + k \in 0..USERBUF_SIZE /\ Len(pending) \in Nat
      /\ \A j \in 1..Len(pending) : pending[j] \in Chars
  BY <1>1, <1>2, LenProperties, ElementOfSeq
<1>4. UNCHANGED <<typed, handled, status>> /\ status = "running"
  BY <1>1
<1>5. \A j \in 0..(cur - 1) : buf'[j] = buf[j] /\ buf[j] # NL
  BY <1>1, <1>2, NoLineInContents DEF Places
<1>6. \A j \in cur..(cur + k - 1) : buf'[j] = pending[j - cur + 1] /\ buf'[j] \in Chars
  BY <1>1, <1>2, <1>3 DEF Places
<1>7. \A j \in (cur + k)..USERBUF_SIZE : buf'[j] = buf[j]
  BY <1>1, <1>2, <1>3 DEF Places
<1>8. InputTypeOK'
  <2>1. pending' \in Seq(Chars)
    BY <1>1, <1>3, SubSeqProperties
  <2>2. buf' \in [Places -> Chars \cup {NUL}]
    BY <1>1, <1>2, <1>3 DEF Places
  <2>3. buf'[USERBUF_SIZE] = NUL
    BY <1>2, <1>3, <1>7, BufferType
  <2>4. crowded' \in BOOLEAN /\ cur' \in Places /\ status' \in {"running", "exited"}
    BY <1>1, <1>2, <1>3, <1>4, BufferType DEF Crowded, Places
  <2> QED BY <1>2, <1>4, <2>1, <2>2, <2>3, <2>4 DEF InputTypeOK, Chars
<1>9. LinesAsTyped'
  <2> DEFINE new == SubSeq(pending, 1, k)
  <2>1. /\ new \in Seq(Chars) /\ Len(new) = k
        /\ \A j \in 1..k : new[j] = pending[j]
    BY <1>1, <1>3, SubSeqProperties
  <2>2. pending' \in Seq(Chars)
    BY <1>1, <1>3, SubSeqProperties
  <2>3. pending = new \o pending'
    <3>1. pending = SubSeq(pending, 1, Len(pending))
      BY <1>2, SubSeqFull
    <3>2. SubSeq(pending, 1, Len(pending))
            = SubSeq(pending, 1, k) \o SubSeq(pending, k + 1, Len(pending))
      BY <1>1, <1>2, <1>3, ConcatAdjacentSubSeq
    <3> QED BY <1>1, <3>1, <3>2
  <2>4. /\ Contents \in Seq(Chars) /\ Len(Contents) = cur
        /\ \A j \in 1..cur : Contents[j] = buf[j - 1]
    BY <1>2, ContentsType
  <2>5. Contents' = Contents \o new
    <3> DEFINE s == Contents'
               t == Contents \o new
    <3>1. /\ t \in Seq(Chars) /\ Len(t) = cur + k
          /\ \A j \in 1..(cur + k) :
               t[j] = IF j <= cur THEN buf[j - 1] ELSE pending[j - cur]
      <4>1. /\ t \in Seq(Chars) /\ Len(t) = Len(Contents) + Len(new)
            /\ \A j \in 1..(Len(Contents) + Len(new)) :
                 t[j] = IF j <= Len(Contents) THEN Contents[j] ELSE new[j - Len(Contents)]
        BY <2>1, <2>4, ConcatProperties
      <4> HIDE DEF t, new
      <4>2. Len(Contents) = cur /\ Len(new) = k /\ cur \in Nat /\ k \in Nat
        BY <1>2, <1>3, <2>1, <2>4
      <4>3. SUFFICES ASSUME NEW j \in 1..(cur + k)
                     PROVE  t[j] = IF j <= cur THEN buf[j - 1] ELSE pending[j - cur]
        BY <4>1, <4>2
      <4>4. t[j] = IF j <= cur THEN Contents[j] ELSE new[j - cur]
        BY <4>1, <4>2
      <4>5. CASE j <= cur
        BY <2>4, <4>2, <4>4, <4>5
      <4>6. CASE ~(j <= cur)
        <5>1. j - cur \in 1..k
          BY <4>2, <4>6
        <5> QED BY <2>1, <4>4, <4>6, <5>1
      <4> QED BY <4>5, <4>6
    <3>2. \A j \in 1..(cur + k) :
            buf'[j - 1] = IF j <= cur THEN buf[j - 1] ELSE pending[j - cur]
      <4> SUFFICES ASSUME NEW j \in 1..(cur + k)
                   PROVE  buf'[j - 1] = IF j <= cur THEN buf[j - 1] ELSE pending[j - cur]
        OBVIOUS
      <4>1. cur \in Nat /\ k \in Nat
        BY <1>2, <1>3
      <4>2. CASE j <= cur
        <5>1. j - 1 \in 0..(cur - 1)
          BY <4>1, <4>2
        <5> QED BY <1>5, <4>2, <5>1
      <4>3. CASE ~(j <= cur)
        <5> DEFINE i == j - 1
        <5>1. i \in cur..(cur + k - 1) /\ i - cur + 1 = j - cur
          BY <4>1, <4>3
        <5>2. buf'[i] = pending[i - cur + 1]
          <6> HIDE DEF i
          <6> QED BY <1>6, <5>1
        <5> QED BY <4>3, <5>1, <5>2
      <4> QED BY <4>2, <4>3
    <3>3. s = [j \in 1..(cur + k) |-> buf'[j - 1]]
      BY <1>1 DEF Contents
    <3>4. t = [j \in 1..(cur + k) |-> t[j]]
      <4> HIDE DEF t
      <4> QED BY <3>1, LenProperties
    <3> HIDE DEF s, t
    <3>5. s = t
      BY <3>1, <3>2, <3>3, <3>4
    <3> QED BY <3>5 DEF s, t
  <2>6. typed = (handled \o Contents) \o (new \o pending')
    BY <1>2, <2>3 DEF IInv, LinesAsTyped
  <2>7. (handled \o Contents) \o (new \o pending')
          = ((handled \o Contents) \o new) \o pending'
    <3>1. handled \o Contents \in Seq(Chars)
      BY <1>2, <2>4
    <3>2. new \in Seq(Chars)
      BY <2>1
    <3> HIDE DEF new
    <3> QED BY <2>2, <3>1, <3>2, Regroup, Zenon
  <2>8. (handled \o Contents) \o new = handled \o (Contents \o new)
    <3>1. handled \in Seq(Chars) /\ new \in Seq(Chars) /\ Contents \in Seq(Chars)
      BY <1>2, <2>1, <2>4
    <3> HIDE DEF new
    <3> QED BY <3>1, Regroup, Zenon
  <2> QED BY <1>4, <2>5, <2>6, <2>7, <2>8 DEF LinesAsTyped
<1>10. NoNul' /\ Tidy'
  <2>1. cur' = cur + k
    BY <1>1
  <2>2. \A j \in 0..(cur + k - 1) : buf'[j] # NUL
    BY <1>2, <1>3, <1>5, <1>6, BufferType DEF IInv, NoNul
  <2>3. ASSUME ~crowded PROVE \A j \in (cur + k)..USERBUF_SIZE : buf'[j] # NL
    <3>1. \A j \in cur..USERBUF_SIZE : buf[j] # NL
      BY <2>3 DEF IInv, Tidy
    <3>2. \A j \in (cur + k)..USERBUF_SIZE : j \in cur..USERBUF_SIZE
      BY <1>2, <1>3
    <3> QED BY <1>7, <3>1, <3>2
  <2>4. \A j \in 0..(cur' - 1) : buf'[j] # NUL
    BY <1>2, <1>3, <2>1, <2>2
  <2>5. ~crowded' => \A j \in cur'..USERBUF_SIZE : buf'[j] # NL
    BY <1>1, <2>1, <2>3
  <2> QED BY <2>4, <2>5 DEF NoNul, Tidy
<1>11. Uncrowded'
  <2>1. SUFFICES ASSUME NEW i \in 0..(cur' - 1), NEW p \in 0..(cur' - 1),
                        buf'[i] = NL, buf'[p] = NL, i < p, ~Crowded(k)
                 PROVE  i + p < USERBUF_SIZE
    BY <1>1 DEF Uncrowded
  <2>0. i \in 0..(cur + k - 1) /\ p \in 0..(cur + k - 1)
    BY <1>1, <1>2, <1>3, <2>1
  <2>2. i \in cur..(cur + k - 1) /\ pending[i - cur + 1] = NL
    BY <1>2, <1>3, <1>5, <1>6, <2>0, <2>1
  <2>3. i - cur + 1 \in 1..(k - 1)
    BY <1>2, <1>3, <2>0, <2>1, <2>2
  <2>4. cur + k <= USERBUF_SIZE \div 2 + 1
    BY <1>1, <1>2, <1>3, <2>1, <2>2, <2>3 DEF Crowded
  <2>5. 2 * (USERBUF_SIZE \div 2) <= USERBUF_SIZE /\ USERBUF_SIZE \div 2 \in Nat
    BY <1>2
  <2> QED BY <1>2, <1>3, <2>0, <2>1, <2>4, <2>5
<1>12. ~Wrapped'
  BY <1>1, <1>2, <1>3 DEF Wrapped
<1> QED BY <1>4, <1>8, <1>9, <1>10, <1>11, <1>12 DEF IInv, WrapsByLess, FullAtExit

\* Shifting out a line lowers cur by its length, and wraps it only if the line
\* is behind the contents.
LEMMA ShiftLowers ==
  ASSUME IInv, NEW i \in Places, TakeLine(i)
  PROVE  /\ ~Wrapped /\ i < cur => cur' = cur - (i + 1) /\ ~Wrapped'
         /\ ~Wrapped /\ cur <= i => cur' = UINT + cur - (i + 1) /\ Wrapped'
         /\ Wrapped => cur' = cur - (i + 1) /\ Wrapped'
         /\ Wrapped' => \E z \in Places : buf'[z] = NUL /\ UINT - USERBUF_SIZE + z <= cur'
         /\ cur' \in Places \cup (UINT - USERBUF_SIZE)..(UINT - 1)
<1>1. /\ i \in 0..(USERBUF_SIZE - 1) /\ buf[i] = NL
      /\ \A j \in 0..(i - 1) : buf[j] # NL /\ buf[j] # NUL
  BY LineIsFirst DEF TakeLine
<1>2. /\ USERBUF_SIZE \in Nat \ {0, 1} /\ UINT \in Nat /\ UINT > 2 * USERBUF_SIZE
      /\ NL # NUL /\ buf[USERBUF_SIZE] = NUL
      /\ ~Wrapped => cur \in 0..USERBUF_SIZE
      /\ Wrapped => cur \in (UINT - USERBUF_SIZE)..(UINT - 1)
  BY BufferType
<1>3. cur' = (cur - (i + 1)) % UINT
  BY DEF TakeLine, ShiftOut
<1>4. \A z \in Places : i < z => z - (i + 1) \in Places /\ buf'[z - (i + 1)] = buf[z]
  <2>1. SUFFICES ASSUME NEW z \in Places, i < z
                 PROVE  z - (i + 1) \in Places /\ buf'[z - (i + 1)] = buf[z]
    OBVIOUS
  <2>2. z - (i + 1) \in Places /\ z - (i + 1) < USERBUF_SIZE - i
        /\ (z - (i + 1)) + i + 1 = z
    BY <1>1, <1>2, <2>1 DEF Places
  <2>3. \A j \in Places : j < USERBUF_SIZE - i => buf'[j] = buf[j + i + 1]
    BY DEF TakeLine, ShiftOut
  <2> QED BY <2>2, <2>3
<1>5. CASE ~Wrapped /\ i < cur
  <2>1. cur - (i + 1) \in 0..(UINT - 1) /\ cur - (i + 1) \in 0..USERBUF_SIZE
    BY <1>1, <1>2, <1>5
  <2>2. cur' = cur - (i + 1)
    BY <1>2, <1>3, <2>1
  <2> QED BY <1>1, <1>2, <1>5, <2>1, <2>2 DEF Wrapped, Places
<1>6. CASE ~Wrapped /\ cur <= i
  <2>1. /\ cur - (i + 1) \in (0 - USERBUF_SIZE)..(0 - 1)
        /\ UINT + (cur - (i + 1)) \in (UINT - USERBUF_SIZE)..(UINT - 1)
    BY <1>1, <1>2, <1>6
  <2>2. cur' = UINT + (cur - (i + 1))
    BY <1>2, <1>3, <2>1
  <2>3. Wrapped'
    BY <1>2, <2>1, <2>2 DEF Wrapped
  <2> DEFINE z == USERBUF_SIZE - (i + 1)
  <2>4. z \in Places /\ buf'[z] = NUL /\ UINT - USERBUF_SIZE + z <= cur'
    BY <1>1, <1>2, <1>4, <1>6, <2>2 DEF Places
  <2> QED BY <1>1, <1>2, <1>6, <2>1, <2>2, <2>3, <2>4
<1>7. CASE Wrapped
  <2>1. PICK z \in Places : buf[z] = NUL /\ UINT - USERBUF_SIZE + z <= cur
    BY <1>7 DEF IInv, WrapsByLess
  <2>2. i < z
    BY <1>1, <1>2, <2>1 DEF Places
  <2>3. cur - (i + 1) \in (UINT - USERBUF_SIZE)..(UINT - 1)
    BY <1>1, <1>2, <1>7, <2>1, <2>2 DEF Places
  <2>4. cur' = cur - (i + 1)
    BY <1>2, <1>3, <2>3
  <2>5. Wrapped'
    BY <1>2, <2>3, <2>4 DEF Wrapped
  <2>6. /\ z - (i + 1) \in Places /\ buf'[z - (i + 1)] = NUL
        /\ UINT - USERBUF_SIZE + (z - (i + 1)) <= cur'
    BY <1>1, <1>2, <1>4, <1>7, <2>1, <2>2, <2>4 DEF Places
  <2> QED BY <1>7, <2>3, <2>4, <2>5, <2>6
<1> QED BY <1>1, <1>2, <1>5, <1>6, <1>7

\* Shifting out the first line leaves the rest of the contents, and neither a
\* newline behind them nor two that are further back than before.
LEMMA ShiftKeepsContents ==
  ASSUME IInv, NEW i \in Places, TakeLine(i), ~Wrapped, i < cur
  PROVE  (LinesAsTyped /\ NoNul /\ Tidy /\ Uncrowded)'
<1>1. /\ i \in 0..(cur - 1) /\ buf[i] = NL
      /\ \A j \in 0..(i - 1) : buf[j] # NL /\ buf[j] # NUL
  BY LineIsFirst, BufferType DEF TakeLine
<1>2. /\ typed \in Seq(Chars) /\ pending \in Seq(Chars) /\ handled \in Seq(Chars)
      /\ buf \in [Places -> Chars \cup {NUL}]
      /\ cur \in 0..USERBUF_SIZE /\ USERBUF_SIZE \in Nat \ {0, 1}
      /\ NL # NUL /\ NUL \notin Chars
  BY BufferType
<1>3. i \in Nat /\ i < cur
  BY <1>1, <1>2
<1>4. UNCHANGED <<typed, pending, status, crowded>> /\ status = "running"
  BY DEF TakeLine
<1>5. cur' = cur - (i + 1)
  BY ShiftLowers
<1>6. /\ cur' \in 0..USERBUF_SIZE /\ cur' < cur
      /\ \A j \in 0..(cur' - 1) : j + i + 1 \in 0..(cur - 1)
  BY <1>2, <1>3, <1>5
<1>7. \A j \in Places :
        buf'[j] = IF j < USERBUF_SIZE - i THEN buf[j + i + 1]
                  ELSE IF j = i THEN NUL ELSE buf[j]
  BY DEF TakeLine, ShiftOut
<1>8. \A j \in 0..(cur' - 1) : buf'[j] = buf[j + i + 1]
  BY <1>2, <1>3, <1>5, <1>7 DEF Places
<1>10. handled' = handled \o Append(LineTo(i), NL)
  BY DEF TakeLine, ShiftOut
<1> DEFINE line == Append(LineTo(i), NL)
<1>11. /\ line \in Seq(Chars) /\ Len(line) = i + 1
       /\ \A j \in 1..(i + 1) : line[j] = buf[j - 1]
  <2>1. \A j \in 1..i : buf[j - 1] \in Chars
    BY <1>1, <1>2, <1>3 DEF Places
  <2>2. LineTo(i) \in Seq(Chars) /\ Len(LineTo(i)) = i
    BY <1>3, <2>1, SeqDef DEF LineTo
  <2>3. \A j \in 1..i : LineTo(i)[j] = buf[j - 1]
    BY DEF LineTo
  <2>4. NL \in Chars
    BY DEF Chars
  <2>5. /\ line \in Seq(Chars) /\ Len(line) = i + 1 /\ line[i + 1] = NL
        /\ \A j \in 1..i : line[j] = LineTo(i)[j]
    BY <2>2, <2>4, AppendProperties
  <2> HIDE DEF line
  <2> QED BY <1>1, <1>3, <2>3, <2>5
<1>13. LinesAsTyped'
  <2>1. /\ Contents \in Seq(Chars) /\ Len(Contents) = cur
        /\ \A j \in 1..cur : Contents[j] = buf[j - 1]
    BY ContentsType
  <2> DEFINE rest == Contents'
  <2>2. /\ rest = [j \in 1..cur' |-> buf'[j - 1]]
        /\ \A j \in 1..cur' : rest[j] = buf[j + i]
    <3>1. \A j \in 1..cur' : buf'[j - 1] = buf[j + i]
      <4>1. cur' \in Nat /\ i \in Nat
        BY <1>2, <1>3, <1>6
      <4>2. SUFFICES ASSUME NEW j \in 1..cur' PROVE buf'[j - 1] = buf[j + i]
        OBVIOUS
      <4>3. j - 1 \in 0..(cur' - 1) /\ (j - 1) + i + 1 = j + i
        <5> HIDE DEF line, rest
        <5> DEFINE n == cur'
        <5>1. n \in Nat /\ j \in 1..n /\ i \in Nat
          BY <4>1
        <5> HIDE DEF n
        <5>2. j - 1 \in 0..(n - 1) /\ (j - 1) + i + 1 = j + i
          BY <5>1
        <5> QED BY <5>2 DEF n
      <4>4. buf'[j - 1] = buf[(j - 1) + i + 1]
        BY <1>8, <4>3
      <4> QED BY <4>3, <4>4
    <3> QED BY <3>1 DEF Contents
  <2>3. rest \in Seq(Chars) /\ Len(rest) = cur'
    <3>1. \A j \in 1..cur' : buf[j + i] \in Chars
      BY <1>2, <1>3, <1>5, <1>6 DEF IInv, NoNul, Places
    <3>2. rest \in [1..cur' -> Chars]
      <4> HIDE DEF rest
      <4> QED BY <2>2, <3>1
    <3> HIDE DEF rest
    <3> QED BY <1>6, <2>2, <3>2, SeqDef
  <2>4. Contents = line \o rest
    <3> DEFINE t == line \o rest
    <3>1. /\ t \in Seq(Chars) /\ Len(t) = Len(line) + Len(rest)
          /\ \A j \in 1..(Len(line) + Len(rest)) :
               t[j] = IF j <= Len(line) THEN line[j] ELSE rest[j - Len(line)]
      <4> HIDE DEF line, rest
      <4> QED BY <1>11, <2>3, ConcatProperties
    <3>2. Len(t) = cur
      <4> HIDE DEF line, rest, t
      <4> QED BY <1>2, <1>3, <1>5, <1>11, <2>3, <3>1
    <3>3. \A j \in 1..cur : t[j] = buf[j - 1]
      <4> HIDE DEF line, rest, t
      <4>1. SUFFICES ASSUME NEW j \in 1..cur PROVE t[j] = buf[j - 1]
        OBVIOUS
      <4>2. j \in 1..(Len(line) + Len(rest)) /\ Len(line) = i + 1
        BY <1>2, <1>3, <1>5, <1>11, <2>3, <4>1
      <4>3. CASE j <= i + 1
        BY <1>2, <1>3, <1>11, <3>1, <4>1, <4>2, <4>3
      <4>4. CASE ~(j <= i + 1)
        <5>1. j - (i + 1) \in 1..cur' /\ (j - (i + 1)) + i = j - 1
          BY <1>2, <1>3, <1>5, <4>1, <4>4
        <5>2. t[j] = rest[j - (i + 1)]
          BY <3>1, <4>2, <4>4
        <5> QED BY <2>2, <5>1, <5>2
      <4> QED BY <4>3, <4>4
    <3> HIDE DEF t
    <3>4. Contents = t
      BY <2>1, <3>1, <3>2, <3>3, SeqEqual
    <3> QED BY <3>4 DEF t
  <2>5. typed = (handled \o (line \o rest)) \o pending
    BY <2>4 DEF IInv, LinesAsTyped
  <2>6. handled \o (line \o rest) = (handled \o line) \o rest
    <3>1. line \in Seq(Chars) /\ rest \in Seq(Chars) /\ handled \in Seq(Chars)
      BY <1>2, <1>11, <2>3
    <3> HIDE DEF line, rest
    <3> QED BY <3>1, Regroup, Zenon
  <2> QED BY <1>4, <1>10, <2>5, <2>6 DEF LinesAsTyped
<1>14. NoNul'
  BY <1>2, <1>5, <1>6, <1>8 DEF IInv, NoNul
<1>15. Uncrowded'
  <2>1. SUFFICES ASSUME NEW k \in 0..(cur' - 1), NEW p \in 0..(cur' - 1),
                        buf'[k] = NL, buf'[p] = NL, k < p, ~crowded
                 PROVE  k + p < USERBUF_SIZE
    BY <1>4 DEF Uncrowded
  <2>2. /\ k + i + 1 \in 0..(cur - 1) /\ p + i + 1 \in 0..(cur - 1)
        /\ buf[k + i + 1] = NL /\ buf[p + i + 1] = NL /\ k + i + 1 < p + i + 1
    <3>1. k + i + 1 \in 0..(cur - 1) /\ p + i + 1 \in 0..(cur - 1)
      BY <1>6
    <3>2. buf[k + i + 1] = NL /\ buf[p + i + 1] = NL
      BY <1>8, <2>1
    <3>3. k \in Int /\ p \in Int /\ i \in Int
      BY <1>2, <1>3, <1>6
    <3> QED BY <2>1, <3>1, <3>2, <3>3
  <2>3. (k + i + 1) + (p + i + 1) < USERBUF_SIZE
    BY <2>1, <2>2 DEF IInv, Uncrowded
  <2> QED BY <1>2, <1>3, <1>6, <2>1, <2>3
<1>16. Tidy'
  <2>1. SUFFICES ASSUME NEW j \in cur'..USERBUF_SIZE, buf'[j] = NL, ~crowded PROVE FALSE
    BY <1>4 DEF Tidy
  <2>2. j \in Places /\ j \in Nat
    BY <1>2, <1>6 DEF Places
  <2>3. CASE j < USERBUF_SIZE - i
    <3>1. buf[j + i + 1] = NL /\ j + i + 1 \in cur..USERBUF_SIZE
      BY <1>2, <1>3, <1>5, <1>7, <2>1, <2>2, <2>3
    <3> QED BY <2>1, <3>1 DEF IInv, Tidy
  <2>4. CASE ~(j < USERBUF_SIZE - i)
    <3>1. j # i /\ buf[j] = NL
      BY <1>2, <1>7, <2>1, <2>2, <2>4
    <3>2. j \in 0..(cur - 1)
      BY <1>2, <2>1, <2>2, <3>1 DEF IInv, Tidy
    <3>3. i < j
      BY <1>1, <1>3, <2>2, <3>1
    <3>4. i + j < USERBUF_SIZE
      BY <1>1, <2>1, <3>1, <3>2, <3>3 DEF IInv, Uncrowded
    <3> QED BY <1>2, <1>3, <2>2, <2>4, <3>4
  <2> QED BY <2>3, <2>4
<1> QED BY <1>13, <1>14, <1>15, <1>16

\* A line that is behind the contents wraps cur, which is found only in a
\* crowded buffer.
LEMMA ShiftKeeps ==
  ASSUME IInv, NEW i \in Places, TakeLine(i)
  PROVE  IInv'
<1>1. /\ i \in 0..(USERBUF_SIZE - 1) /\ buf[i] = NL
      /\ \A j \in 0..(i - 1) : buf[j] # NL /\ buf[j] # NUL
      /\ ~crowded => i < cur
  BY LineIsFirst DEF TakeLine
<1>2. /\ typed \in Seq(Chars) /\ pending \in Seq(Chars) /\ handled \in Seq(Chars)
      /\ buf \in [Places -> Chars \cup {NUL}] /\ buf[USERBUF_SIZE] = NUL
      /\ USERBUF_SIZE \in Nat \ {0, 1} /\ NL \in Chars /\ NL # NUL
      /\ crowded \in BOOLEAN /\ (~crowded => ~Wrapped)
      /\ ~Wrapped => cur \in 0..USERBUF_SIZE
  BY BufferType
<1>3. UNCHANGED <<typed, pending, status, crowded>> /\ status = "running"
  BY DEF TakeLine
<1>4. InputTypeOK'
  <2> DEFINE line == Append(LineTo(i), NL)
  <2>1. \A j \in 1..i : buf[j - 1] \in Chars
    BY <1>1, <1>2 DEF Places
  <2>2. LineTo(i) \in Seq(Chars)
    BY <1>1, <2>1, SeqDef DEF LineTo
  <2>3. line \in Seq(Chars)
    BY <1>2, <2>2, AppendProperties
  <2>4. handled' \in Seq(Chars)
    <3>1. handled' = handled \o line
      BY DEF TakeLine, ShiftOut
    <3> HIDE DEF line
    <3> QED BY <1>2, <2>3, <3>1, ConcatProperties
  <2>5. \A j \in Places : j < USERBUF_SIZE - i => j + i + 1 \in Places
    BY <1>1, <1>2 DEF Places
  <2>6. buf' \in [Places -> Chars \cup {NUL}]
    BY <1>2, <2>5 DEF TakeLine, ShiftOut
  <2>7. buf'[USERBUF_SIZE] = NUL
    BY <1>1, <1>2 DEF TakeLine, ShiftOut, Places
  <2>8. cur' \in Places \cup (UINT - USERBUF_SIZE)..(UINT - 1)
    BY ShiftLowers
  <2> QED BY <1>2, <1>3, <2>4, <2>6, <2>7, <2>8 DEF InputTypeOK, Chars
<1>5. WrapsByLess'
  <2>1. ~crowded => ~Wrapped'
    BY <1>1, <1>2, ShiftLowers
  <2> QED BY <1>3, <2>1, ShiftLowers DEF WrapsByLess
<1>6. FullAtExit'
  BY <1>3 DEF FullAtExit
<1>7. CASE ~Wrapped /\ i < cur
  BY <1>4, <1>5, <1>6, <1>7, ShiftKeepsContents DEF IInv
<1>8. CASE Wrapped \/ cur <= i
  <2>1. crowded' /\ Wrapped'
    BY <1>1, <1>2, <1>3, <1>8, ShiftLowers
  <2>2. LinesAsTyped' /\ NoNul' /\ Tidy' /\ Uncrowded'
    BY <2>1 DEF LinesAsTyped, NoNul, Tidy, Uncrowded
  <2> QED BY <1>4, <1>5, <1>6, <2>2 DEF IInv
<1> QED BY <1>1, <1>2, <1>7, <1>8

\* The program exits because the buffer is full of one line, or is crowded.
LEMMA ExitKeeps ==
  ASSUME IInv, LineTooLong
  PROVE  IInv'
<1>1. FullAtExit'
  BY NoLineInContents, BufferType DEF LineTooLong, FullAtExit
<1>2. Contents' = Contents /\ Wrapped' = Wrapped
  BY DEF LineTooLong, Contents, Wrapped
<1> QED BY <1>1, <1>2 DEF LineTooLong, IInv, InputTypeOK, LinesAsTyped, NoNul, Tidy,
                          Uncrowded, WrapsByLess

\* What is written for the size of the buffer and the text holds for every run
\* of the program.
LEMMA InvariantHolds == InputSpec => []IInv
<1>1. IInv /\ InputNext => IInv'
  BY TypeKeeps, ReadKeeps, ShiftKeeps, ExitKeeps DEF InputNext, Chars
<1>2. IInv /\ UNCHANGED inputVars => IInv'
  <2>1. SUFFICES ASSUME IInv, UNCHANGED inputVars PROVE IInv'
    OBVIOUS
  <2>2. Contents' = Contents /\ Wrapped' = Wrapped
    BY <2>1 DEF inputVars, Contents, Wrapped
  <2> QED BY <2>1, <2>2 DEF inputVars, IInv, InputTypeOK, LinesAsTyped, NoNul, Tidy,
                           Uncrowded, WrapsByLess, FullAtExit
<1> QED BY InitHolds, <1>1, <1>2, PTL DEF InputSpec

\* The contents never outgrow the buffer, and cur, where it wraps below zero,
\* wraps by less than the size of the buffer (process_user_input).
THEOREM InputTypeCorrect == InputSpec => []InputTypeOK
<1>1. IInv => InputTypeOK
  BY DEF IInv
<1> QED BY InvariantHolds, <1>1, PTL

\* Whatever pieces the input is read in, the lines handled are the lines typed,
\* until cur wraps (process_user_input).
THEOREM LinesAreAsTyped == InputSpec => []LinesAsTyped
<1>1. IInv => LinesAsTyped
  BY DEF IInv
<1> QED BY InvariantHolds, <1>1, PTL

\* Until a read leaves several lines in more than half of the buffer, cur does
\* not wrap, and the program exits only for a line that does not fit
\* (process_user_input).
THEOREM ExitsForLongLines == InputSpec => []OnlyLongLines
<1>1. IInv => OnlyLongLines
  <2>1. SUFFICES ASSUME IInv, ~crowded, status = "exited", ~Wrapped,
                        NEW k \in 1..(USERBUF_SIZE - 1)
                 PROVE  Len(handled) + k <= Len(typed) /\ typed[Len(handled) + k] # NL
    BY BufferType DEF OnlyLongLines, LongLine
  <2>2. /\ handled \in Seq(Chars) /\ pending \in Seq(Chars)
        /\ cur \in Nat /\ USERBUF_SIZE \in Nat \ {0, 1}
    BY <2>1, BufferType
  <2>3. /\ Contents \in Seq(Chars) /\ Len(Contents) = cur
        /\ \A j \in 1..cur : Contents[j] = buf[j - 1]
    BY <2>1, ContentsType
  <2>4. k <= cur /\ Contents[k] # NL
    BY <2>1, <2>2, <2>3 DEF IInv, FullAtExit
  <2> DEFINE s == handled \o Contents
  <2>5. /\ s \in Seq(Chars) /\ Len(s) = Len(handled) + Len(Contents)
        /\ \A j \in 1..(Len(handled) + Len(Contents)) :
             s[j] = IF j <= Len(handled) THEN handled[j] ELSE Contents[j - Len(handled)]
    BY <2>2, <2>3, ConcatProperties
  <2> HIDE DEF s
  <2>6. typed = s \o pending
    BY <2>1 DEF IInv, LinesAsTyped, s
  <2>7. /\ Len(typed) = Len(s) + Len(pending)
        /\ \A j \in 1..(Len(s) + Len(pending)) :
             typed[j] = IF j <= Len(s) THEN s[j] ELSE pending[j - Len(s)]
    <3>1. s \in Seq(Chars) /\ pending \in Seq(Chars)
      BY <2>2, <2>5
    <3> QED BY <2>6, <3>1, ConcatProperties
  <2>8. Len(handled) \in Nat /\ Len(pending) \in Nat
    BY <2>2, LenProperties
  <2> DEFINE h == Len(handled)
  <2>13. k \in Nat \ {0} /\ k <= cur /\ h \in Nat /\ cur \in Nat /\ Len(s) = h + cur
    BY <2>1, <2>2, <2>3, <2>4, <2>5, <2>8
  <2>9. h + k \in 1..Len(s) /\ (h + k) - h = k /\ ~(h + k <= h)
    <3> HIDE DEF h
    <3> QED BY <2>13
  <2>10. s[h + k] = Contents[k]
    <3>1. h + k \in 1..(Len(handled) + Len(Contents))
      BY <2>5, <2>9
    <3> QED BY <2>5, <2>9, <3>1
  <2>11. Len(s) <= Len(s) + Len(pending) /\ Len(s) \in Nat
    BY <2>2, <2>3, <2>5, <2>8
  <2>12. Len(handled) + k <= Len(typed) /\ typed[Len(handled) + k] = s[Len(handled) + k]
    BY <2>7, <2>8, <2>9, <2>11
  <2> QED BY <2>4, <2>10, <2>12 DEF h
<1> QED BY InvariantHolds, <1>1, PTL

\* On a terminal, whose reads end at the first newline, every line typed is
\* handled as it was typed and the program exits only for a line that does not
\* fit, however many lines there are (process_user_input).
THEOREM TerminalLines ==
  InputSpec /\ [][ReadsOneLine]_inputVars
    => [](/\ typed = handled \o Contents \o pending
          /\ status = "exited" => LongLine(Len(handled)))
<1>1. InputInit => ~crowded
  BY DEF InputInit
<1>2. IInv /\ ~crowded /\ [InputNext]_inputVars /\ [ReadsOneLine]_inputVars => ~crowded'
  <2>1. SUFFICES ASSUME IInv, ~crowded, ReadInput, ReadsOneLine PROVE ~crowded'
    BY DEF InputNext, inputVars, Type, LineTooLong, TakeLine
  <2>2. PICK k \in 1..Len(pending) :
          /\ pending' = SubSeq(pending, k + 1, Len(pending))
          /\ crowded' = (crowded \/ Crowded(k))
    BY <2>1 DEF ReadInput, Read
  <2>3. pending \in Seq(Chars) /\ Len(pending) \in Nat /\ k \in Nat \ {0}
    BY <2>1, <2>2, BufferType, LenProperties
  <2>4. Len(pending') = Len(pending) - k
    BY <2>2, <2>3, SubSeqProperties
  <2>5. Len(pending) - Len(pending') - 1 = k - 1
    BY <2>3, <2>4
  <2>6. \A j \in 1..(k - 1) : pending[j] # NL
    BY <2>1, <2>5 DEF ReadsOneLine
  <2> QED BY <2>1, <2>2, <2>6 DEF Crowded
<1>3. IInv /\ OnlyLongLines /\ ~crowded
        => /\ typed = handled \o Contents \o pending
           /\ status = "exited" => LongLine(Len(handled))
  BY DEF IInv, LinesAsTyped, OnlyLongLines
<1> QED BY InvariantHolds, ExitsForLongLines, <1>1, <1>2, <1>3, PTL DEF InputSpec

-----------------------------------------------------------------------------
(***************************************************************************)
(* The files, the request, and the console.                                *)
(***************************************************************************)
\* The number of the packet that holds a byte of a chunk is at most FINALACK.
LEMMA NumberOfByte ==
  ASSUME NEW r \in Nat, r < CHUNKLEN
  PROVE  r \div BUFLEN \in 0..(FINALACK - 1)
<1> DEFINE q == r \div BUFLEN
<1>1. /\ CHUNKLEN \in Nat /\ BUFLEN \in Nat \ {0} /\ FINALACK \in Nat \ {0}
      /\ CHUNKLEN <= FINALACK * BUFLEN
  BY DataPathAssumption
<1>2. q \in Nat /\ q * BUFLEN \in Nat /\ q * BUFLEN <= r
  BY <1>1, Division
<1> HIDE DEF q
<1>3. ASSUME FINALACK <= q PROVE FALSE
  <2>1. CASE FINALACK = q
    BY <1>1, <1>2, <2>1
  <2>2. CASE FINALACK < q
    <3>1. FINALACK * BUFLEN + BUFLEN <= q * BUFLEN /\ FINALACK * BUFLEN \in Nat
      BY <1>1, <1>2, <2>2, Multiples
    <3> QED BY <1>1, <1>2, <3>1
  <2> QED BY <1>1, <1>2, <1>3, <2>1, <2>2
<1>4. q \in 0..(FINALACK - 1)
  BY <1>1, <1>2, <1>3
<1> QED BY <1>4 DEF q

\* A packet up to FINALACK begins in the chunk.
LEMMA BeginsInChunk ==
  ASSUME NEW s \in 1..FINALACK
  PROVE  (s - 1) * BUFLEN \in Nat /\ (s - 1) * BUFLEN < CHUNKLEN
<1>1. /\ CHUNKLEN \in Nat /\ BUFLEN \in Nat \ {0} /\ FINALACK \in Nat \ {0}
      /\ (FINALACK - 1) * BUFLEN < CHUNKLEN
  BY DataPathAssumption
<1>2. s - 1 \in Nat /\ FINALACK - 1 \in Nat /\ s - 1 <= FINALACK - 1
  BY <1>1
<1>3. CASE s = FINALACK
  BY <1>1, <1>2, <1>3
<1>4. CASE s < FINALACK
  <2>1. (s - 1) * BUFLEN + BUFLEN <= (FINALACK - 1) * BUFLEN /\ (s - 1) * BUFLEN \in Nat
    BY <1>1, <1>2, <1>4, Multiples
  <2>2. (FINALACK - 1) * BUFLEN \in Nat
    BY <1>2, <1>1
  <2> QED BY <1>1, <2>1, <2>2
<1> QED BY <1>1, <1>3, <1>4

\* What an int makes of a number: itself, or one that is 2 * INT less.
LEMMA AsIntFact ==
  ASSUME NEW x \in Int, 0 - INT <= x, x < 3 * INT
  PROVE  AsInt(x) = IF x < INT THEN x ELSE x - 2 * INT
<1>1. INT \in Nat \ {0} /\ 2 * INT \in Nat \ {0}
  BY DataPathAssumption
<1>2. CASE x < INT
  <2>1. x + INT \in Nat /\ x + INT < 2 * INT
    BY <1>1, <1>2
  <2>2. (0 * (2 * INT) + (x + INT)) % (2 * INT) = x + INT
    BY <1>1, <2>1, QuotientAndRemainder
  <2>3. (x + INT) % (2 * INT) = x + INT
    BY <1>1, <2>1, <2>2
  <2> QED BY <1>1, <1>2, <2>3 DEF AsInt
<1>3. CASE ~(x < INT)
  <2>1. x - INT \in Nat /\ x - INT < 2 * INT
    BY <1>1, <1>3
  <2>2. (1 * (2 * INT) + (x - INT)) % (2 * INT) = x - INT
    BY <1>1, <2>1, QuotientAndRemainder
  <2>3. 1 * (2 * INT) + (x - INT) = x + INT
    BY <1>1
  <2>4. (x + INT) % (2 * INT) = x - INT
    BY <2>2, <2>3
  <2> QED BY <1>1, <1>3, <2>4 DEF AsInt
<1> QED BY <1>2, <1>3

\* The offsets of a chunk whose id fits are those the chunk has.
LEMMA OffsetsFit ==
  ASSUME NEW id \in Nat, Fits(id)
  PROVE  /\ Limit(id) = id * CHUNKLEN + CHUNKLEN
         /\ \A s \in 1..(FINALACK + 1) :
              Offset(id, s) = id * CHUNKLEN + (s - 1) * BUFLEN
         /\ \A s \in 1..FINALACK :
              /\ WriteAt(id, s) = id * CHUNKLEN + (s - 1) * BUFLEN
              /\ BytesToRead(id, s) = LET rest == CHUNKLEN - (s - 1) * BUFLEN
                                      IN  IF rest < BUFLEN THEN rest ELSE BUFLEN
<1> DEFINE base == id * CHUNKLEN
<1>1. /\ CHUNKLEN \in Nat \ {0} /\ BUFLEN \in Nat \ {0} /\ FINALACK \in Nat \ {0}
      /\ CHUNKLEN <= FINALACK * BUFLEN /\ FINALACK * BUFLEN \in Nat
      /\ INT \in Nat \ {0}
  BY DataPathAssumption
<1>2. base \in Nat /\ base + FINALACK * BUFLEN < INT
  BY <1>1 DEF Fits
<1>3. ASSUME NEW x \in Nat, x < INT
      PROVE  AsInt(x) = x
  BY <1>1, <1>3, AsIntFact
<1>4. Limit(id) = base + CHUNKLEN
  <2>1. base + CHUNKLEN \in Nat /\ base + CHUNKLEN < INT
    <3> HIDE DEF base
    <3> QED BY <1>1, <1>2
  <2> QED BY <1>3, <2>1 DEF Limit
<1>5. ASSUME NEW s \in 1..(FINALACK + 1)
      PROVE  /\ (s - 1) * BUFLEN \in Nat
             /\ Offset(id, s) = base + (s - 1) * BUFLEN
  <2> DEFINE o == (s - 1) * BUFLEN
  <2>1. s - 1 \in Nat /\ s - 1 <= FINALACK
    BY <1>1
  <2>2. o \in Nat /\ o <= FINALACK * BUFLEN
    <3>1. CASE s - 1 = FINALACK
      BY <1>1, <3>1
    <3>2. CASE s - 1 < FINALACK
      <4>1. o + BUFLEN <= FINALACK * BUFLEN /\ o \in Nat
        BY <1>1, <2>1, <3>2, Multiples
      <4> HIDE DEF o
      <4> QED BY <1>1, <4>1
    <3> QED BY <2>1, <3>1, <3>2, <1>1
  <2> HIDE DEF o, base
  <2>3. base + o \in Nat /\ base + o < INT
    BY <1>1, <1>2, <2>2
  <2>4. AsInt(base + o) = base + o
    BY <1>3, <2>3
  <2> QED BY <2>2, <2>4 DEF Offset, Start, o, base
<1>6. ASSUME NEW s \in 1..FINALACK
      PROVE  /\ WriteAt(id, s) = base + (s - 1) * BUFLEN
             /\ BytesToRead(id, s) = LET rest == CHUNKLEN - (s - 1) * BUFLEN
                                     IN  IF rest < BUFLEN THEN rest ELSE BUFLEN
  <2> DEFINE o == (s - 1) * BUFLEN
  <2>1. o \in Nat /\ o < CHUNKLEN
    BY BeginsInChunk
  <2>2. Offset(id, s) = base + o
    BY <1>1, <1>5
  <2> HIDE DEF o
  <2>3. BytesToRead(id, s) = LET rest == AsInt(base + CHUNKLEN - (base + o))
                             IN  IF rest < BUFLEN THEN rest ELSE BUFLEN
    BY <2>2 DEF BytesToRead
  <2>4. WriteAt(id, s) = IF base + o < 0 THEN 0 ELSE base + o
    BY <2>2 DEF WriteAt
  <2> HIDE DEF base
  <2>5. base + CHUNKLEN - (base + o) = CHUNKLEN - o /\ CHUNKLEN - o \in Nat
        /\ CHUNKLEN - o < INT /\ ~(base + o < 0)
    BY <1>1, <1>2, <2>1
  <2>6. AsInt(CHUNKLEN - o) = CHUNKLEN - o
    BY <1>3, <2>5
  <2> QED BY <2>3, <2>4, <2>5, <2>6 DEF o
<1> QED BY <1>4, <1>5, <1>6

\* The data packets of a chunk, which send_next_data counts by their offsets, are
\* numbered from 1 to FINALACK, the number data_handler waits for.
THEOREM LastPacketIsFinalAck ==
  ASSUME NEW id \in Nat, Fits(id)
  PROVE  Numbers(id) = 1..FINALACK
<1>1. /\ CHUNKLEN \in Nat \ {0} /\ BUFLEN \in Nat \ {0} /\ FINALACK \in Nat \ {0}
      /\ (FINALACK - 1) * BUFLEN < CHUNKLEN /\ CHUNKLEN <= FINALACK * BUFLEN
  BY DataPathAssumption
<1>2. \A s \in 1..(FINALACK + 1) : Offset(id, s) < Limit(id) <=> (s - 1) * BUFLEN < CHUNKLEN
  <2> DEFINE base == id * CHUNKLEN
  <2>1. base \in Nat
    BY <1>1
  <2>2. SUFFICES ASSUME NEW s \in 1..(FINALACK + 1)
                 PROVE  Offset(id, s) < Limit(id) <=> (s - 1) * BUFLEN < CHUNKLEN
    OBVIOUS
  <2> DEFINE o == (s - 1) * BUFLEN
  <2>3. o \in Int
    BY <1>1
  <2>4. Offset(id, s) = base + o /\ Limit(id) = base + CHUNKLEN
    BY OffsetsFit
  <2> HIDE DEF base, o
  <2>5. Offset(id, s) < Limit(id) <=> o < CHUNKLEN
    BY <1>1, <2>1, <2>3, <2>4
  <2> QED BY <2>5 DEF o
<1>4. ASSUME NEW s \in 1..FINALACK
      PROVE  s \in 1..CHUNKLEN /\ (s - 1) * BUFLEN < CHUNKLEN
  <2>1. (s - 1) * BUFLEN < CHUNKLEN
    BY BeginsInChunk
  <2>2. s - 1 <= (s - 1) * BUFLEN
    <3>1. CASE s = 1
      BY <1>1, <3>1
    <3>2. CASE s > 1
      <4>1. BUFLEN = 1 \/ 1 < BUFLEN
        BY <1>1
      <4>2. CASE 1 < BUFLEN
        <5>1. 1 * (s - 1) + (s - 1) <= BUFLEN * (s - 1)
          BY <1>1, <1>4, <3>2, <4>2, Multiples
        <5> QED BY <1>1, <1>4, <3>2, <5>1
      <4> QED BY <1>1, <1>4, <4>1, <4>2
    <3> QED BY <1>1, <1>4, <3>1, <3>2
  <2> QED BY <1>1, <1>4, <2>1, <2>2
<1>5. ASSUME NEW s \in Numbers(id)
      PROVE  s \in 1..FINALACK
  <2>1. s \in 1..CHUNKLEN /\ \A t \in 1..s : Offset(id, t) < Limit(id)
    BY DEF Numbers
  <2>2. SUFFICES ASSUME FINALACK < s PROVE FALSE
    BY <1>1, <2>1
  <2>3. FINALACK + 1 \in 1..s /\ FINALACK + 1 \in 1..(FINALACK + 1)
        /\ (FINALACK + 1) - 1 = FINALACK
    BY <1>1, <2>1, <2>2
  <2>4. FINALACK * BUFLEN < CHUNKLEN
    BY <1>2, <2>1, <2>3
  <2> QED BY <1>1, <2>4
<1>6. ASSUME NEW s \in 1..FINALACK
      PROVE  s \in Numbers(id)
  <2>1. \A t \in 1..s : t \in 1..FINALACK /\ t \in 1..(FINALACK + 1)
    BY <1>1
  <2>2. \A t \in 1..s : Offset(id, t) < Limit(id)
    BY <1>2, <1>4, <2>1
  <2> QED BY <1>4, <2>2 DEF Numbers
<1> QED BY <1>5, <1>6

\* The data packets of a chunk carry all its bytes, none twice, and nothing else,
\* and are written where they were read, if an int counts that far
\* (send_next_data, data_handler).
THEOREM PacketsMakeChunk ==
  ASSUME NEW id \in Nat, Fits(id)
  PROVE  /\ UNION {Bytes(id, s) : s \in Numbers(id)} = ChunkBytes(id)
         /\ \A s, t \in Numbers(id) : s # t => Bytes(id, s) \cap Bytes(id, t) = {}
         /\ \A s \in Numbers(id) : WriteAt(id, s) = Start(id, s)
<1> DEFINE base == id * CHUNKLEN
<1>1. /\ CHUNKLEN \in Nat \ {0} /\ BUFLEN \in Nat \ {0} /\ FINALACK \in Nat \ {0}
  BY DataPathAssumption
<1>2. base \in Nat
  BY <1>1
<1>3. \A s : Start(id, s) = base + (s - 1) * BUFLEN
  BY DEF Start
<1>4. ChunkBytes(id) = base..(base + CHUNKLEN - 1)
  BY DEF ChunkBytes
<1>5. \A s \in 1..FINALACK :
        BytesToRead(id, s) = LET rest == CHUNKLEN - (s - 1) * BUFLEN
                             IN  IF rest < BUFLEN THEN rest ELSE BUFLEN
  BY OffsetsFit
<1>13. \A s \in 1..FINALACK : WriteAt(id, s) = Start(id, s)
  BY OffsetsFit DEF Start
<1> HIDE DEF base
<1>6. ASSUME NEW s \in 1..FINALACK
      PROVE  \A p : p \in Bytes(id, s) <=>
               /\ p \in Int
               /\ base + (s - 1) * BUFLEN <= p
               /\ p < base + (s - 1) * BUFLEN + BUFLEN
               /\ p < base + CHUNKLEN
  <2> DEFINE o == (s - 1) * BUFLEN
  <2>1. o \in Nat /\ o < CHUNKLEN
    BY BeginsInChunk
  <2>2. Start(id, s) = base + o
    BY <1>3
  <2>3. BytesToRead(id, s) = IF CHUNKLEN - o < BUFLEN THEN CHUNKLEN - o ELSE BUFLEN
    BY <1>5
  <2> HIDE DEF o
  <2>4. Bytes(id, s) = (base + o)..(base + o + BytesToRead(id, s) - 1)
    BY <2>2 DEF Bytes
  <2>5. \A p : p \in Bytes(id, s) <=>
          p \in Int /\ base + o <= p /\ p < base + o + BUFLEN /\ p < base + CHUNKLEN
    BY <1>1, <1>2, <2>1, <2>3, <2>4
  <2> QED BY <2>5 DEF o
<1>7. ASSUME NEW s \in 1..FINALACK
      PROVE  Bytes(id, s) \subseteq ChunkBytes(id)
  <2> DEFINE o == (s - 1) * BUFLEN
  <2>1. o \in Nat
    BY BeginsInChunk
  <2>2. \A p \in Bytes(id, s) : p \in Int /\ base + o <= p /\ p < base + CHUNKLEN
    BY <1>6
  <2> HIDE DEF o
  <2> QED BY <1>1, <1>2, <1>4, <2>1, <2>2
<1>8. ASSUME NEW p \in ChunkBytes(id)
      PROVE  \E s \in 1..FINALACK : p \in Bytes(id, s)
  <2> DEFINE r == p - base
             q == r \div BUFLEN
  <2>1. r \in Nat /\ r < CHUNKLEN /\ p = base + r
    BY <1>1, <1>2, <1>4
  <2>2. q \in 0..(FINALACK - 1)
    <3> HIDE DEF r
    <3> QED BY <2>1, NumberOfByte
  <2>3. q * BUFLEN <= r /\ r < q * BUFLEN + BUFLEN /\ q * BUFLEN \in Nat
    <3> HIDE DEF r
    <3> QED BY <1>1, <2>1, Division
  <2> HIDE DEF q, r
  <2>4. q + 1 \in 1..FINALACK /\ (q + 1) - 1 = q
    BY <1>1, <2>2
  <2>5. p \in Bytes(id, q + 1)
    BY <1>1, <1>2, <1>6, <2>1, <2>3, <2>4
  <2> QED BY <2>4, <2>5
<1>9. ASSUME NEW s \in 1..FINALACK, NEW t \in 1..FINALACK, s < t
      PROVE  Bytes(id, s) \cap Bytes(id, t) = {}
  <2>1. s - 1 \in Nat /\ t - 1 \in Nat /\ s - 1 < t - 1
    BY <1>1, <1>9
  <2>2. (s - 1) * BUFLEN + BUFLEN <= (t - 1) * BUFLEN
    BY <1>1, <2>1, Multiples
  <2>3. (s - 1) * BUFLEN \in Nat /\ (t - 1) * BUFLEN \in Nat
    BY BeginsInChunk
  <2> QED BY <1>1, <1>2, <1>6, <2>2, <2>3
<1>10. \A s, t \in 1..FINALACK : s # t => s < t \/ t < s
  BY <1>1
<1>11. \A s, t \in 1..FINALACK : s # t => Bytes(id, s) \cap Bytes(id, t) = {}
  BY <1>9, <1>10
<1>12. UNION {Bytes(id, s) : s \in 1..FINALACK} = ChunkBytes(id)
  BY <1>7, <1>8
<1> QED BY <1>11, <1>12, <1>13, LastPacketIsFinalAck

\* The chunk that reaches the end of what an int counts is never sent, and the
\* packets of the chunks beyond it are all written to the beginning of the output
\* file (send_next_data, data_handler).
THEOREM LargeIdsOverflow ==
  ASSUME NEW id \in Nat, CHUNKLEN <= INT
  PROVE  /\ id * CHUNKLEN < INT /\ INT <= id * CHUNKLEN + CHUNKLEN => Numbers(id) = {}
         /\ INT <= id * CHUNKLEN /\ id * CHUNKLEN + CHUNKLEN <= 2 * INT
              => \A s \in 1..FINALACK : WriteAt(id, s) = 0
<1> DEFINE base == id * CHUNKLEN
<1>1. /\ CHUNKLEN \in Nat \ {0} /\ BUFLEN \in Nat \ {0} /\ FINALACK \in Nat \ {0}
      /\ INT \in Nat \ {0} /\ base \in Nat
  BY DataPathAssumption
<1>2. ASSUME base < INT, INT <= base + CHUNKLEN
      PROVE  Numbers(id) = {}
  <2>1. Start(id, 1) = base
    BY <1>1 DEF Start
  <2>2. AsInt(base) = base /\ AsInt(base + CHUNKLEN) = base + CHUNKLEN - 2 * INT
    <3> HIDE DEF base
    <3>1. base \in Int /\ 0 - INT <= base /\ base < 3 * INT
      BY <1>1, <1>2
    <3>2. base + CHUNKLEN \in Int /\ 0 - INT <= base + CHUNKLEN /\ base + CHUNKLEN < 3 * INT
          /\ ~(base + CHUNKLEN < INT)
      BY <1>1, <1>2
    <3>3. AsInt(base) = base
      BY <1>2, <3>1, AsIntFact
    <3> DEFINE x == base + CHUNKLEN
    <3>4. x \in Int /\ 0 - INT <= x /\ x < 3 * INT /\ ~(x < INT)
      BY <3>2
    <3> HIDE DEF x
    <3>5. AsInt(x) = x - 2 * INT
      BY <3>4, AsIntFact
    <3> QED BY <1>1, <3>3, <3>5 DEF x
  <2>3. Offset(id, 1) = base /\ Limit(id) = base + CHUNKLEN - 2 * INT
    BY <2>1, <2>2 DEF Offset, Limit
  <2>4. ~(Offset(id, 1) < Limit(id))
    <3> HIDE DEF base
    <3> QED BY <1>1, <1>2, <2>3
  <2>5. \A s \in 1..CHUNKLEN : 1 \in 1..s
    BY <1>1
  <2> QED BY <2>4, <2>5 DEF Numbers
<1>3. ASSUME INT <= base, base + CHUNKLEN <= 2 * INT, NEW s \in 1..FINALACK
      PROVE  WriteAt(id, s) = 0
  <2> DEFINE o == (s - 1) * BUFLEN
  <2>1. o \in Nat /\ o < CHUNKLEN
    BY BeginsInChunk
  <2>2. Start(id, s) = base + o
    BY DEF Start
  <2> HIDE DEF base, o
  <2>3. base + o \in Int /\ 0 - INT <= base + o /\ base + o < 3 * INT /\ ~(base + o < INT)
    BY <1>1, <1>3, <2>1
  <2>4. Offset(id, s) = base + o - 2 * INT
    <3> DEFINE x == base + o
    <3>1. x \in Int /\ 0 - INT <= x /\ x < 3 * INT /\ ~(x < INT) /\ Offset(id, s) = AsInt(x)
      BY <2>2, <2>3 DEF Offset
    <3> HIDE DEF x
    <3>2. AsInt(x) = x - 2 * INT
      BY <3>1, AsIntFact
    <3> QED BY <1>1, <2>1, <3>1, <3>2 DEF x
  <2>5. Offset(id, s) < 0
    BY <1>1, <1>3, <2>1, <2>4
  <2> QED BY <2>5 DEF WriteAt
<1> QED BY <1>2, <1>3

-----------------------------------------------------------------------------
\* The number of WHOHAS packets is the ceiling of the quotient.
LEMMA Ceiling ==
  ASSUME NEW n \in Nat \ {0}
  PROVE  /\ Iterations(n) \in Nat \ {0}
         /\ (Iterations(n) - 1) * MAX_CHUNKS_PER_PACK < n
         /\ n <= Iterations(n) * MAX_CHUNKS_PER_PACK
<1> DEFINE m == MAX_CHUNKS_PER_PACK
           q == Iterations(n)
<1>1. m \in Nat \ {0}
  BY DataPathAssumption
<1> HIDE DEF m
<1>2. q = (n + m - 1) \div m
  BY DEF Iterations, m
<1> HIDE DEF q
<1>3. n + m - 1 \in Nat
  BY <1>1
<1>4. q \in Nat /\ q * m \in Nat /\ q * m <= n + m - 1 /\ n + m - 1 < q * m + m
  BY <1>1, <1>2, <1>3, Division
<1>5. q # 0
  <2>1. SUFFICES ASSUME q = 0 PROVE FALSE
    OBVIOUS
  <2>2. q * m = 0
    BY <1>1, <2>1
  <2> QED BY <1>1, <1>4, <2>2
<1>6. (q - 1) * m = q * m - m
  BY <1>1, <1>4
<1> QED BY <1>1, <1>4, <1>5, <1>6 DEF m, q

\* The hashes of the i-th packet.
LEMMA NamedByPacket ==
  ASSUME NEW n \in Nat \ {0}, NEW i \in 0..(Iterations(n) - 1)
  PROVE  \A k : k \in Named(n, i) <=>
           /\ k \in Int
           /\ i * MAX_CHUNKS_PER_PACK < k
           /\ k <= i * MAX_CHUNKS_PER_PACK + MAX_CHUNKS_PER_PACK
           /\ k <= n
<1> DEFINE m == MAX_CHUNKS_PER_PACK
           q == Iterations(n)
           b == i * m
<1>1. m \in Nat \ {0}
  BY DataPathAssumption
<1>2. q \in Nat \ {0} /\ (q - 1) * m < n /\ n <= q * m
  BY Ceiling
<1>3. i \in Nat /\ b \in Nat
  BY <1>1, <1>2
<1>4. CASE i = q - 1
  <2>1. q * m = b + m
    <3> HIDE DEF m, q
    <3> QED BY <1>1, <1>2, <1>4
  <2>2. SendCount(n, i) = n - b
    <3>1. CASE q = 1
      <4>1. i = 0
        BY <1>4, <3>1
      <4>2. b = 0
        BY <1>1, <4>1
      <4> QED BY <3>1, <4>2 DEF SendCount
    <3>2. CASE q # 1
      BY <1>4, <3>2 DEF SendCount
    <3> QED BY <3>1, <3>2
  <2>3. Named(n, i) = (b + 1)..(b + (n - b))
    BY <2>2 DEF Named
  <2>4. b + m >= n
    BY <1>2, <2>1
  <2> HIDE DEF m, q, b
  <2>5. \A k : k \in Named(n, i) <=> k \in Int /\ b < k /\ k <= b + m /\ k <= n
    BY <1>1, <1>3, <2>3, <2>4
  <2> QED BY <2>5 DEF m, b
<1>5. CASE i # q - 1
  <2>1. i < q - 1 /\ q - 1 \in Nat /\ q # 1
    <3> HIDE DEF q
    <3>1. i \in 0..(q - 1)
      BY DEF q
    <3> QED BY <1>2, <1>5, <3>1
  <2>2. b + m <= (q - 1) * m /\ (q - 1) * m \in Nat
    BY <1>1, <1>3, <2>1, Multiples
  <2>3. SendCount(n, i) = m
    BY <1>5, <2>1 DEF SendCount
  <2>4. Named(n, i) = (b + 1)..(b + m)
    BY <2>3 DEF Named
  <2>5. b + m <= n
    <3> HIDE DEF b, q
    <3> QED BY <1>1, <1>2, <1>3, <2>2
  <2> HIDE DEF m, q, b
  <2>6. \A k : k \in Named(n, i) <=> k \in Int /\ b < k /\ k <= b + m /\ k <= n
    BY <1>1, <1>3, <2>4, <2>5
  <2> QED BY <2>6 DEF m, b
<1> QED BY <1>4, <1>5

\* Every hash of a request is in one WHOHAS packet, and only one, whatever the
\* number of hashes and whether the last packet is full (init_whohas).
THEOREM HashesAreDivided ==
  ASSUME NEW n \in Nat \ {0}
  PROVE  /\ UNION {Named(n, i) : i \in 0..(Iterations(n) - 1)} = 1..n
         /\ \A i, j \in 0..(Iterations(n) - 1) :
              i # j => Named(n, i) \cap Named(n, j) = {}
<1> DEFINE m == MAX_CHUNKS_PER_PACK
           q == Iterations(n)
<1>1. m \in Nat \ {0}
  BY DataPathAssumption
<1>2. q \in Nat \ {0} /\ n <= q * m
  BY Ceiling
<1>3. ASSUME NEW i \in 0..(q - 1)
      PROVE  /\ i \in Nat /\ i * m \in Nat
             /\ \A k : k \in Named(n, i) <=>
                   k \in Int /\ i * m < k /\ k <= i * m + m /\ k <= n
  BY <1>1, <1>2, NamedByPacket
<1> HIDE DEF q, m
<1>4. ASSUME NEW k \in 1..n
      PROVE  \E i \in 0..(q - 1) : k \in Named(n, i)
  <2> DEFINE i == (k - 1) \div m
  <2>1. k - 1 \in Nat
    BY <1>4
  <2>2. i \in Nat /\ i * m \in Nat /\ i * m <= k - 1 /\ k - 1 < i * m + m
    BY <1>1, <2>1, Division
  <2> HIDE DEF i
  <2>3. ASSUME q <= i PROVE FALSE
    <3>1. CASE q = i
      BY <1>1, <1>2, <1>4, <2>2, <3>1
    <3>2. CASE q < i
      <4>1. q * m + m <= i * m /\ q * m \in Nat
        BY <1>1, <1>2, <2>2, <3>2, Multiples
      <4> QED BY <1>1, <1>2, <1>4, <2>2, <4>1
    <3> QED BY <1>2, <2>2, <2>3, <3>1, <3>2
  <2>4. i \in 0..(q - 1)
    BY <1>2, <2>2, <2>3
  <2>5. k \in Named(n, i)
    BY <1>1, <1>3, <1>4, <2>2, <2>4
  <2> QED BY <2>4, <2>5
<1>5. ASSUME NEW i \in 0..(q - 1), NEW j \in 0..(q - 1), i < j
      PROVE  Named(n, i) \cap Named(n, j) = {}
  <2>1. i * m + m <= j * m /\ i * m \in Nat /\ j * m \in Nat
    BY <1>1, <1>3, <1>5, Multiples
  <2> QED BY <1>1, <1>3, <2>1
<1>6. \A i, j \in 0..(q - 1) : i # j => i < j \/ j < i
  BY <1>2
<1>7. \A i, j \in 0..(q - 1) : i # j => Named(n, i) \cap Named(n, j) = {}
  BY <1>5, <1>6
<1>8. UNION {Named(n, i) : i \in 0..(q - 1)} = 1..n
  <2>1. \A i \in 0..(q - 1) : Named(n, i) \subseteq 1..n
    BY <1>1, <1>3
  <2> QED BY <1>4, <2>1
<1> QED BY <1>7, <1>8 DEF q

-----------------------------------------------------------------------------
\* The console, too, handles the lines as typed and exits only for a long one:
\* nothing else touches the line buffer (peer_run, process_user_input).
THEOREM ConsoleHandlesLines == Spec => [](LinesAsTyped /\ OnlyLongLines)
<1>1. Init => InputInit
  BY DEF Init
<1>2. [Next]_vars => [InputNext]_inputVars
  BY DEF Next, InputNext, vars, UserTypes, HandleLine, DataArrives
<1>3. Spec => InputSpec
  BY <1>1, <1>2, PTL DEF Spec, InputSpec
<1> QED BY <1>3, LinesAreAsTyped, ExitsForLongLines, PTL

-----------------------------------------------------------------------------
(* The bytes of the output files.                                          *)

\* FirstId finds the id of a line with the hash (get_hash_id_master,
\* get_hash_id_request).
LEMMA FirstIdFact ==
  ASSUME NEW S, NEW lines \in Seq(S), NEW hash,
         \E i \in DOMAIN lines : lines[i].hash = hash
  PROVE  \E i \in DOMAIN lines : lines[i].hash = hash /\ FirstId(lines, hash) = lines[i].id
<1> DEFINE T == {i \in DOMAIN lines : lines[i].hash = hash}
           First(i) == lines[i].hash = hash /\ \A j \in 1..(i - 1) : lines[j].hash # hash
<1>1. DOMAIN lines = 1..Len(lines) /\ Len(lines) \in Nat
  OBVIOUS
<1>2. T \subseteq Nat /\ T # {}
  BY <1>1
<1>3. PICK f \in T : \A i \in T : f <= i
  <2> HIDE DEF T
  <2> QED BY <1>2, LeastElement
<1>4. First(f)
  <2>1. \A j \in 1..(f - 1) : j \in DOMAIN lines /\ ~(f <= j)
    BY <1>1, <1>3
  <2> QED BY <1>3, <2>1
<1> DEFINE i == CHOOSE i \in DOMAIN lines : First(i)
<1>5. i \in DOMAIN lines /\ First(i)
  <2> HIDE DEF First
  <2> QED BY <1>3, <1>4
<1>6. FirstId(lines, hash) = lines[i].id
  BY <1>3 DEF FirstId
<1> HIDE DEF i
<1> QED BY <1>5, <1>6

\* The byte of the master data file at some place of a chunk.
LEMMA MasterByteFact ==
  ASSUME NEW hash \in AllHashes, NEW r \in Nat, r < CHUNKLEN,
         NEW id, id = FirstId(master_chunks(MasterFile), hash)
  PROVE  id \in Nat /\ MasterByte(id * CHUNKLEN + r) = <<hash, r>>
<1> DEFINE chunks == master_chunks(MasterFile)
           hashes == {chunks[i].hash : i \in DOMAIN chunks}
           position == id * CHUNKLEN + r
<1>1. /\ chunks \in Seq([id : Nat, hash : hashes])
      /\ \A i, j \in DOMAIN chunks : chunks[i].id = chunks[j].id => i = j
      /\ hash \in hashes
  BY ConsoleAssumption
<1>0. id = FirstId(chunks, hash)
  OBVIOUS
<1> DEFINE Line == [id : Nat, hash : hashes]
<1> HIDE DEF chunks
<1>2. PICK l \in DOMAIN chunks : chunks[l].hash = hash /\ id = chunks[l].id
  <2>1. \E i \in DOMAIN chunks : chunks[i].hash = hash
    BY <1>1
  <2>2. chunks \in Seq(Line)
    BY <1>1
  <2> HIDE DEF hashes, Line
  <2> QED BY <1>0, <2>1, <2>2, FirstIdFact
<1>3. id \in Nat /\ CHUNKLEN \in Nat \ {0}
  <2>1. chunks \in Seq(Line)
    BY <1>1
  <2>2. chunks[l] \in Line
    <3> HIDE DEF hashes, Line
    <3> QED BY <1>2, <2>1, ElementOfSeq
  <2>3. chunks[l].id \in Nat
    <3> HIDE DEF hashes
    <3> QED BY <2>2
  <2> QED BY <1>2, <2>3, DataPathAssumption
<1>4. position \div CHUNKLEN = id /\ position % CHUNKLEN = r
  BY <1>3, QuotientAndRemainder
<1> DEFINE i == CHOOSE i \in DOMAIN chunks : chunks[i].id = id
<1>5. i = l
  BY <1>1, <1>2
<1>6. MasterByte(position) = <<chunks[i].hash, position % CHUNKLEN>>
  BY <1>4 DEF MasterByte, chunks
<1> QED BY <1>2, <1>3, <1>4, <1>5, <1>6

\* What is written for a data packet: each byte belongs where it is put.
LEMMA WrittenBytes ==
  ASSUME IdsFit, NEW c \in Commands, NEW hash \in Hashes(c),
         NEW seqnum \in Numbers(MasterId(hash)),
         NEW data, data = DataRead(hash, seqnum),
         NEW start, start = WriteAt(FirstId(RequestFiles[c], hash), seqnum),
         NEW k \in DOMAIN data
  PROVE  \E i \in DOMAIN RequestFiles[c] :
           /\ RequestFiles[c][i].id = (start + k) \div CHUNKLEN
           /\ data[k] = <<RequestFiles[c][i].hash, (start + k) % CHUNKLEN>>
           /\ (start + k) - start = k
<1> DEFINE master == FirstId(master_chunks(MasterFile), hash)
           o == (seqnum - 1) * BUFLEN
<1>1. /\ CHUNKLEN \in Nat \ {0} /\ BUFLEN \in Nat \ {0} /\ hash \in AllHashes
      /\ RequestFiles[c] \in Seq([id : Nat, hash : AllHashes])
  BY DataPathAssumption, ConsoleAssumption DEF AllHashes
<1>3. master \in Nat /\ master = MasterId(hash) /\ Fits(master)
  BY <1>1, MasterByteFact, 0 \in Nat, 0 < CHUNKLEN DEF MasterId, IdsFit
<1>13. seqnum \in 1..FINALACK
  BY <1>3, LastPacketIsFinalAck
<1>2. o \in Nat /\ o < CHUNKLEN
  BY <1>13, BeginsInChunk
<1>4. Start(master, seqnum) = master * CHUNKLEN + o
  BY DEF Start
<1>5. PICK i \in DOMAIN RequestFiles[c] :
        /\ RequestFiles[c][i].hash = hash
        /\ FirstId(RequestFiles[c], hash) = RequestFiles[c][i].id
  BY <1>1, FirstIdFact DEF Hashes
<1> DEFINE id == RequestFiles[c][i].id
<1>6. id \in Nat /\ start = id * CHUNKLEN + o
  <2> DEFINE lines == RequestFiles[c]
             Line == [id : Nat, hash : AllHashes]
  <2>1. lines \in Seq(Line) /\ i \in DOMAIN lines
    BY <1>1, <1>5
  <2>2. lines[i] \in Line
    <3> HIDE DEF lines, Line
    <3> QED BY <2>1, ElementOfSeq
  <2>3. id \in Nat
    <3> HIDE DEF lines
    <3>1. lines[i].id \in Nat
      BY <2>2
    <3> QED BY <3>1 DEF lines
  <2>4. Fits(id)
    BY DEF IdsFit
  <2>5. WriteAt(id, seqnum) = id * CHUNKLEN + o
    BY <1>13, <2>3, <2>4, OffsetsFit
  <2> QED BY <1>5, <2>3, <2>5
<1>7. /\ data = [j \in 0..(BytesToRead(master, seqnum) - 1) |->
                   MasterByte(Start(master, seqnum) + j)]
      /\ BytesToRead(master, seqnum) = LET rest == CHUNKLEN - o
                                       IN  IF rest < BUFLEN THEN rest ELSE BUFLEN
  BY <1>3, <1>13, OffsetsFit DEF DataRead
<1> HIDE DEF o, master, id
<1>8. BytesToRead(master, seqnum) \in Nat /\ BytesToRead(master, seqnum) <= CHUNKLEN - o
  <2>1. CHUNKLEN - o \in Nat
    BY <1>1, <1>2
  <2> QED BY <1>1, <1>7, <2>1
<1>9. k \in Nat /\ o + k \in Nat /\ o + k < CHUNKLEN
  BY <1>1, <1>2, <1>7, <1>8
<1>10. data[k] = <<hash, o + k>>
  <2>1. data[k] = MasterByte(Start(master, seqnum) + k)
    BY <1>7
  <2>2. MasterByte(master * CHUNKLEN + (o + k)) = <<hash, o + k>>
    BY <1>1, <1>9, MasterByteFact DEF master
  <2>3. Start(master, seqnum) + k = master * CHUNKLEN + (o + k)
    <3>1. master * CHUNKLEN \in Nat
      BY <1>1, <1>3
    <3> QED BY <1>2, <1>4, <1>9, <3>1
  <2> QED BY <2>1, <2>2, <2>3
<1>11. start + k = id * CHUNKLEN + (o + k) /\ (start + k) - start = k
  <2>1. id * CHUNKLEN \in Nat
    BY <1>1, <1>6
  <2> QED BY <1>2, <1>6, <1>9, <2>1
<1>12. (start + k) \div CHUNKLEN = id /\ (start + k) % CHUNKLEN = o + k
  <2>1. /\ (id * CHUNKLEN + (o + k)) \div CHUNKLEN = id
        /\ (id * CHUNKLEN + (o + k)) % CHUNKLEN = o + k
    BY <1>1, <1>6, <1>9, QuotientAndRemainder
  <2> QED BY <1>11, <2>1
<1> QED BY <1>5, <1>10, <1>11, <1>12 DEF id

\* The WHOHAS packets of a command name hashes of its request file only.
LEMMA AskedHashes ==
  ASSUME NEW c \in Commands, NEW n, n = Len(RequestFiles[c]), NEW i \in 1..Iterations(n)
  PROVE  \A k \in Named(n, i - 1) : RequestFiles[c][k].hash \in Hashes(c)
<1>1. n \in Nat /\ DOMAIN RequestFiles[c] = 1..n
  BY ConsoleAssumption
<1>2. CASE n = 0
  <2>1. MAX_CHUNKS_PER_PACK \in Nat \ {0}
    BY DataPathAssumption
  <2>2. (0 * MAX_CHUNKS_PER_PACK + (MAX_CHUNKS_PER_PACK - 1)) \div MAX_CHUNKS_PER_PACK = 0
    BY <2>1, QuotientAndRemainder
  <2>3. Iterations(n) = 0
    BY <1>2, <2>1, <2>2 DEF Iterations
  <2> QED BY <2>3
<1>3. CASE n # 0
  <2>1. Iterations(n) \in Nat \ {0} /\ i - 1 \in 0..(Iterations(n) - 1)
    BY <1>1, <1>3, Ceiling
  <2>2. Named(n, i - 1) \subseteq 1..n
    BY <1>1, <1>3, <2>1, HashesAreDivided
  <2> QED BY <1>1, <2>2 DEF Hashes
<1> QED BY <1>2, <1>3

\* What the bytes depend on: the download under way asks only for hashes of its
\* command, and every command has a file.
DownloadInv ==
  /\ command \in Commands \cup {None}
  /\ command # None => \A i \in DOMAIN asked : asked[i] \subseteq Hashes(command)
  /\ files = [c \in Commands |-> files[c]]
  /\ BytesInPlace

\* Steps of the input, and lines that are no commands.
LEMMA DownloadFrame ==
  ASSUME DownloadInv, UNCHANGED <<command, asked, files>>
  PROVE  DownloadInv'
BY DEF DownloadInv, BytesInPlace

\* A line that is a command starts its download.
LEMMA HandleLineBytes ==
  ASSUME DownloadInv, HandleLine
  PROVE  DownloadInv'
<1>1. PICK line : process_cmd(line) /\ UNCHANGED files
  BY DEF HandleLine
<1>2. CASE line \notin {<<c>> : c \in Commands}
  BY <1>1, <1>2, DownloadFrame DEF process_cmd
<1>3. CASE line \in {<<c>> : c \in Commands}
  <2>1. PICK c \in Commands : line = <<c>>
    BY <1>3
  <2>2. /\ command' = c
        /\ asked' = [i \in 1..Iterations(Len(RequestFiles[c])) |->
                       {RequestFiles[c][k].hash : k \in Named(Len(RequestFiles[c]), i - 1)}]
    BY <1>1, <1>3, <2>1 DEF process_cmd
  <2>3. \A i \in DOMAIN asked' : asked'[i] \subseteq Hashes(c)
    BY <2>2, AskedHashes
  <2> QED BY <1>1, <2>2, <2>3 DEF DownloadInv, BytesInPlace
<1> QED BY <1>2, <1>3

\* A data packet is written to its place, over what was there.
LEMMA DataArrivesBytes ==
  ASSUME DownloadInv, NEW hash \in AllHashes, NEW seqnum \in Numbers(MasterId(hash)),
         DataArrives(hash, seqnum)
  PROVE  DownloadInv'
<1> DEFINE c == command
           data == DataRead(hash, seqnum)
           start == WriteAt(FirstId(RequestFiles[c], hash), seqnum)
           places == {start + k : k \in DOMAIN data}
           chunk == [p \in places |-> data[p - start]]
<1>1. /\ c # None
      /\ hash \in UNION {asked[i] : i \in DOMAIN asked}
      /\ files' = [files EXCEPT ![c] = Write(@, start, data)]
      /\ \/ command' = None
         \/ UNCHANGED <<command, asked>>
  BY DEF DataArrives
<1>2. c \in Commands /\ hash \in Hashes(c)
  BY <1>1 DEF DownloadInv
<1>3. files = [d \in Commands |-> files[d]]
  BY DEF DownloadInv
<1>4. ASSUME IdsFit, NEW p \in places
      PROVE  \E i \in DOMAIN RequestFiles[c] :
               /\ RequestFiles[c][i].id = p \div CHUNKLEN
               /\ chunk[p] = <<RequestFiles[c][i].hash, p % CHUNKLEN>>
  <2>1. PICK k \in DOMAIN data : p = start + k
    BY <1>4
  <2> HIDE DEF data, start
  <2>2. PICK i \in DOMAIN RequestFiles[c] :
           /\ RequestFiles[c][i].id = (start + k) \div CHUNKLEN
           /\ data[k] = <<RequestFiles[c][i].hash, (start + k) % CHUNKLEN>>
           /\ (start + k) - start = k
    BY <1>2, <1>4, WrittenBytes DEF data, start
  <2>3. chunk[p] = data[p - start]
    <3> HIDE DEF places
    <3> QED BY <1>4
  <2>4. p - start = k
    BY <2>1, <2>2
  <2>5. chunk[p] = data[k]
    BY <2>3, <2>4
  <2> HIDE DEF chunk
  <2> QED BY <2>1, <2>2, <2>5
<1> HIDE DEF chunk, places, data, start
<1>5. DOMAIN chunk = places
  BY DEF chunk
<1>6. /\ files'[c] = [p \in places \cup DOMAIN files[c] |->
                        IF p \in places THEN chunk[p] ELSE files[c][p]]
      /\ \A d \in Commands : d # c => files'[d] = files[d]
      /\ files' = [d \in Commands |-> files'[d]]
  <2> DEFINE new == Write(files[c], start, data)
  <2>1. new = [p \in places \cup DOMAIN files[c] |->
                 IF p \in places THEN chunk[p] ELSE files[c][p]]
    BY <1>5 DEF Write, chunk, places
  <2>2. files' = [files EXCEPT ![c] = new]
    BY <1>1
  <2> HIDE DEF new
  <2>3. files' = [d \in Commands |-> IF d = c THEN new ELSE files[d]]
    BY <1>3, <2>2
  <2> QED BY <1>2, <2>1, <2>3
<1>7. ASSUME IdsFit, NEW d \in Commands, NEW p \in DOMAIN files'[d]
      PROVE  \E i \in DOMAIN RequestFiles[d] :
               /\ RequestFiles[d][i].id = p \div CHUNKLEN
               /\ files'[d][p] = <<RequestFiles[d][i].hash, p % CHUNKLEN>>
  <2>1. CASE d = c /\ p \in places
    BY <1>4, <1>6, <1>7, <2>1
  <2>2. CASE d # c \/ p \notin places
    <3>1. p \in DOMAIN files[d] /\ files'[d][p] = files[d][p]
      BY <1>6, <1>7, <2>2
    <3> QED BY <1>7, <3>1 DEF DownloadInv, BytesInPlace
  <2> QED BY <2>1, <2>2
<1>8. BytesInPlace'
  BY <1>7 DEF BytesInPlace
<1> QED BY <1>1, <1>2, <1>6, <1>8 DEF DownloadInv

\* As far as an int counts, every byte of an output file is the byte the request
\* file asks for at that place (send_next_data, data_handler), for every size of chunks and packets,
\* every order of the lines in the two files, and every order of the data
\* packets, which may come again.
THEOREM BytesArePlaced == Spec => []BytesInPlace
<1>1. Init => DownloadInv
  BY DEF Init, DownloadInv, BytesInPlace
<1>2. ASSUME DownloadInv, [Next]_vars PROVE DownloadInv'
  <2>1. CASE HandleLine
    BY <1>2, <2>1, HandleLineBytes
  <2>2. CASE \E hash \in AllHashes : \E seqnum \in Numbers(MasterId(hash)) :
              DataArrives(hash, seqnum)
    BY <1>2, <2>2, DataArrivesBytes
  <2>3. CASE UNCHANGED <<command, asked, files>>
    BY <1>2, <2>3, DownloadFrame
  <2> QED BY <1>2, <2>1, <2>2, <2>3 DEF Next, UserTypes, vars
<1>3. DownloadInv => BytesInPlace
  BY DEF DownloadInv
<1> QED BY <1>1, <1>2, <1>3, PTL DEF Spec
=============================================================================

-------------------------- MODULE UserlandProofs --------------------------
(***************************************************************************)
(* Proofs about the shell and its line editor.                             *)
(* Readline, for any size of the line and of the history: through the array,*)
(* the cursor, the escape sequences and the ring of lines the user sees the*)
(* plain editor of LineEditor.                                             *)
(* Shell, for any number of jobs and children: a job leaves the table when *)
(* its processes are gone, and every end of a pipe is held by one process. *)
(***************************************************************************)
EXTENDS Readline, Shell, SeqLemmas, FiniteSetTheorems

(* The line editor *)

Chars == Typing \cup {Nul}

Records ==
    [buf : [Cells -> Chars], len : 0..(BufSize - 1), cursor : 0..(BufSize - 1),
     esc : 0..2, param : Nat, last : Chars,
     hist : [0..(HistMax - 1) -> Seq(Chars)], head : 0..(HistMax - 1),
     count : 0..HistMax, idx : -1..(HistMax - 1)]

LineOK(r) == r \in Records /\ r.cursor <= r.len

\* The line as the user sees it.
Left(r) == SubSeq(TextOf(r), 1, r.cursor)
Right(r) == SubSeq(TextOf(r), r.cursor + 1, r.len)

\* Nothing but the line and the state of an escape sequence changes.
SameHistory(r, s) == s.hist = r.hist /\ s.head = r.head /\ s.count = r.count

\* The text is what the first len cells hold.
LEMMA TextIs ==
    ASSUME NEW r, LineOK(r)
    PROVE  /\ TextOf(r) \in Seq(Chars) /\ Len(TextOf(r)) = r.len
           /\ \A i \in 1..r.len : TextOf(r)[i] = r.buf[i - 1]
<1>1. r.len \in 0..(BufSize - 1) /\ r.buf \in [Cells -> Chars] /\ BufSize \in Nat
  BY ReadlineAssumption DEF LineOK, Records
<1>2. \A i \in 1..r.len : i - 1 \in Cells
  BY <1>1 DEF Cells
<1>. QED
  BY <1>1, <1>2 DEF TextOf

\* Cut in two, a sequence is made of its parts.
LEMMA PartsOf ==
    ASSUME NEW S, NEW t \in Seq(S), NEW k \in 0..Len(t)
    PROVE  /\ SubSeq(t, 1, k) \in Seq(S) /\ Len(SubSeq(t, 1, k)) = k
           /\ \A i \in 1..k : SubSeq(t, 1, k)[i] = t[i]
           /\ SubSeq(t, k + 1, Len(t)) \in Seq(S) /\ Len(SubSeq(t, k + 1, Len(t))) = Len(t) - k
           /\ \A i \in 1..(Len(t) - k) : SubSeq(t, k + 1, Len(t))[i] = t[k + i]
           /\ SubSeq(t, 1, k) \o SubSeq(t, k + 1, Len(t)) = t
<1>. DEFINE n == Len(t)
            a == SubSeq(t, 1, k)
            b == SubSeq(t, k + 1, Len(t))
<1>1. n \in Nat /\ k \in 0..n /\ Len(t) = n
  OBVIOUS
<1>2. a \in Seq(S) /\ Len(a) = k /\ \A i \in 1..k : a[i] = t[i]
  OBVIOUS
<1>3. b \in Seq(S) /\ Len(b) = n - k /\ \A i \in 1..(n - k) : b[i] = t[k + i]
  OBVIOUS
<1>. HIDE DEF a, b, n
<1>4. /\ a \o b \in Seq(S) /\ Len(a \o b) = Len(a) + Len(b)
      /\ \A i \in 1..(Len(a) + Len(b)) : (a \o b)[i] = IF i <= Len(a) THEN a[i] ELSE b[i - Len(a)]
  BY <1>2, <1>3, ConcatProperties
<1>5. Len(a \o b) = n
  BY <1>1, <1>2, <1>3, <1>4
<1>6. ASSUME NEW i \in 1..n PROVE (a \o b)[i] = t[i]
  <2>1. (a \o b)[i] = IF i <= k THEN a[i] ELSE b[i - k]
    BY <1>1, <1>2, <1>3, <1>4
  <2>2. CASE i <= k
    BY <1>1, <1>2, <2>1, <2>2
  <2>3. CASE i > k
    <3>1. i - k \in 1..(n - k) /\ k + (i - k) = i
      BY <1>1, <2>3
    <3>. QED
      BY <1>1, <1>3, <2>1, <2>3, <3>1
  <2>4. i <= k \/ i > k
    BY <1>1
  <2>. QED
    BY <2>2, <2>3, <2>4
<1>7. a \o b = t
  BY <1>1, <1>4, <1>5, <1>6, SeqEqual
<1>. QED
  BY <1>1, <1>2, <1>3, <1>7 DEF a, b

\* What the user sees, cell by cell.
LEMMA ViewIs ==
    ASSUME NEW r, LineOK(r)
    PROVE  /\ Left(r) \in Seq(Chars) /\ Len(Left(r)) = r.cursor
           /\ \A i \in 1..r.cursor : Left(r)[i] = r.buf[i - 1]
           /\ Right(r) \in Seq(Chars) /\ Len(Right(r)) = r.len - r.cursor
           /\ \A i \in 1..(r.len - r.cursor) : Right(r)[i] = r.buf[r.cursor + i - 1]
           /\ Left(r) \o Right(r) = TextOf(r)
<1>. DEFINE t == TextOf(r)
            k == r.cursor
            n == r.len
<1>1. t \in Seq(Chars) /\ Len(t) = n /\ \A i \in 1..n : t[i] = r.buf[i - 1]
  BY TextIs
<1>2. n \in Nat /\ k \in 0..n
  BY DEF LineOK, Records
<1>3. Left(r) = SubSeq(t, 1, k) /\ Right(r) = SubSeq(t, k + 1, n)
  BY DEF Left, Right
<1>. HIDE DEF t, k, n
<1>4. /\ SubSeq(t, 1, k) \in Seq(Chars) /\ Len(SubSeq(t, 1, k)) = k
      /\ \A i \in 1..k : SubSeq(t, 1, k)[i] = t[i]
      /\ SubSeq(t, k + 1, n) \in Seq(Chars) /\ Len(SubSeq(t, k + 1, n)) = n - k
      /\ \A i \in 1..(n - k) : SubSeq(t, k + 1, n)[i] = t[k + i]
      /\ SubSeq(t, 1, k) \o SubSeq(t, k + 1, n) = t
  BY <1>1, <1>2, PartsOf
<1>5. ASSUME NEW i \in 1..k PROVE Left(r)[i] = r.buf[i - 1]
  <2>1. i \in 1..n /\ Left(r)[i] = t[i]
    <3>1. i \in 1..n
      BY <1>2
    <3>2. SubSeq(t, 1, k)[i] = t[i]
      BY <1>4
    <3>. QED
      BY <1>3, <3>1, <3>2
  <2>. QED
    BY <1>1, <2>1
<1>6. ASSUME NEW i \in 1..(n - k) PROVE Right(r)[i] = r.buf[k + i - 1]
  <2>1. k + i \in 1..n
    BY <1>2
  <2>2. Right(r)[i] = t[k + i]
    BY <1>3, <1>4
  <2>3. t[k + i] = r.buf[(k + i) - 1]
    BY <1>1, <2>1
  <2>4. (k + i) - 1 = k + i - 1
    BY <1>2
  <2>. QED
    BY <2>2, <2>3, <2>4
<1>. QED
  BY <1>3, <1>4, <1>5, <1>6 DEF t, k, n

\* A record with another line.
WithLine(r, b, n, k) == [r EXCEPT !.buf = b, !.len = n, !.cursor = k]

\* The line, its length and the cursor change, the rest stays.
LEMMA WithLineIs ==
    ASSUME NEW r \in Records, NEW b \in [Cells -> Chars], NEW n \in 0..(BufSize - 1), NEW k \in 0..n
    PROVE  /\ LineOK(WithLine(r, b, n, k))
           /\ WithLine(r, b, n, k).buf = b /\ WithLine(r, b, n, k).len = n /\ WithLine(r, b, n, k).cursor = k
           /\ SameHistory(r, WithLine(r, b, n, k)) /\ WithLine(r, b, n, k).idx = r.idx
<1>1. k \in 0..(BufSize - 1) /\ k <= n
  BY ReadlineAssumption
<1>2. WithLine(r, b, n, k) \in Records
  BY <1>1 DEF WithLine, Records
<1>3. /\ WithLine(r, b, n, k).buf = b /\ WithLine(r, b, n, k).len = n /\ WithLine(r, b, n, k).cursor = k
      /\ WithLine(r, b, n, k).hist = r.hist /\ WithLine(r, b, n, k).head = r.head
      /\ WithLine(r, b, n, k).count = r.count /\ WithLine(r, b, n, k).idx = r.idx
  BY DEF WithLine, Records
<1>. QED
  BY <1>1, <1>2, <1>3 DEF LineOK, SameHistory

\* The cells below the cursor make the left, those behind it the right.
LEMMA SameLeft ==
    ASSUME NEW r, LineOK(r), NEW s, LineOK(s), s.cursor = r.cursor,
           \A i \in Cells : i < r.cursor => s.buf[i] = r.buf[i]
    PROVE  Left(s) = Left(r)
<1>1. r.cursor \in 0..(BufSize - 1) /\ BufSize \in Nat
  BY ReadlineAssumption DEF LineOK, Records
<1>2. \A i \in 1..r.cursor : i - 1 \in Cells /\ i - 1 < r.cursor
  BY <1>1 DEF Cells
<1>3. \A i \in 1..r.cursor : Left(s)[i] = Left(r)[i]
  BY <1>2, ViewIs
<1>4. /\ Left(r) \in Seq(Chars) /\ Len(Left(r)) = r.cursor
      /\ Left(s) \in Seq(Chars) /\ Len(Left(s)) = r.cursor
  BY ViewIs
<1>. QED
  BY <1>3, <1>4, SeqEqual

\* InsertChar puts its character left of the cursor.
LEMMA InsertCharIs ==
    ASSUME NEW r, LineOK(r), NEW c \in Typing, r.len < BufSize - 1
    PROVE  /\ LineOK(InsertChar(r, c)) /\ SameHistory(r, InsertChar(r, c)) /\ InsertChar(r, c).idx = r.idx
           /\ Left(InsertChar(r, c)) = Append(Left(r), c)
           /\ Right(InsertChar(r, c)) = Right(r)
<1>. DEFINE s == InsertChar(r, c)
            cells == [i \in Cells |-> CASE i = r.cursor -> c
                                        [] i > r.cursor /\ i <= r.len -> r.buf[i - 1]
                                        [] OTHER -> r.buf[i]]
<1>1. r \in Records /\ r.len \in 0..(BufSize - 1) /\ r.cursor \in 0..r.len /\ r.buf \in [Cells -> Chars] /\ BufSize \in Nat
  BY ReadlineAssumption DEF LineOK, Records
<1>2. s = WithLine(r, cells, r.len + 1, r.cursor + 1)
  BY <1>1 DEF InsertChar, WithLine
<1>3. cells \in [Cells -> Chars]
  <2>1. \A i \in Cells : i > r.cursor => i - 1 \in Cells
    BY <1>1 DEF Cells
  <2>. QED
    BY <1>1, <2>1 DEF Chars
<1>4. \A i \in Cells : cells[i] = IF i = r.cursor THEN c ELSE IF i > r.cursor /\ i <= r.len THEN r.buf[i - 1] ELSE r.buf[i]
  BY <1>1 DEF Cells
<1>. HIDE DEF cells, s
<1>5. LineOK(s) /\ s.buf = cells /\ s.len = r.len + 1 /\ s.cursor = r.cursor + 1 /\ SameHistory(r, s) /\ s.idx = r.idx
  <2>1. r.len + 1 \in 0..(BufSize - 1) /\ r.cursor + 1 \in 0..(r.len + 1)
    BY <1>1
  <2>. QED
    BY <1>1, <1>2, <1>3, <2>1, WithLineIs
<1>6. LineOK(s)
  BY <1>5
<1>7. Left(s) = Append(Left(r), c)
  <2>1. /\ Append(Left(r), c) \in Seq(Chars) /\ Len(Append(Left(r), c)) = r.cursor + 1
        /\ \A i \in 1..r.cursor : Append(Left(r), c)[i] = r.buf[i - 1]
        /\ Append(Left(r), c)[r.cursor + 1] = c
    BY <1>1, ViewIs, AppendProperties DEF Chars
  <2>0. \A i \in 1..s.cursor : Left(s)[i] = s.buf[i - 1]
    BY <1>6, ViewIs
  <2>2. \A i \in 1..(r.cursor + 1) : Left(s)[i] = cells[i - 1] /\ i - 1 \in Cells
    BY <1>1, <1>5, <2>0 DEF Cells
  <2>3. \A i \in 1..(r.cursor + 1) : Left(s)[i] = Append(Left(r), c)[i]
    BY <1>1, <1>4, <2>1, <2>2
  <2>4. Left(s) \in Seq(Chars) /\ Len(Left(s)) = r.cursor + 1
    BY <1>5, <1>6, ViewIs
  <2>. QED
    BY <2>1, <2>3, <2>4, SeqEqual
<1>8. Right(s) = Right(r)
  <2>1. /\ Right(r) \in Seq(Chars) /\ Len(Right(r)) = r.len - r.cursor
        /\ \A i \in 1..(r.len - r.cursor) : Right(r)[i] = r.buf[r.cursor + i - 1]
    BY ViewIs
  <2>2. /\ Right(s) \in Seq(Chars) /\ Len(Right(s)) = s.len - s.cursor
        /\ \A i \in 1..(s.len - s.cursor) : Right(s)[i] = s.buf[s.cursor + i - 1]
    BY <1>6, ViewIs
  <2>3. ASSUME NEW i \in 1..(r.len - r.cursor) PROVE Right(s)[i] = Right(r)[i]
    <3>1. PICK k \in Cells : k = r.cursor + i /\ k > r.cursor /\ k <= r.len
      BY <1>1 DEF Cells
    <3>2. s.cursor + i - 1 = k /\ s.len - s.cursor = r.len - r.cursor
      BY <1>1, <1>5, <3>1
    <3>3. Right(s)[i] = cells[k]
      BY <1>5, <2>2, <3>2
    <3>4. cells[k] = r.buf[k - 1] /\ k - 1 = r.cursor + i - 1
      BY <1>1, <1>4, <3>1
    <3>. QED
      BY <2>1, <3>3, <3>4
  <2>4. s.len - s.cursor = r.len - r.cursor
    BY <1>1, <1>5
  <2>. QED
    BY <2>1, <2>2, <2>3, <2>4, SeqEqual
<1>. QED
  BY <1>5, <1>6, <1>7, <1>8 DEF s

\* CloseGap takes away the character right of the cursor.
LEMMA CloseGapIs ==
    ASSUME NEW r, LineOK(r), r.cursor < r.len
    PROVE  /\ LineOK(CloseGap(r)) /\ SameHistory(r, CloseGap(r)) /\ CloseGap(r).idx = r.idx
           /\ Left(CloseGap(r)) = Left(r)
           /\ Right(r) # <<>> /\ Right(CloseGap(r)) = Tail(Right(r))
<1>. DEFINE s == CloseGap(r)
            cells == [i \in Cells |-> IF i >= r.cursor /\ i < r.len - 1 THEN r.buf[i + 1] ELSE r.buf[i]]
<1>1. r \in Records /\ r.len \in 0..(BufSize - 1) /\ r.cursor \in 0..r.len /\ r.buf \in [Cells -> Chars] /\ BufSize \in Nat
  BY ReadlineAssumption DEF LineOK, Records
<1>2. s = WithLine(r, cells, r.len - 1, r.cursor)
  BY <1>1 DEF CloseGap, WithLine, Records
<1>3. cells \in [Cells -> Chars]
  <2>1. \A i \in Cells : i < r.len - 1 => i + 1 \in Cells
    BY <1>1 DEF Cells
  <2>. QED
    BY <1>1, <2>1
<1>4. \A i \in Cells : cells[i] = IF i >= r.cursor /\ i < r.len - 1 THEN r.buf[i + 1] ELSE r.buf[i]
  OBVIOUS
<1>. HIDE DEF cells, s
<1>5. LineOK(s) /\ s.buf = cells /\ s.len = r.len - 1 /\ s.cursor = r.cursor /\ SameHistory(r, s) /\ s.idx = r.idx
  <2>1. r.len - 1 \in 0..(BufSize - 1) /\ r.cursor \in 0..(r.len - 1)
    BY <1>1
  <2>. QED
    BY <1>1, <1>2, <1>3, <2>1, WithLineIs
<1>6. Left(s) = Left(r)
  <2>1. \A i \in Cells : i < r.cursor => cells[i] = r.buf[i]
    BY <1>1, <1>4 DEF Cells
  <2>. QED
    BY <1>5, <2>1, SameLeft
<1>7. Right(r) # <<>> /\ Right(s) = Tail(Right(r))
  <2>1. /\ Right(r) \in Seq(Chars) /\ Len(Right(r)) = r.len - r.cursor
        /\ \A i \in 1..(r.len - r.cursor) : Right(r)[i] = r.buf[r.cursor + i - 1]
    BY ViewIs
  <2>2. Right(r) # <<>>
    BY <1>1, <2>1
  <2>3. /\ Tail(Right(r)) \in Seq(Chars) /\ Len(Tail(Right(r))) = r.len - r.cursor - 1
        /\ \A i \in 1..(r.len - r.cursor - 1) : Tail(Right(r))[i] = Right(r)[i + 1]
    BY <1>1, <2>1, <2>2, HeadTailProperties
  <2>4. s.len - s.cursor = r.len - r.cursor - 1 /\ s.len - s.cursor \in Nat
    BY <1>1, <1>5
  <2>5. /\ Right(s) \in Seq(Chars) /\ Len(Right(s)) = s.len - s.cursor
        /\ \A i \in 1..(s.len - s.cursor) : Right(s)[i] = s.buf[s.cursor + i - 1]
    BY <1>5, ViewIs
  <2>6. ASSUME NEW i \in 1..(r.len - r.cursor - 1) PROVE Right(s)[i] = Tail(Right(r))[i]
    <3>1. PICK k \in Cells : k = r.cursor + i - 1 /\ k >= r.cursor /\ k < r.len - 1
      BY <1>1 DEF Cells
    <3>2. Right(s)[i] = cells[k]
      BY <1>5, <2>4, <2>5, <3>1
    <3>3. cells[k] = r.buf[k + 1]
      BY <1>4, <3>1
    <3>4. i + 1 \in 1..(r.len - r.cursor) /\ r.cursor + (i + 1) - 1 = k + 1
      BY <1>1, <3>1
    <3>5. Right(r)[i + 1] = r.buf[k + 1]
      BY <2>1, <3>4
    <3>. QED
      BY <2>3, <3>2, <3>3, <3>5
  <2>. QED
    BY <2>2, <2>3, <2>4, <2>5, <2>6, SeqEqual
<1>. QED
  BY <1>5, <1>6, <1>7 DEF s

\* Backspace takes away the character left of the cursor.
LEMMA BackspaceIs ==
    ASSUME NEW r, LineOK(r), r.cursor > 0
    PROVE  /\ LineOK(Backspace(r)) /\ SameHistory(r, Backspace(r)) /\ Backspace(r).idx = r.idx
           /\ Left(r) # <<>> /\ Left(Backspace(r)) = SubSeq(Left(r), 1, Len(Left(r)) - 1)
           /\ Right(Backspace(r)) = Right(r)
<1>. DEFINE q == WithLine(r, r.buf, r.len, r.cursor - 1)
            s == CloseGap(q)
<1>1. r \in Records /\ r.len \in 0..(BufSize - 1) /\ r.cursor \in 0..r.len /\ r.buf \in [Cells -> Chars] /\ BufSize \in Nat
  BY ReadlineAssumption DEF LineOK, Records
<1>2. q = [r EXCEPT !.cursor = r.cursor - 1]
  BY <1>1 DEF WithLine, Records
<1>3. Backspace(r) = s
  BY <1>2 DEF Backspace
<1>4. /\ LineOK(q) /\ q.buf = r.buf /\ q.len = r.len /\ q.cursor = r.cursor - 1
      /\ SameHistory(r, q) /\ q.idx = r.idx
  BY <1>1, WithLineIs
<1>. HIDE DEF q
<1>5. q.cursor < q.len
  BY <1>1, <1>4
<1>6. /\ LineOK(s) /\ SameHistory(q, s) /\ s.idx = q.idx
      /\ Left(s) = Left(q) /\ Right(q) # <<>> /\ Right(s) = Tail(Right(q))
  BY <1>4, <1>5, CloseGapIs
<1>. HIDE DEF s
<1>7. Left(r) # <<>> /\ Left(q) = SubSeq(Left(r), 1, Len(Left(r)) - 1)
  <2>1. /\ Left(r) \in Seq(Chars) /\ Len(Left(r)) = r.cursor
        /\ \A i \in 1..r.cursor : Left(r)[i] = r.buf[i - 1]
    BY ViewIs
  <2>2. r.cursor - 1 \in 0..Len(Left(r))
    BY <1>1, <2>1
  <2>3. /\ SubSeq(Left(r), 1, r.cursor - 1) \in Seq(Chars) /\ Len(SubSeq(Left(r), 1, r.cursor - 1)) = r.cursor - 1
        /\ \A i \in 1..(r.cursor - 1) : SubSeq(Left(r), 1, r.cursor - 1)[i] = Left(r)[i]
    BY <2>1, <2>2, PartsOf
  <2>4. /\ Left(q) \in Seq(Chars) /\ Len(Left(q)) = r.cursor - 1
        /\ \A i \in 1..(r.cursor - 1) : Left(q)[i] = r.buf[i - 1]
    BY <1>4, ViewIs, SMTT(40)
  <2>5. \A i \in 1..(r.cursor - 1) : Left(q)[i] = SubSeq(Left(r), 1, r.cursor - 1)[i]
    BY <1>1, <2>1, <2>3, <2>4
  <2>6. Left(q) = SubSeq(Left(r), 1, r.cursor - 1)
    BY <2>3, <2>4, <2>5, SeqEqual
  <2>. QED
    BY <1>1, <2>1, <2>6
<1>8. Tail(Right(q)) = Right(r)
  <2>1. /\ Right(r) \in Seq(Chars) /\ Len(Right(r)) = r.len - r.cursor
        /\ \A i \in 1..(r.len - r.cursor) : Right(r)[i] = r.buf[r.cursor + i - 1]
    BY ViewIs
  <2>2. /\ Right(q) \in Seq(Chars) /\ Len(Right(q)) = q.len - q.cursor
        /\ \A i \in 1..(q.len - q.cursor) : Right(q)[i] = q.buf[q.cursor + i - 1]
    BY <1>4, ViewIs
  <2>3. q.len - q.cursor = r.len - r.cursor + 1
    BY <1>1, <1>4
  <2>4. /\ Tail(Right(q)) \in Seq(Chars) /\ Len(Tail(Right(q))) = r.len - r.cursor
        /\ \A i \in 1..(r.len - r.cursor) : Tail(Right(q))[i] = Right(q)[i + 1]
    BY <1>1, <1>6, <2>2, <2>3, HeadTailProperties
  <2>5. ASSUME NEW i \in 1..(r.len - r.cursor) PROVE Tail(Right(q))[i] = Right(r)[i]
    <3>1. i + 1 \in 1..(q.len - q.cursor) /\ q.cursor + (i + 1) - 1 = r.cursor + i - 1
      BY <1>1, <1>4, <2>3
    <3>. QED
      BY <1>4, <2>1, <2>2, <2>4, <3>1
  <2>. QED
    BY <2>1, <2>4, <2>5, SeqEqual
<1>. QED
  BY <1>3, <1>4, <1>6, <1>7, <1>8 DEF SameHistory

\* The cursor stays in the line, which stays as it is.
LEMMA MoveToIs ==
    ASSUME NEW r, LineOK(r), NEW n \in Int
    PROVE  /\ LineOK(MoveTo(r, n)) /\ SameHistory(r, MoveTo(r, n)) /\ MoveTo(r, n).idx = r.idx
           /\ TextOf(MoveTo(r, n)) = TextOf(r)
<1>. DEFINE k == Min({Max({n, 0}), r.len})
<1>1. r \in Records /\ r.len \in 0..(BufSize - 1) /\ r.buf \in [Cells -> Chars] /\ BufSize \in Nat
  BY ReadlineAssumption DEF LineOK, Records
<1>2. Max({n, 0}) \in Nat
  BY MaxOfTwo
<1>3. k \in 0..r.len
  <2>1. PICK m \in Nat : m = Max({n, 0})
    BY <1>2
  <2>2. k = IF m <= r.len THEN m ELSE r.len
    BY <1>1, <2>1, MinOfTwo
  <2>. QED
    BY <1>1, <2>2
<1>. HIDE DEF k
<1>4. MoveTo(r, n) = WithLine(r, r.buf, r.len, k)
  BY <1>1 DEF MoveTo, k, WithLine, Records
<1>. QED
  BY <1>1, <1>3, <1>4, WithLineIs DEF TextOf

\* A blanked line is empty, whatever the cells still hold.
LEMMA BlankedIs ==
    ASSUME NEW r, LineOK(r)
    PROVE  /\ LineOK(Blanked(r)) /\ SameHistory(r, Blanked(r)) /\ Blanked(r).idx = r.idx
           /\ Left(Blanked(r)) = <<>> /\ Right(Blanked(r)) = <<>>
<1>. DEFINE s == Blanked(r)
<1>1. r \in Records /\ r.buf \in [Cells -> Chars] /\ BufSize \in Nat \ {0}
  BY ReadlineAssumption DEF LineOK, Records
<1>2. s = WithLine(r, r.buf, 0, 0)
  BY <1>1 DEF Blanked, WithLine, Records
<1>. HIDE DEF s
<1>3. LineOK(s) /\ s.len = 0 /\ s.cursor = 0 /\ SameHistory(r, s) /\ s.idx = r.idx
  BY <1>1, <1>2, WithLineIs
<1>4. Len(Left(s)) = 0 /\ Len(Right(s)) = 0 /\ Left(s) \in Seq(Chars) /\ Right(s) \in Seq(Chars)
  BY <1>3, ViewIs
<1>5. Left(s) = <<>> /\ Right(s) = <<>>
  BY <1>4, EmptySeq
<1>. QED
  BY <1>3, <1>5 DEF s

\* A line of the history, with the cursor behind it.
LEMMA HistLoadIs ==
    ASSUME NEW r, LineOK(r), NEW i \in 0..(HistMax - 1), r.idx = i, Len(r.hist[i]) < BufSize
    PROVE  /\ LineOK(HistLoad(r)) /\ SameHistory(r, HistLoad(r)) /\ HistLoad(r).idx = i
           /\ Left(HistLoad(r)) = r.hist[i] /\ Right(HistLoad(r)) = <<>>
<1>. DEFINE s == HistLoad(r)
            h == r.hist[i]
            n == Len(h)
            cells == [c \in Cells |-> IF c < n THEN h[c + 1] ELSE r.buf[c]]
<1>1. r \in Records /\ r.buf \in [Cells -> Chars] /\ BufSize \in Nat /\ h \in Seq(Chars) /\ n \in 0..(BufSize - 1)
  BY ReadlineAssumption DEF LineOK, Records
<1>2. s = WithLine(r, cells, n, n)
  BY <1>1 DEF HistLoad, WithLine, Records
<1>3. cells \in [Cells -> Chars]
  <2>1. \A c \in Cells : c < n => c + 1 \in 1..n
    BY <1>1 DEF Cells
  <2>. QED
    BY <1>1, <2>1
<1>4. \A c \in Cells : c < n => cells[c] = h[c + 1]
  OBVIOUS
<1>. HIDE DEF cells, s, n, h
<1>5. LineOK(s) /\ s.buf = cells /\ s.len = n /\ s.cursor = n /\ SameHistory(r, s) /\ s.idx = r.idx
  BY <1>1, <1>2, <1>3, WithLineIs
<1>6. /\ Left(s) \in Seq(Chars) /\ Len(Left(s)) = n
      /\ \A c \in 1..n : Left(s)[c] = cells[c - 1]
      /\ Right(s) \in Seq(Chars) /\ Len(Right(s)) = n - n
  BY <1>5, ViewIs
<1>7. Right(s) = <<>>
  BY <1>1, <1>6, EmptySeq
<1>8. \A c \in 1..n : Left(s)[c] = h[c]
  <2>1. \A c \in 1..n : c - 1 \in Cells /\ c - 1 < n /\ (c - 1) + 1 = c
    BY <1>1 DEF Cells
  <2>. QED
    BY <1>4, <1>6, <2>1
<1>9. Left(s) = h
  BY <1>1, <1>6, <1>8, SeqEqual DEF n
<1>. QED
  BY <1>5, <1>7, <1>9 DEF s, h

-----------------------------------------------------------------------------
(* Keys *)

\* The lines of the history fit, and the one that is recalled is one of them.
GoodLine(r) ==
    /\ LineOK(r)
    /\ r.idx < r.count
    /\ \A i \in 0..(HistMax - 1) : Len(r.hist[i]) < BufSize

\* What a key that does not enter the line may do, as the user sees it.
Edits(r, s) ==
    /\ GoodLine(s) /\ SameHistory(r, s)
    /\ \/ Left(s) \o Right(s) = Left(r) \o Right(r)
       \/ Left(r) # <<>> /\ Left(s) = SubSeq(Left(r), 1, Len(Left(r)) - 1) /\ Right(s) = Right(r)
       \/ Right(r) # <<>> /\ Right(s) = Tail(Right(r)) /\ Left(s) = Left(r)
       \/ (\E i \in 0..(r.count - 1) : Left(s) = r.hist[i]) /\ Right(s) = <<>>
       \/ Left(s) = <<>> /\ Right(s) = <<>>
       \/ /\ Len(Left(r)) + Len(Right(r)) < BufSize - 1
          /\ \E c \in Letters : Left(s) = Append(Left(r), c)
          /\ Right(s) = Right(r)

\* The state of an escape sequence, and of the walk through the history, are no
\* part of what the user sees.
WithMode(r, e, p, l, i) == [r EXCEPT !.esc = e, !.param = p, !.last = l, !.idx = i]

\* Another mode shows the same line.
LEMMA WithModeIs ==
    ASSUME NEW r, GoodLine(r), NEW e \in 0..2, NEW p \in Nat, NEW l \in Chars, NEW i \in -1..(HistMax - 1), i < r.count
    PROVE  LET s == WithMode(r, e, p, l, i) IN
           /\ GoodLine(s) /\ SameHistory(r, s) /\ Left(s) = Left(r) /\ Right(s) = Right(r)
           /\ s.len = r.len /\ s.cursor = r.cursor /\ s.param = p /\ s.last = l /\ s.idx = i /\ s.esc = e
<1>. DEFINE s == WithMode(r, e, p, l, i)
<1>1. r \in Records /\ r.cursor <= r.len
  BY DEF GoodLine, LineOK
<1>2. s \in Records
  BY <1>1 DEF WithMode, Records
<1>3. /\ s.buf = r.buf /\ s.len = r.len /\ s.cursor = r.cursor /\ s.hist = r.hist /\ s.head = r.head
      /\ s.count = r.count /\ s.param = p /\ s.last = l /\ s.idx = i /\ s.esc = e
  BY <1>1 DEF WithMode, Records
<1>. HIDE DEF s
<1>4. TextOf(s) = TextOf(r)
  BY <1>3 DEF TextOf
<1>5. Left(s) = Left(r) /\ Right(s) = Right(r)
  BY <1>3, <1>4 DEF Left, Right
<1>6. GoodLine(s)
  BY <1>1, <1>2, <1>3 DEF GoodLine, LineOK
<1>. QED
  BY <1>3, <1>5, <1>6 DEF s, SameHistory

\* Any record may leave the history.
LEMMA NoIdx ==
    ASSUME NEW r, GoodLine(r)
    PROVE  -1 \in -1..(HistMax - 1) /\ -1 < r.count
<1>1. HistMax \in Nat /\ r.count \in 0..HistMax
  BY ReadlineAssumption DEF GoodLine, LineOK, Records
<1>. QED
  BY <1>1

\* The ways in which the keys change the mode.
LEMMA Modes ==
    ASSUME NEW r, GoodLine(r)
    PROVE  /\ r.esc \in 0..2 /\ r.param \in Nat /\ r.last \in Chars /\ r.idx \in -1..(HistMax - 1) /\ r.idx < r.count
           /\ r.count \in 0..HistMax
           /\ \A e \in 0..2 : [r EXCEPT !.esc = e] = WithMode(r, e, r.param, r.last, r.idx)
           /\ [r EXCEPT !.param = 0] = WithMode(r, r.esc, 0, r.last, r.idx)
           /\ [r EXCEPT !.esc = 2, !.param = 0, !.last = Nul] = WithMode(r, 2, 0, Nul, r.idx)
           /\ \A p \in Nat, l \in Chars : [r EXCEPT !.param = p, !.last = l] = WithMode(r, r.esc, p, l, r.idx)
           /\ \A i \in -1..(HistMax - 1) : [r EXCEPT !.idx = i] = WithMode(r, r.esc, r.param, r.last, i)
           /\ [r EXCEPT !.idx = -1] = WithMode(r, r.esc, r.param, r.last, -1)
           /\ [r EXCEPT !.esc = 0, !.idx = -1] = WithMode(r, 0, r.param, r.last, -1)
BY DEF GoodLine, LineOK, Records, WithMode

\* What is done in another mode is done.
LEMMA EditsFrom ==
    ASSUME NEW r, NEW q, SameHistory(r, q), Left(q) = Left(r), Right(q) = Right(r), NEW s, Edits(q, s)
    PROVE  Edits(r, s)
BY DEF Edits, SameHistory

\* A key may change nothing.
LEMMA EditsNothing == ASSUME NEW r, NEW s, GoodLine(s), SameHistory(r, s), Left(s) = Left(r), Right(s) = Right(r)
                      PROVE Edits(r, s)
BY DEF Edits

\* A change of the line keeps the history, and with it what GoodLine says of it.
LEMMA Edited ==
    ASSUME NEW r, GoodLine(r), NEW s, LineOK(s), SameHistory(r, s), s.idx = r.idx
    PROVE  GoodLine(s)
BY DEF GoodLine, SameHistory

\* Each key, by the function that handles it.
LEMMA DeleteEdits == ASSUME NEW r, GoodLine(r) PROVE Edits(r, DeleteChar(r))
<1>1. LineOK(r)
  BY DEF GoodLine
<1>2. CASE r.cursor < r.len
  <2>1. /\ LineOK(CloseGap(r)) /\ SameHistory(r, CloseGap(r)) /\ CloseGap(r).idx = r.idx
        /\ Left(CloseGap(r)) = Left(r)
        /\ Right(r) # <<>> /\ Right(CloseGap(r)) = Tail(Right(r))
    BY <1>1, <1>2, CloseGapIs
  <2>2. GoodLine(CloseGap(r))
    BY <2>1, Edited
  <2>3. DeleteChar(r) = CloseGap(r)
    BY <1>2 DEF DeleteChar
  <2>. QED
    BY <2>1, <2>2, <2>3 DEF Edits
<1>3. CASE ~(r.cursor < r.len)
  BY <1>3, EditsNothing DEF DeleteChar, SameHistory
<1>. QED
  BY <1>2, <1>3

\* Backspace,
LEMMA BackspaceEdits == ASSUME NEW r, GoodLine(r) PROVE Edits(r, Backspace(r))
<1>1. LineOK(r)
  BY DEF GoodLine
<1>2. CASE r.cursor > 0
  <2>1. /\ LineOK(Backspace(r)) /\ SameHistory(r, Backspace(r)) /\ Backspace(r).idx = r.idx
        /\ Left(r) # <<>> /\ Left(Backspace(r)) = SubSeq(Left(r), 1, Len(Left(r)) - 1)
        /\ Right(Backspace(r)) = Right(r)
    BY <1>1, <1>2, BackspaceIs
  <2>2. GoodLine(Backspace(r))
    BY <2>1, Edited
  <2>. QED
    BY <2>1, <2>2 DEF Edits
<1>3. CASE ~(r.cursor > 0)
  BY <1>3, EditsNothing DEF Backspace, SameHistory
<1>. QED
  BY <1>2, <1>3

\* the keys that move the cursor,
LEMMA MoveEdits == ASSUME NEW r, GoodLine(r), NEW n \in Int PROVE Edits(r, MoveTo(r, n))
<1>1. LineOK(r)
  BY DEF GoodLine
<1>2. /\ LineOK(MoveTo(r, n)) /\ SameHistory(r, MoveTo(r, n)) /\ MoveTo(r, n).idx = r.idx
      /\ TextOf(MoveTo(r, n)) = TextOf(r)
  BY <1>1, MoveToIs
<1>3. GoodLine(MoveTo(r, n))
  BY <1>2, Edited
<1>4. Left(MoveTo(r, n)) \o Right(MoveTo(r, n)) = Left(r) \o Right(r)
  BY <1>1, <1>2, ViewIs
<1>. QED
  BY <1>2, <1>3, <1>4 DEF Edits

\* a letter,
LEMMA InsertEdits == ASSUME NEW r, GoodLine(r), NEW c \in Letters PROVE Edits(r, InsertChar(r, c))
<1>1. LineOK(r) /\ c \in Typing /\ r.len \in 0..(BufSize - 1) /\ BufSize \in Nat
  BY ReadlineAssumption DEF GoodLine, LineOK, Records, Letters
<1>2. CASE r.len < BufSize - 1
  <2>1. /\ LineOK(InsertChar(r, c)) /\ SameHistory(r, InsertChar(r, c)) /\ InsertChar(r, c).idx = r.idx
        /\ Left(InsertChar(r, c)) = Append(Left(r), c)
        /\ Right(InsertChar(r, c)) = Right(r)
    BY <1>1, <1>2, InsertCharIs
  <2>2. GoodLine(InsertChar(r, c))
    BY <2>1, Edited
  <2>3. Len(Left(r)) + Len(Right(r)) = r.len
    <3>1. Len(Left(r)) = r.cursor /\ Len(Right(r)) = r.len - r.cursor /\ r.cursor \in Int /\ r.len \in Int
      BY <1>1, ViewIs DEF LineOK, Records
    <3>. QED
      BY <3>1
  <2>. QED
    BY <1>2, <2>1, <2>2, <2>3 DEF Edits
<1>3. CASE ~(r.len < BufSize - 1)
  <2>1. InsertChar(r, c) = r
    BY <1>1, <1>3 DEF InsertChar
  <2>. QED
    BY <2>1, EditsNothing DEF SameHistory
<1>. QED
  BY <1>2, <1>3

\* the start of a line,
LEMMA StartEdits == ASSUME NEW r, GoodLine(r) PROVE /\ GoodLine(StartLine(r)) /\ SameHistory(r, StartLine(r))
                                                    /\ Left(StartLine(r)) = <<>> /\ Right(StartLine(r)) = <<>>
<1>. DEFINE b == Blanked(r)
<1>1. LineOK(r)
  BY DEF GoodLine
<1>2. LineOK(b) /\ SameHistory(r, b) /\ b.idx = r.idx /\ Left(b) = <<>> /\ Right(b) = <<>>
  BY <1>1, BlankedIs
<1>3. GoodLine(b)
  BY <1>2, Edited
<1>. HIDE DEF b
<1>4. StartLine(r) = WithMode(b, 0, b.param, b.last, -1)
  BY <1>3, Modes DEF StartLine, b
<1>5. b.param \in Nat /\ b.last \in Chars /\ -1 \in -1..(HistMax - 1) /\ -1 < b.count
  BY <1>3, Modes, NoIdx
<1>. QED
  BY <1>2, <1>3, <1>4, <1>5, WithModeIs DEF SameHistory

\* A line of the history, number i.
LEMMA LoadEdits ==
    ASSUME NEW r, GoodLine(r), NEW i \in 0..(r.count - 1)
    PROVE  Edits(r, HistLoad([r EXCEPT !.idx = i]))
<1>. DEFINE q == WithMode(r, r.esc, r.param, r.last, i)
<1>1. /\ r.esc \in 0..2 /\ r.param \in Nat /\ r.last \in Chars /\ r.count \in 0..HistMax
      /\ \A k \in -1..(HistMax - 1) : [r EXCEPT !.idx = k] = WithMode(r, r.esc, r.param, r.last, k)
  BY Modes
<1>2. i \in 0..(HistMax - 1) /\ i \in -1..(HistMax - 1) /\ i < r.count
  BY <1>1, ReadlineAssumption
<1>3. [r EXCEPT !.idx = i] = q
  BY <1>1, <1>2
<1>4. GoodLine(q) /\ SameHistory(r, q) /\ Left(q) = Left(r) /\ Right(q) = Right(r) /\ q.idx = i
  BY <1>1, <1>2, WithModeIs
<1>. HIDE DEF q
<1>5. LineOK(q) /\ Len(q.hist[i]) < BufSize /\ q.hist = r.hist
  BY <1>2, <1>4 DEF GoodLine, SameHistory
<1>6. /\ LineOK(HistLoad(q)) /\ SameHistory(q, HistLoad(q)) /\ HistLoad(q).idx = i
      /\ Left(HistLoad(q)) = q.hist[i] /\ Right(HistLoad(q)) = <<>>
  BY <1>2, <1>4, <1>5, HistLoadIs
<1>7. GoodLine(HistLoad(q))
  BY <1>4, <1>6, Edited
<1>. QED
  BY <1>3, <1>4, <1>5, <1>6, <1>7 DEF Edits, SameHistory

\* the keys that walk through the history,
LEMMA HistoryEdits == ASSUME NEW r, GoodLine(r) PROVE Edits(r, HistUp(r)) /\ Edits(r, HistDown(r))
<1>1. r.idx \in -1..(HistMax - 1) /\ r.count \in 0..HistMax /\ r.idx < r.count /\ HistMax \in Nat
  BY Modes, ReadlineAssumption
<1>2. Edits(r, HistUp(r))
  <2>. DEFINE i == IF r.idx < 0 THEN r.count ELSE r.idx
  <2>1. CASE r.count = 0 \/ i = 0
    <3>1. HistUp(r) = r
      BY <2>1 DEF HistUp
    <3>. QED
      BY <3>1, EditsNothing DEF SameHistory
  <2>2. CASE ~(r.count = 0 \/ i = 0)
    <3>1. i - 1 \in 0..(r.count - 1)
      BY <1>1, <2>2
    <3>2. HistUp(r) = HistLoad([r EXCEPT !.idx = i - 1])
      BY <2>2 DEF HistUp
    <3>. HIDE DEF i
    <3>. QED
      BY <3>1, <3>2, LoadEdits
  <2>. QED
    BY <2>1, <2>2
<1>3. Edits(r, HistDown(r))
  <2>1. CASE r.idx < 0
    <3>1. HistDown(r) = r
      BY <1>1, <2>1 DEF HistDown
    <3>. QED
      BY <3>1, EditsNothing DEF SameHistory
  <2>2. CASE r.idx >= 0 /\ r.idx + 1 >= r.count
    <3>1. HistDown(r) = Blanked([r EXCEPT !.idx = -1])
      BY <1>1, <2>2 DEF HistDown
    <3>2. [r EXCEPT !.idx = -1] = WithMode(r, r.esc, r.param, r.last, -1)
      BY Modes
    <3>. DEFINE q == WithMode(r, r.esc, r.param, r.last, -1)
    <3>3. GoodLine(q) /\ SameHistory(r, q)
      <4>1. /\ r.esc \in 0..2 /\ r.param \in Nat /\ r.last \in Chars
            /\ -1 \in -1..(HistMax - 1) /\ -1 < r.count
        BY Modes, NoIdx
      <4>. QED
        BY <4>1, WithModeIs
    <3>. HIDE DEF q
    <3>4. /\ LineOK(Blanked(q)) /\ SameHistory(q, Blanked(q)) /\ Blanked(q).idx = q.idx
          /\ Left(Blanked(q)) = <<>> /\ Right(Blanked(q)) = <<>>
      BY <3>3, BlankedIs DEF GoodLine
    <3>5. GoodLine(Blanked(q))
      BY <3>3, <3>4, Edited
    <3>. QED
      BY <3>1, <3>2, <3>3, <3>4, <3>5 DEF Edits, SameHistory, q
  <2>3. CASE r.idx >= 0 /\ r.idx + 1 < r.count
    <3>1. r.idx + 1 \in 0..(r.count - 1)
      BY <1>1, <2>3
    <3>2. HistDown(r) = HistLoad([r EXCEPT !.idx = r.idx + 1])
      BY <1>1, <2>3 DEF HistDown
    <3>. QED
      BY <3>1, <3>2, LoadEdits
  <2>. QED
    BY <1>1, <2>1, <2>2, <2>3
<1>. QED
  BY <1>2, <1>3

\* the end of an escape sequence,
LEMMA CsiEdits == ASSUME NEW r, GoodLine(r), NEW c PROVE Edits(r, HandleCsi(r, c))
<1>1. r.cursor \in Int /\ r.len \in Int /\ Steps(r) \in Int /\ r.cursor + Steps(r) \in Int /\ r.cursor - Steps(r) \in Int
  BY DEF GoodLine, LineOK, Records, Steps
<1>2. Edits(r, r)
  BY EditsNothing DEF SameHistory
<1>3. CASE c = "~"
  <2>1. HandleCsi(r, c) = DeleteChar(r) \/ HandleCsi(r, c) = r
    BY <1>3 DEF HandleCsi
  <2>. QED
    BY <1>2, <2>1, DeleteEdits
<1>4. CASE c = "A"
  BY <1>4, HistoryEdits DEF HandleCsi
<1>5. CASE c = "B"
  BY <1>5, HistoryEdits DEF HandleCsi
<1>6. CASE c = "C"
  <2>1. HandleCsi(r, c) = MoveTo(r, r.cursor + Steps(r))
    BY <1>6 DEF HandleCsi
  <2>. QED
    BY <1>1, <2>1, MoveEdits
<1>7. CASE c = "D"
  <2>1. HandleCsi(r, c) = MoveTo(r, r.cursor - Steps(r))
    BY <1>7 DEF HandleCsi
  <2>. QED
    BY <1>1, <2>1, MoveEdits
<1>8. CASE c = "H"
  <2>1. HandleCsi(r, c) = MoveTo(r, 0)
    BY <1>8 DEF HandleCsi
  <2>. QED
    BY <2>1, MoveEdits
<1>9. CASE c = "F"
  <2>1. HandleCsi(r, c) = MoveTo(r, r.len)
    BY <1>9 DEF HandleCsi
  <2>. QED
    BY <1>1, <2>1, MoveEdits
<1>10. CASE c \notin {"~", "A", "B", "C", "D", "H", "F"}
  <2>1. HandleCsi(r, c) = r
    BY <1>10 DEF HandleCsi
  <2>. QED
    BY <1>2, <2>1
<1>. QED
  BY <1>3, <1>4, <1>5, <1>6, <1>7, <1>8, <1>9, <1>10

\* a key that the terminal passes on as one character,
LEMMA SentinelEdits == ASSUME NEW r, GoodLine(r), NEW c \in Sentinels PROVE Edits(r, HandleSentinel(r, c))
<1>. DEFINE q == WithMode(r, r.esc, 0, r.last, r.idx)
<1>1. [r EXCEPT !.param = 0] = q
  BY Modes
<1>2. GoodLine(q) /\ SameHistory(r, q) /\ Left(q) = Left(r) /\ Right(q) = Right(r)
  <2>1. r.esc \in 0..2 /\ 0 \in Nat /\ r.last \in Chars /\ r.idx \in -1..(HistMax - 1) /\ r.idx < r.count
    BY Modes
  <2>. QED
    BY <2>1, WithModeIs
<1>. HIDE DEF q
<1>3. \A x : Edits(r, HandleCsi(q, x))
  BY <1>2, CsiEdits, EditsFrom
<1>4. CASE c \in {"left", "right"}
  <2>1. HandleSentinel(r, c) = HandleCsi([r EXCEPT !.param = 0], "D") \/ HandleSentinel(r, c) = HandleCsi([r EXCEPT !.param = 0], "C")
    BY <1>4 DEF HandleSentinel
  <2>. QED
    BY <1>1, <1>3, <2>1
<1>5. CASE c \in {"up", "down", "home", "end"}
  <2>1. \E x \in {"A", "B", "H", "F"} : HandleSentinel(r, c) = HandleCsi(r, x)
    BY <1>5 DEF HandleSentinel
  <2>. QED
    BY <2>1, CsiEdits
<1>6. CASE c = "del"
  <2>1. HandleSentinel(r, c) = DeleteChar(r)
    BY <1>6 DEF HandleSentinel
  <2>. QED
    BY <2>1, DeleteEdits
<1>. QED
  BY <1>4, <1>5, <1>6 DEF Sentinels

\* and the characters of an escape sequence.
LEMMA SequenceEdits ==
    ASSUME NEW r, GoodLine(r), NEW c \in Typing
    PROVE  Edits(r, AfterEsc(r, c)) /\ Edits(r, InSequence(r, c))
<1>0. /\ r.esc \in 0..2 /\ r.param \in Nat /\ r.last \in Chars /\ r.idx \in -1..(HistMax - 1) /\ r.idx < r.count
  BY Modes
<1>1. ASSUME NEW e \in 0..2, NEW p \in Nat, NEW l \in Chars, NEW s, s = WithMode(r, e, p, l, r.idx)
      PROVE  Edits(r, s) /\ GoodLine(s) /\ SameHistory(r, s) /\ Left(s) = Left(r) /\ Right(s) = Right(r)
  <2>1. GoodLine(s) /\ SameHistory(r, s) /\ Left(s) = Left(r) /\ Right(s) = Right(r)
    BY <1>0, <1>1, WithModeIs
  <2>. QED
    BY <2>1, EditsNothing
<1>2. Edits(r, AfterEsc(r, c))
  <2>1. CASE c = "["
    <3>1. AfterEsc(r, c) = WithMode(r, 2, 0, Nul, r.idx)
      BY <2>1, Modes DEF AfterEsc
    <3>2. Nul \in Chars /\ 2 \in 0..2 /\ 0 \in Nat
      BY DEF Chars
    <3>. QED
      BY <1>1, <3>1, <3>2
  <2>2. CASE c # "["
    <3>2. 0 \in 0..2
      OBVIOUS
    <3>3. AfterEsc(r, c) = [r EXCEPT !.esc = 0]
      BY <2>2 DEF AfterEsc
    <3>1. AfterEsc(r, c) = WithMode(r, 0, r.param, r.last, r.idx)
      BY <3>2, <3>3, Modes
    <3>. QED
      BY <1>0, <1>1, <3>1, <3>2
  <2>. QED
    BY <2>1, <2>2
<1>3. Edits(r, InSequence(r, c))
  <2>1. CASE c \in DOMAIN Digits
    <3>. DEFINE p == Min({10 * r.param + Digits[c], ParamMax})
    <3>1. 10 * r.param + Digits[c] \in Nat /\ ParamMax \in Nat
      BY <1>0, <2>1, ReadlineAssumption DEF Digits
    <3>2. p \in Nat
      BY <3>1, MinOfTwo
    <3>3. InSequence(r, c) = [r EXCEPT !.param = p, !.last = c]
      BY <1>0, <2>1 DEF InSequence, GoodLine, LineOK, Records
    <3>4. c \in Chars
      BY DEF Chars
    <3>. HIDE DEF p
    <3>5. InSequence(r, c) = WithMode(r, r.esc, p, c, r.idx)
      BY <3>2, <3>3, <3>4, Modes
    <3>. QED
      BY <1>0, <1>1, <3>2, <3>4, <3>5
  <2>2. CASE c \notin DOMAIN Digits
    <3>. DEFINE q == WithMode(r, 0, r.param, r.last, r.idx)
    <3>1. 0 \in 0..2
      OBVIOUS
    <3>2. InSequence(r, c) = HandleCsi(q, c)
      BY <2>2, <3>1, Modes DEF InSequence
    <3>3. GoodLine(q) /\ SameHistory(r, q) /\ Left(q) = Left(r) /\ Right(q) = Right(r)
      BY <1>0, <1>1, <3>1
    <3>. HIDE DEF q
    <3>. QED
      BY <3>2, <3>3, CsiEdits, EditsFrom
  <2>. QED
    BY <2>1, <2>2
<1>. QED
  BY <1>2, <1>3

\* Every key but the one that enters the line edits it.
LEMMA KeyEdits ==
    ASSUME NEW r, GoodLine(r), NEW c \in Typing, ~(r.esc = 0 /\ c = "enter")
    PROVE  Edits(r, Typed(r, c))
<1>1. r.esc \in 0..2
  BY Modes
<1>2. CASE r.esc = 1
  BY <1>2, SequenceEdits DEF Typed
<1>3. CASE r.esc = 2
  BY <1>3, SequenceEdits DEF Typed
<1>4. CASE r.esc = 0
  <2>0. r.esc # 1 /\ r.esc # 2
    BY <1>4
  <2>1. CASE c = "esc"
    <3>1. c \notin Sentinels /\ c # "^C" /\ c # "enter" /\ c # "backspace"
      BY <2>1 DEF Sentinels
    <3>2. Typed(r, c) = [r EXCEPT !.esc = 1]
      BY <1>4, <2>0, <2>1, <3>1 DEF Typed
    <3>. DEFINE q == WithMode(r, 1, r.param, r.last, r.idx)
    <3>3. 1 \in 0..2
      OBVIOUS
    <3>4. r.param \in Nat /\ r.last \in Chars /\ r.idx \in -1..(HistMax - 1) /\ r.idx < r.count
      BY Modes
    <3>5. [r EXCEPT !.esc = 1] = q
      BY <3>3, Modes
    <3>6. GoodLine(q) /\ SameHistory(r, q) /\ Left(q) = Left(r) /\ Right(q) = Right(r)
      BY <3>3, <3>4, WithModeIs
    <3>. HIDE DEF q
    <3>7. Edits(r, q)
      BY <3>6, EditsNothing
    <3>. QED
      BY <3>2, <3>5, <3>7
  <2>2. CASE c = "^C"
    <3>1. c \notin Sentinels /\ c # "esc" /\ c # "enter" /\ c # "backspace"
      BY <2>2 DEF Sentinels
    <3>2. Typed(r, c) = StartLine(r)
      BY <1>4, <2>0, <2>2, <3>1 DEF Typed
    <3>. QED
      BY <3>2, StartEdits DEF Edits
  <2>3. CASE c = "backspace"
    <3>1. c \notin Sentinels /\ c # "esc" /\ c # "enter" /\ c # "^C"
      BY <2>3 DEF Sentinels
    <3>2. Typed(r, c) = Backspace(r)
      BY <1>4, <2>0, <2>3, <3>1 DEF Typed
    <3>. QED
      BY <3>2, BackspaceEdits
  <2>4. CASE c \in Sentinels
    <3>1. c \notin {"esc", "^C", "backspace", "enter"}
      BY <2>4 DEF Sentinels
    <3>2. Typed(r, c) = HandleSentinel(r, c)
      BY <1>4, <2>0, <2>4, <3>1 DEF Typed
    <3>. QED
      BY <2>4, <3>2, SentinelEdits
  <2>5. CASE c \notin {"esc", "^C", "backspace"} \cup Sentinels
    <3>1. Typed(r, c) = InsertChar(r, c) /\ c \in Letters
      BY <1>4, <2>0, <2>5 DEF Typed, Letters
    <3>. QED
      BY <3>1, InsertEdits
  <2>. QED
    BY <2>1, <2>2, <2>3, <2>4, <2>5
<1>. QED
  BY <1>1, <1>2, <1>3, <1>4

-----------------------------------------------------------------------------
(* The ring of the history holds the lines entered last *)

\* Line i of those entered, the latest first, is in this cell.
SlotOf(r, i) == Wrap(r.head + r.count - i, HistMax)

RingOK(r, lines) ==
    /\ lines \in Seq(Seq(Chars)) /\ Len(lines) = r.count
    /\ r.count < HistMax => r.head = 0
    /\ \A i \in 1..r.count : lines[i] = r.hist[SlotOf(r, i)]

\* The cell, without a remainder.
LEMMA SlotIs ==
    ASSUME NEW r, LineOK(r), NEW i \in 1..r.count
    PROVE  /\ SlotOf(r, i) = (IF r.head + r.count - i < HistMax THEN r.head + r.count - i ELSE r.head + r.count - i - HistMax)
           /\ SlotOf(r, i) \in 0..(HistMax - 1)
<1>1. r.head \in 0..(HistMax - 1) /\ r.count \in 0..HistMax /\ HistMax \in Nat \ {0}
  BY ReadlineAssumption DEF LineOK, Records
<1>2. r.head + r.count - i \in 0..(2 * HistMax - 1)
  BY <1>1
<1>3. PICK x \in 0..(2 * HistMax - 1) : x = r.head + r.count - i
  BY <1>2
<1>. QED
  BY <1>1, <1>3, WrapsOnce DEF SlotOf

\* What a recall finds was entered.
LEMMA RecalledWasEntered ==
    ASSUME NEW r, LineOK(r), NEW lines, RingOK(r, lines), NEW k \in 0..(r.count - 1)
    PROVE  \E i \in DOMAIN lines : lines[i] = r.hist[k]
<1>1. r.head \in 0..(HistMax - 1) /\ r.count \in 0..HistMax /\ HistMax \in Nat \ {0}
  BY ReadlineAssumption DEF LineOK, Records
<1>2. DOMAIN lines = 1..r.count
  BY DEF RingOK
<1>3. \E i \in 1..r.count : SlotOf(r, i) = k
  <2>1. CASE r.count < HistMax
    <3>1. r.head = 0
      BY <2>1 DEF RingOK
    <3>2. PICK i \in 1..r.count : i = r.count - k
      BY <1>1
    <3>. QED
      BY <1>1, <2>1, <3>1, <3>2, SlotIs
  <2>2. CASE r.count = HistMax /\ k < r.head
    <3>1. PICK i \in 1..r.count : i = r.head - k
      BY <1>1, <2>2
    <3>. QED
      BY <1>1, <2>2, <3>1, SlotIs
  <2>3. CASE r.count = HistMax /\ k >= r.head
    <3>1. PICK i \in 1..r.count : i = r.head + HistMax - k
      BY <1>1, <2>3
    <3>. QED
      BY <1>1, <2>3, <3>1, SlotIs
  <2>. QED
    BY <1>1, <2>1, <2>2, <2>3
<1>. QED
  BY <1>2, <1>3 DEF RingOK

\* The line is the latest already; how many of the others are kept if it is not.
Again(lines, s) == lines # <<>> /\ Head(lines) = s
Older(lines) == IF Len(lines) < HistMax THEN Len(lines) ELSE HistMax - 1

\* A line that is not the latest one is put before the others, as many of which
\* are kept as there is room for.
LEMMA KeptIs ==
    ASSUME NEW lines \in Seq(Seq(Chars)), NEW s \in Seq(Chars), Len(lines) <= HistMax, ~Again(lines, s)
    PROVE  /\ Older(lines) \in 0..Len(lines) /\ Kept(lines, s) = <<s>> \o SubSeq(lines, 1, Older(lines))
           /\ Kept(lines, s) \in Seq(Seq(Chars)) /\ Len(Kept(lines, s)) = Older(lines) + 1 /\ Kept(lines, s)[1] = s
           /\ \A i \in 1..Older(lines) : Kept(lines, s)[i + 1] = lines[i]
<1>. DEFINE S == Seq(Chars)
            n == Older(lines)
<1>. HIDE DEF S
<1>0. lines \in Seq(S) /\ s \in S
  BY DEF S
<1>. DEFINE a == <<s>> \o lines
            b == SubSeq(lines, 1, n)
            k == SubSeq(a, 1, n + 1)
<1>1. HistMax \in Nat \ {0} /\ Len(lines) \in Nat /\ n \in 0..Len(lines) /\ <<s>> \in Seq(S) /\ Len(<<s>>) = 1 /\ <<s>>[1] = s
  BY <1>0, ReadlineAssumption DEF Older
<1>. HIDE DEF n
<1>2. Min({HistMax, Len(lines) + 1}) = n + 1
  BY <1>1, MinOfTwo DEF Older, n
<1>3. Kept(lines, s) = k
  BY <1>2 DEF Kept, Again
<1>4. /\ a \in Seq(S) /\ Len(a) = 1 + Len(lines)
      /\ \A i \in 1..(1 + Len(lines)) : a[i] = IF i <= 1 THEN s ELSE lines[i - 1]
  <2>1. /\ a \in Seq(S) /\ Len(a) = Len(<<s>>) + Len(lines)
        /\ \A i \in 1..(Len(<<s>>) + Len(lines)) : a[i] = IF i <= Len(<<s>>) THEN <<s>>[i] ELSE lines[i - Len(<<s>>)]
    BY <1>0, <1>1, ConcatProperties
  <2>2. \A i \in 1..(1 + Len(lines)) : a[i] = IF i <= 1 THEN <<s>>[i] ELSE lines[i - 1]
    BY <1>1, <2>1
  <2>. HIDE DEF a
  <2>. QED
    BY <1>1, <2>1, <2>2
<1>5. b \in Seq(S) /\ Len(b) = n /\ \A i \in 1..n : b[i] = lines[i]
  BY <1>0, <1>1, PartsOf
<1>. HIDE DEF a, b
<1>6. n + 1 \in 0..Len(a)
  BY <1>1, <1>4
<1>7. k \in Seq(S) /\ Len(k) = n + 1 /\ \A i \in 1..(n + 1) : k[i] = a[i]
  BY <1>4, <1>6, PartsOf
<1>. HIDE DEF k
<1>8. k[1] = s /\ \A i \in 1..n : k[i + 1] = lines[i]
  <2>1. k[1] = s
    BY <1>1, <1>4, <1>7
  <2>2. ASSUME NEW i \in 1..n PROVE k[i + 1] = lines[i]
    <3>1. PICK j : j = i + 1
      OBVIOUS
    <3>2. j \in 1..(n + 1) /\ j \in 1..(1 + Len(lines)) /\ ~(j <= 1) /\ j - 1 = i
      BY <1>1, <3>1
    <3>. QED
      BY <1>4, <1>7, <3>1, <3>2
  <2>. QED
    BY <2>1, <2>2
<1>9. k = <<s>> \o b
  <2>1. /\ <<s>> \o b \in Seq(S) /\ Len(<<s>> \o b) = Len(<<s>>) + Len(b)
        /\ \A i \in 1..(Len(<<s>>) + Len(b)) : (<<s>> \o b)[i] = IF i <= Len(<<s>>) THEN <<s>>[i] ELSE b[i - Len(<<s>>)]
    BY <1>1, <1>5, ConcatProperties
  <2>2. /\ Len(<<s>> \o b) = n + 1
        /\ \A i \in 1..(n + 1) : (<<s>> \o b)[i] = IF i <= 1 THEN <<s>>[i] ELSE b[i - 1]
    BY <1>1, <1>5, <2>1
  <2>3. ASSUME NEW i \in 1..(n + 1) PROVE k[i] = (<<s>> \o b)[i]
    <3>1. CASE i = 1
      <4>1. (<<s>> \o b)[i] = s
        BY <1>1, <2>2, <3>1
      <4>2. k[i] = s
        BY <1>8, <3>1
      <4>. QED
        BY <4>1, <4>2
    <3>2. CASE i > 1
      <4>1. i - 1 \in 1..n /\ ~(i <= 1) /\ (i - 1) + 1 = i
        BY <1>1, <3>2
      <4>. QED
        BY <1>5, <1>8, <2>2, <4>1
    <3>3. i = 1 \/ i > 1
      BY <1>1
    <3>. QED
      BY <3>1, <3>2, <3>3
  <2>. QED
    BY <1>7, <2>1, <2>2, <2>3, SeqEqual
<1>. QED
  BY <1>1, <1>3, <1>7, <1>8, <1>9 DEF b, n, S

\* A record with another ring.
WithRing(r, hs, h, c) == [r EXCEPT !.hist = hs, !.head = h, !.count = c]

Fits(hs) == hs \in [0..(HistMax - 1) -> Seq(Chars)] /\ \A i \in 0..(HistMax - 1) : Len(hs[i]) < BufSize

\* The ring changes, the line stays.
LEMMA WithRingIs ==
    ASSUME NEW r, GoodLine(r), NEW hs, Fits(hs), NEW h \in 0..(HistMax - 1), NEW c \in 0..HistMax, r.count <= c
    PROVE  /\ GoodLine(WithRing(r, hs, h, c)) /\ WithRing(r, hs, h, c).hist = hs
           /\ WithRing(r, hs, h, c).head = h /\ WithRing(r, hs, h, c).count = c
<1>. DEFINE q == WithRing(r, hs, h, c)
<1>1. r \in Records /\ r.cursor <= r.len /\ r.idx < r.count /\ r.count \in 0..HistMax /\ r.idx \in Int
  BY DEF GoodLine, LineOK, Records
<1>2. r.idx < c
  BY <1>1, ReadlineAssumption
<1>3. q \in Records
  BY <1>1, <1>2 DEF WithRing, Records, Fits
<1>4. q.hist = hs /\ q.head = h /\ q.count = c /\ q.idx = r.idx /\ q.len = r.len /\ q.cursor = r.cursor
  BY <1>1 DEF WithRing, Records
<1>. HIDE DEF q
<1>5. GoodLine(q)
  BY <1>1, <1>2, <1>3, <1>4 DEF GoodLine, LineOK, Fits
<1>. QED
  BY <1>4, <1>5 DEF q

\* HistoryPush keeps the ring, and what it does to the lines is what Kept does.
LEMMA PushIs ==
    ASSUME NEW r, GoodLine(r), NEW lines, RingOK(r, lines), NEW s \in Seq(Chars), s # <<>>, Len(s) < BufSize
    PROVE  /\ GoodLine(HistoryPush(r, s)) /\ RingOK(HistoryPush(r, s), Kept(lines, s))
           /\ \/ lines # <<>> /\ Head(lines) = s /\ Kept(lines, s) = lines
              \/ \E n \in 0..Len(lines) : Kept(lines, s) = <<s>> \o SubSeq(lines, 1, n)
<1>. DEFINE h == r.head
            c == r.count
            H == HistMax
<1>0. LineOK(r) /\ r \in Records
  BY DEF GoodLine, LineOK
<1>1. h \in 0..(H - 1) /\ c \in 0..H /\ H \in Nat \ {0} /\ r.hist \in [0..(H - 1) -> Seq(Chars)] /\ r.idx < c
  BY <1>0, ReadlineAssumption DEF GoodLine, Records
<1>2. lines \in Seq(Seq(Chars)) /\ Len(lines) = c /\ (c < H => h = 0) /\ \A i \in 1..c : lines[i] = r.hist[SlotOf(r, i)]
  BY DEF RingOK
<1>3. (lines # <<>>) <=> c > 0
  BY <1>1, <1>2, EmptySeq
<1>4. ASSUME c > 0 PROVE Head(lines) = r.hist[HistLast(r)]
  <2>1. HistLast(r) = SlotOf(r, 1) /\ 1 \in 1..c
    BY <1>1, <1>4 DEF HistLast, SlotOf, Wrap
  <2>. QED
    BY <1>2, <1>3, <1>4, <2>1
<1>5. CASE lines # <<>> /\ Head(lines) = s
  <2>1. HistoryPush(r, s) = r
    BY <1>3, <1>4, <1>5 DEF HistoryPush
  <2>2. Kept(lines, s) = lines
    BY <1>5 DEF Kept
  <2>. QED
    BY <1>5, <2>1, <2>2
<1>6. CASE ~(lines # <<>> /\ Head(lines) = s)
  <2>. DEFINE k == Kept(lines, s)
  <2>0. PICK n : n = Older(lines)
    OBVIOUS
  <2>1. ~(s = <<>> \/ (c > 0 /\ r.hist[HistLast(r)] = s))
    BY <1>3, <1>4, <1>6
  <2>7. n = IF c < H THEN c ELSE H - 1
    BY <1>2, <2>0 DEF Older
  <2>2. /\ n \in 0..c /\ k = <<s>> \o SubSeq(lines, 1, n)
        /\ k \in Seq(Seq(Chars)) /\ Len(k) = n + 1 /\ k[1] = s
        /\ \A i \in 1..n : k[i + 1] = lines[i]
    <3>1. Len(lines) <= HistMax /\ lines \in Seq(Seq(Chars)) /\ ~Again(lines, s)
      BY <1>1, <1>2, <1>6 DEF Again
    <3>. QED
      BY <1>2, <2>0, <3>1, KeptIs
  <2>. HIDE DEF k
  <2>3. \A i \in 1..c : /\ SlotOf(r, i) = (IF h + c - i < H THEN h + c - i ELSE h + c - i - H)
                        /\ SlotOf(r, i) \in 0..(H - 1)
    BY <1>0, SlotIs
  <2>4. CASE c < H
    <3>. DEFINE q == HistoryPush(r, s)
    <3>1. h = 0 /\ h + c = c /\ c \in 0..(2 * H - 1)
      BY <1>1, <1>2, <2>4
    <3>2. (h + c) % H = c
      BY <1>1, <2>4, <3>1, WrapsOnce DEF Wrap
    <3>. DEFINE hs == [r.hist EXCEPT ![c] = s]
    <3>3. c \in 0..(H - 1) /\ c + 1 \in 0..HistMax /\ r.count <= c + 1
      BY <1>1, <2>4
    <3>4. q = [r EXCEPT !.hist = hs, !.count = c + 1]
      BY <1>0, <2>1, <2>4, <3>2, <3>3 DEF HistoryPush, Records
    <3>5. q = WithRing(r, hs, h, c + 1)
      <4>. HIDE DEF hs, q
      <4>. QED
        BY <1>0, <3>4 DEF WithRing, Records
    <3>6. Fits(hs)
      BY <1>1 DEF GoodLine, Fits
    <3>13. hs[c] = s /\ \A i \in 0..(H - 1) : i # c => hs[i] = r.hist[i]
      BY <1>1, <3>3
    <3>. HIDE DEF q, hs
    <3>12. GoodLine(q) /\ q.hist = hs /\ q.head = h /\ q.count = c + 1
      <4>1. /\ GoodLine(WithRing(r, hs, h, c + 1)) /\ WithRing(r, hs, h, c + 1).hist = hs
            /\ WithRing(r, hs, h, c + 1).head = h /\ WithRing(r, hs, h, c + 1).count = c + 1
        BY <1>1, <3>3, <3>6, WithRingIs
      <4>. QED
        BY <3>5, <4>1
    <3>7. LineOK(q)
      BY <3>12 DEF GoodLine
    <3>8. \A i \in 1..(c + 1) : SlotOf(q, i) = (IF h + (c + 1) - i < H THEN h + (c + 1) - i ELSE h + (c + 1) - i - H)
      BY <3>7, <3>12, SlotIs
    <3>9. ASSUME NEW i \in 1..(c + 1) PROVE k[i] = q.hist[SlotOf(q, i)]
      <4>1. CASE i = 1
        <5>1. SlotOf(q, i) = c
          BY <1>1, <2>4, <3>1, <3>8, <4>1
        <5>. QED
          BY <2>2, <3>12, <3>13, <4>1, <5>1
      <4>2. CASE i > 1
        <5>1. PICK j \in 1..c : j = i - 1
          BY <1>1, <4>2
        <5>2. SlotOf(q, i) = c - j /\ SlotOf(r, j) = c - j /\ c - j # c /\ c - j \in 0..(H - 1)
          BY <1>1, <2>3, <2>4, <3>1, <3>8, <5>1
        <5>3. q.hist[c - j] = r.hist[c - j]
          BY <3>12, <3>13, <5>2
        <5>4. k[i] = lines[j]
          <6>1. j \in 1..n /\ i = j + 1
            BY <1>1, <2>7, <2>4, <5>1
          <6>. QED
            BY <2>2, <6>1
        <5>. QED
          BY <1>2, <5>1, <5>2, <5>3, <5>4
      <4>. QED
        BY <4>1, <4>2
    <3>10. RingOK(q, k)
      BY <1>1, <2>7, <2>2, <2>4, <3>1, <3>12, <3>9 DEF RingOK
    <3>. QED
      BY <1>2, <2>2, <3>10, <3>12 DEF q, k
  <2>5. CASE c = H
    <3>. DEFINE q == HistoryPush(r, s)
                g == IF h + 1 < H THEN h + 1 ELSE 0
    <3>1. h + 1 \in 0..(2 * H - 1)
      BY <1>1
    <3>2. (h + 1) % H = g /\ g \in 0..(H - 1)
      <4>3. PICK x \in 0..(2 * HistMax - 1) : x = h + 1
        BY <3>1
      <4>4. Wrap(x, HistMax) = IF x < HistMax THEN x ELSE x - HistMax
        BY <1>1, WrapsOnce
      <4>5. Wrap(x, HistMax) = (h + 1) % H
        BY <4>3 DEF Wrap
      <4>1. (h + 1) % H = g
        BY <1>1, <4>3, <4>4, <4>5
      <4>2. g \in 0..(H - 1)
        BY <1>1
      <4>. QED
        BY <4>1, <4>2
    <3>14. g = h + 1 \/ (g = 0 /\ h = H - 1)
      BY <1>1
    <3>. DEFINE hs == [r.hist EXCEPT ![h] = s]
    <3>. HIDE DEF g
    <3>4. q = [r EXCEPT !.hist = hs, !.head = g]
      <4>1. ~(r.count < HistMax) /\ (r.head + 1) % HistMax = g
        BY <1>1, <2>5, <3>2
      <4>. QED
        BY <1>0, <2>1, <4>1 DEF HistoryPush, Records
    <3>5. q = WithRing(r, hs, g, c)
      <4>. HIDE DEF hs, q
      <4>. QED
        BY <1>0, <3>4 DEF WithRing, Records
    <3>6. Fits(hs)
      BY <1>1 DEF GoodLine, Fits
    <3>13. hs[h] = s /\ \A i \in 0..(H - 1) : i # h => hs[i] = r.hist[i]
      BY <1>1
    <3>. HIDE DEF q, hs
    <3>12. GoodLine(q) /\ q.hist = hs /\ q.head = g /\ q.count = c
      <4>1. c \in 0..HistMax /\ r.count <= c
        BY <1>1
      <4>2. /\ GoodLine(WithRing(r, hs, g, c)) /\ WithRing(r, hs, g, c).hist = hs
            /\ WithRing(r, hs, g, c).head = g /\ WithRing(r, hs, g, c).count = c
        BY <3>2, <3>6, <4>1, WithRingIs
      <4>. QED
        BY <3>5, <4>2
    <3>7. LineOK(q)
      BY <3>12 DEF GoodLine
    <3>8. \A i \in 1..c : SlotOf(q, i) = (IF g + c - i < H THEN g + c - i ELSE g + c - i - H)
      BY <3>7, <3>12, SlotIs
    <3>9. ASSUME NEW i \in 1..c PROVE k[i] = q.hist[SlotOf(q, i)]
      <4>1. CASE i = 1
        <5>2. SlotOf(q, i) = (IF g + c - i < H THEN g + c - i ELSE g + c - i - H)
          BY <3>8
        <5>3. h \in 0..(H - 1) /\ H \in Nat /\ c = H
          BY <1>1, <2>5
        <5>1. SlotOf(q, i) = h
          BY <3>14, <4>1, <5>2, <5>3
        <5>. QED
          BY <2>2, <3>12, <3>13, <4>1, <5>1
      <4>2. CASE i > 1
        <5>1. PICK j \in 1..c : j = i - 1 /\ j < c
          BY <1>1, <4>2
        <5>5. SlotOf(q, i) = (IF g + c - i < H THEN g + c - i ELSE g + c - i - H)
          BY <3>8
        <5>6. SlotOf(r, j) = (IF h + c - j < H THEN h + c - j ELSE h + c - j - H) /\ SlotOf(r, j) \in 0..(H - 1)
          BY <2>3
        <5>7. h \in 0..(H - 1) /\ H \in Nat /\ c = H
          BY <1>1, <2>5
        <5>2. SlotOf(q, i) = SlotOf(r, j) /\ SlotOf(r, j) # h /\ SlotOf(r, j) \in 0..(H - 1)
          BY <3>14, <5>1, <5>5, <5>6, <5>7
        <5>3. q.hist[SlotOf(r, j)] = r.hist[SlotOf(r, j)]
          BY <3>12, <3>13, <5>2
        <5>4. k[i] = lines[j]
          <6>1. j \in 1..n /\ i = j + 1
            BY <1>1, <2>7, <2>5, <5>1
          <6>. QED
            BY <2>2, <6>1
        <5>. QED
          BY <1>2, <5>1, <5>2, <5>3, <5>4
      <4>. QED
        BY <4>1, <4>2
    <3>10. RingOK(q, k)
      <4>1. Len(k) = c
        BY <1>1, <2>7, <2>2, <2>5
      <4>. QED
        BY <2>2, <2>5, <3>9, <3>12, <4>1 DEF RingOK
    <3>. QED
      BY <1>2, <2>2, <3>10, <3>12 DEF q, k
  <2>6. c < H \/ c = H
    BY <1>1
  <2>. HIDE DEF h, c, H
  <2>. QED
    BY <2>4, <2>5, <2>6
<1>. QED
  BY <1>5, <1>6

-----------------------------------------------------------------------------
(* The editor *)

RlInv == GoodLine(rl) /\ RingOK(rl, pushed)

\* The editor starts with an empty line and an empty history.
LEMMA RlInitInv == ReadlineInit => RlInv /\ Before = <<>> /\ After = <<>>
<1>. SUFFICES ASSUME ReadlineInit PROVE RlInv /\ Before = <<>> /\ After = <<>>
  OBVIOUS
<1>1. BufSize \in Nat /\ BufSize > 1 /\ HistMax \in Nat /\ HistMax > 0
  BY ReadlineAssumption
<1>2. rl \in Records
  <2>1. Nul \in Chars /\ 0 \in 0..(BufSize - 1) /\ 0 \in 0..(HistMax - 1) /\ -1 \in -1..(HistMax - 1) /\ 0 \in 0..HistMax
    BY <1>1 DEF Chars
  <2>2. <<>> \in Seq(Chars)
    OBVIOUS
  <2>. QED
    BY <2>1, <2>2 DEF ReadlineInit, Records
<1>3. rl.len = 0 /\ rl.cursor = 0 /\ rl.idx = -1 /\ rl.count = 0 /\ rl.head = 0 /\ \A i \in 0..(HistMax - 1) : rl.hist[i] = <<>>
  BY DEF ReadlineInit
<1>4. LineOK(rl)
  BY <1>2, <1>3 DEF LineOK
<1>5. GoodLine(rl)
  BY <1>1, <1>3, <1>4 DEF GoodLine
<1>6. RingOK(rl, pushed)
  BY <1>3 DEF RingOK, ReadlineInit
<1>7. Len(Left(rl)) = 0 /\ Len(Right(rl)) = 0 /\ Left(rl) \in Seq(Chars) /\ Right(rl) \in Seq(Chars)
  BY <1>3, <1>4, ViewIs
<1>8. Left(rl) = <<>> /\ Right(rl) = <<>>
  BY <1>7, EmptySeq
<1>. QED
  BY <1>5, <1>6, <1>8 DEF RlInv, Before, After, Left, Right

\* A key keeps the invariant and does to the line what the editor does.
LEMMA ReadCharEdits ==
    ASSUME RlInv, NEW c \in Typing, ReadChar(c)
    PROVE  RlInv' /\ Editor!EditorNext
<1>1. GoodLine(rl) /\ RingOK(rl, pushed) /\ LineOK(rl)
  BY DEF RlInv, GoodLine
<1>2. Before = Left(rl) /\ After = Right(rl) /\ Before' = Left(rl') /\ After' = Right(rl')
  BY DEF Before, After, Left, Right
<1>3. rl' = Typed(rl, c)
  BY DEF ReadChar
<1>4. CASE ~(rl.esc = 0 /\ c = "enter")
  <2>1. pushed' = pushed
    BY <1>4 DEF ReadChar, Enters
  <2>2. Edits(rl, rl')
    BY <1>1, <1>3, <1>4, KeyEdits
  <2>3. RlInv'
    BY <1>1, <2>1, <2>2 DEF RlInv, Edits, SameHistory, RingOK, SlotOf
  <2>4. \/ Left(rl') \o Right(rl') = Left(rl) \o Right(rl)
        \/ Left(rl) # <<>> /\ Left(rl') = SubSeq(Left(rl), 1, Len(Left(rl)) - 1) /\ Right(rl') = Right(rl)
        \/ Right(rl) # <<>> /\ Right(rl') = Tail(Right(rl)) /\ Left(rl') = Left(rl)
        \/ (\E i \in 0..(rl.count - 1) : Left(rl') = rl.hist[i]) /\ Right(rl') = <<>>
        \/ Left(rl') = <<>> /\ Right(rl') = <<>>
        \/ /\ Len(Left(rl)) + Len(Right(rl)) < BufSize - 1
           /\ \E l \in Letters : Left(rl') = Append(Left(rl), l)
           /\ Right(rl') = Right(rl)
    BY <2>2 DEF Edits
  <2>5. CASE Left(rl') \o Right(rl') = Left(rl) \o Right(rl)
    <3>1. Editor!Move
      BY <1>2, <2>1, <2>5 DEF Editor!Move
    <3>. QED
      BY <2>3, <3>1 DEF Editor!EditorNext
  <2>6. CASE Left(rl) # <<>> /\ Left(rl') = SubSeq(Left(rl), 1, Len(Left(rl)) - 1) /\ Right(rl') = Right(rl)
    <3>1. Editor!EraseLeft
      BY <1>2, <2>1, <2>6 DEF Editor!EraseLeft
    <3>. QED
      BY <2>3, <3>1 DEF Editor!EditorNext
  <2>7. CASE Right(rl) # <<>> /\ Right(rl') = Tail(Right(rl)) /\ Left(rl') = Left(rl)
    <3>1. Editor!EraseRight
      BY <1>2, <2>1, <2>7 DEF Editor!EraseRight
    <3>. QED
      BY <2>3, <3>1 DEF Editor!EditorNext
  <2>8. CASE (\E i \in 0..(rl.count - 1) : Left(rl') = rl.hist[i]) /\ Right(rl') = <<>>
    <3>1. PICK i \in 0..(rl.count - 1) : Left(rl') = rl.hist[i]
      BY <2>8
    <3>2. \E j \in DOMAIN pushed : pushed[j] = rl.hist[i]
      BY <1>1, RecalledWasEntered
    <3>3. \E j \in DOMAIN pushed : Before' = pushed[j]
      BY <1>2, <3>1, <3>2
    <3>4. Editor!Recall
      BY <1>2, <2>1, <2>8, <3>3 DEF Editor!Recall
    <3>. QED
      BY <2>3, <3>4 DEF Editor!EditorNext
  <2>9. CASE Left(rl') = <<>> /\ Right(rl') = <<>>
    <3>1. Editor!Clear
      BY <1>2, <2>1, <2>9 DEF Editor!Clear
    <3>. QED
      BY <2>3, <3>1 DEF Editor!EditorNext
  <2>10. CASE /\ Len(Left(rl)) + Len(Right(rl)) < BufSize - 1
              /\ \E l \in Letters : Left(rl') = Append(Left(rl), l)
              /\ Right(rl') = Right(rl)
    <3>1. \E l \in Letters : Editor!InsertAt(l)
      BY <1>2, <2>1, <2>10 DEF Editor!InsertAt
    <3>. QED
      BY <2>3, <3>1 DEF Editor!EditorNext
  <2>. QED
    BY <2>4, <2>5, <2>6, <2>7, <2>8, <2>9, <2>10
<1>5. CASE rl.esc = 0 /\ c = "enter"
  <2>. DEFINE s == TextOf(rl)
              q == HistoryPush(rl, s)
  <2>1. rl' = StartLine(q)
    <3>1. rl.esc # 1 /\ rl.esc # 2 /\ c # "esc" /\ c # "^C" /\ c # "backspace" /\ c \notin Sentinels
      BY <1>5 DEF Sentinels
    <3>. QED
      BY <1>3, <1>5, <3>1 DEF Typed
  <2>2. s \in Seq(Chars) /\ Len(s) = rl.len /\ rl.len \in 0..(BufSize - 1) /\ s = Left(rl) \o Right(rl)
    BY <1>1, TextIs, ViewIs DEF LineOK, Records
  <2>3. /\ GoodLine(q) /\ RingOK(q, pushed')
        /\ \/ pushed' = pushed
           \/ \E n \in 0..Len(pushed) : pushed' = <<s>> \o SubSeq(pushed, 1, n)
    <3>1. CASE rl.len = 0
      <4>1. s = <<>> /\ pushed' = pushed
        BY <1>5, <2>2, <3>1, EmptySeq DEF ReadChar, Enters
      <4>2. q = rl
        BY <4>1 DEF HistoryPush
      <4>. QED
        BY <1>1, <4>1, <4>2
    <3>2. CASE rl.len > 0
      <4>1. s # <<>> /\ Len(s) < BufSize
        BY <2>2, <3>2, ReadlineAssumption
      <4>2. pushed' = Kept(pushed, s)
        BY <1>5, <3>2 DEF ReadChar, Enters
      <4>3. s \in Seq(Chars)
        BY <2>2
      <4>. HIDE DEF s, q
      <4>4. /\ GoodLine(HistoryPush(rl, s)) /\ RingOK(HistoryPush(rl, s), Kept(pushed, s))
            /\ \/ pushed # <<>> /\ Head(pushed) = s /\ Kept(pushed, s) = pushed
               \/ \E n \in 0..Len(pushed) : Kept(pushed, s) = <<s>> \o SubSeq(pushed, 1, n)
        BY <1>1, <4>1, <4>3, PushIs
      <4>. QED
        BY <4>2, <4>4 DEF q
    <3>3. rl.len = 0 \/ rl.len > 0
      BY <2>2
    <3>. HIDE DEF s, q
    <3>. QED
      BY <3>1, <3>2, <3>3
  <2>. HIDE DEF q
  <2>4. GoodLine(rl') /\ SameHistory(q, rl') /\ Left(rl') = <<>> /\ Right(rl') = <<>>
    BY <2>1, <2>3, StartEdits
  <2>5. RlInv'
    BY <2>3, <2>4 DEF RlInv, SameHistory, RingOK, SlotOf
  <2>6. CASE pushed' = pushed
    <3>1. Editor!Clear
      BY <1>2, <2>4, <2>6 DEF Editor!Clear
    <3>. QED
      BY <2>5, <3>1 DEF Editor!EditorNext
  <2>7. CASE \E n \in 0..Len(pushed) : pushed' = <<s>> \o SubSeq(pushed, 1, n)
    <3>1. Editor!Enter
      BY <1>2, <2>2, <2>4, <2>7 DEF Editor!Enter
    <3>. QED
      BY <2>5, <3>1 DEF Editor!EditorNext
  <2>. QED
    BY <2>3, <2>6, <2>7
<1>. QED
  BY <1>4, <1>5

\* The line editor of readline.c, with its array, cursor and ring, is the editor
\* its user sees: no key changes the line but at the cursor, and what a recall
\* shows was entered.
THEOREM ReadlineIsEditor == ReadlineSpec => ImplementsEditor
<1>1. ReadlineInit => RlInv /\ Editor!EditorInit
  <2>1. ASSUME ReadlineInit PROVE Before = <<>> /\ After = <<>> /\ pushed = <<>> /\ RlInv
    BY <2>1, RlInitInv DEF ReadlineInit
  <2>. QED
    BY <2>1 DEF Editor!EditorInit
<1>2. RlInv /\ [ReadlineNext]_readlineVars => RlInv' /\ [Editor!EditorNext]_(Editor!editorVars)
  <2>1. ASSUME RlInv, ReadlineNext PROVE RlInv' /\ Editor!EditorNext
    BY <2>1, ReadCharEdits DEF ReadlineNext
  <2>2. ASSUME RlInv, UNCHANGED readlineVars PROVE RlInv' /\ UNCHANGED Editor!editorVars
    <3>1. rl' = rl /\ pushed' = pushed
      BY <2>2 DEF readlineVars
    <3>. QED
      BY <2>2, <3>1 DEF RlInv, Editor!editorVars, Before, After
  <2>. QED
    BY <2>1, <2>2
<1>. QED
  BY <1>1, <1>2, PTL DEF ReadlineSpec, ImplementsEditor, Editor!EditorSpec

-----------------------------------------------------------------------------
(* The jobs of the shell. Four steps take a job off the table: the reaping *)
(* before a prompt, fg that waits for its processes one after the other, ^C*)
(* and the command line itself.                                            *)

\* The shell's record has its fields, whatever is in those that the table of
\* jobs does not depend on.
ShellRecord ==
    sh = [at |-> sh.at, fds |-> sh.fds, line |-> sh.line, seg |-> sh.seg, pids |-> sh.pids, i |-> sh.i,
          prev |-> sh.prev, job |-> sh.job, script |-> sh.script, rest |-> sh.rest]

JobTypes ==
    /\ ShellRecord
    /\ sh.pids \in Seq(Nat) /\ sh.i \in Nat
    /\ jobs \in [1..JobMax -> Seq(Nat)]

\* What fg waits for is the job, and the processes it has passed are gone.
FgJob ==
    sh.at = "fg" =>
        /\ sh.job \in 1..JobMax
        /\ sh.pids = jobs[sh.job]
        /\ sh.i > 0
        /\ \A k \in DOMAIN sh.pids : k < sh.i => Done(sh.pids[k])

JobInv == JobTypes /\ FgJob

JobEnds ==
    \A j \in 1..JobMax :
        (jobs[j] # Unused /\ jobs'[j] = Unused) => \A i \in DOMAIN jobs[j] : jobs[j][i] \notin DOMAIN kids'

\* What every step does to the jobs.
JobStep == JobInv' /\ JobEnds

\* Before a prompt the shell reaps the jobs whose processes are gone (job_reap).
LEMMA BackToPromptStep ==
    ASSUME JobInv, NEW s, BackToPrompt(s), UNCHANGED kids,
           s = [at |-> s.at, fds |-> s.fds, line |-> s.line, seg |-> s.seg, pids |-> s.pids, i |-> s.i,
                prev |-> s.prev, job |-> s.job, script |-> s.script, rest |-> s.rest]
    PROVE  JobStep
<1>1. ShellRecord' /\ sh'.at = "prompt" /\ sh'.pids = <<>> /\ sh'.i = 0
  BY DEF BackToPrompt, ShellRecord
<1>2. <<>> \in Seq(Nat) /\ Unused \in Seq(Nat)
  BY DEF Unused
<1>3. CASE UNCHANGED jobs
  BY <1>1, <1>2, <1>3 DEF JobStep, JobInv, JobTypes, FgJob, JobEnds
<1>4. CASE JobReap
  <2>1. jobs' \in [1..JobMax -> Seq(Nat)]
    BY <1>2, <1>4 DEF JobReap, JobInv, JobTypes
  <2>2. JobEnds
    BY <1>4 DEF JobReap, JobEnds, JobDone, Done, JobInv, JobTypes
  <2>. QED
    BY <1>1, <1>2, <2>1, <2>2 DEF JobStep, JobInv, JobTypes, FgJob
<1>. QED
  BY <1>3, <1>4 DEF BackToPrompt

\* Where the table and the processes stay, nothing is to be shown.
LEMMA SameJobs ==
    ASSUME JobInv, ShellRecord', UNCHANGED jobs, sh'.at # "fg",
           sh'.pids \in Seq(Nat), sh'.i \in Nat
    PROVE  JobStep
BY DEF JobStep, JobInv, JobTypes, FgJob, JobEnds

\* The command line that is read next may be fg.
LEMMA DispatchStep ==
    ASSUME JobInv, NEW line, NEW rest, Dispatch(line, rest), UNCHANGED kids
    PROVE  JobStep
<1>. DEFINE s == [sh EXCEPT !.rest = rest]
<1>1. s = [at |-> s.at, fds |-> s.fds, line |-> s.line, seg |-> s.seg, pids |-> s.pids, i |-> s.i,
           prev |-> s.prev, job |-> s.job, script |-> s.script, rest |-> s.rest]
  BY DEF JobInv, JobTypes, ShellRecord
<1>2. CASE BackToPrompt(s)
  <2>. HIDE DEF s
  <2>. QED
    BY <1>1, <1>2, BackToPromptStep
<1>3. ASSUME NEW j \in UsedJobs,
             sh' = [sh EXCEPT !.at = "fg", !.job = j, !.pids = jobs[j], !.i = 1, !.rest = rest],
             UNCHANGED jobs
      PROVE  JobStep
  <2>1. j \in 1..JobMax /\ jobs[j] \in Seq(Nat)
    BY DEF UsedJobs, JobInv, JobTypes
  <2>2. /\ ShellRecord' /\ sh'.at = "fg" /\ sh'.job = j /\ sh'.pids = jobs[j] /\ sh'.i = 1
    BY <1>3 DEF ShellRecord, JobInv, JobTypes
  <2>3. \A k \in DOMAIN jobs[j] : ~(k < 1)
    BY <2>1
  <2>. QED
    BY <1>3, <2>1, <2>2, <2>3 DEF JobStep, JobInv, JobTypes, FgJob, JobEnds
<1>4. CASE sh' = [sh EXCEPT !.at = "segment", !.line = line, !.seg = 1, !.pids = <<>>, !.prev = NoFile, !.rest = rest]
           /\ UNCHANGED jobs
  <2>1. ShellRecord' /\ sh'.at # "fg" /\ sh'.pids = <<>> /\ sh'.i = sh.i
    BY <1>4 DEF ShellRecord, JobInv, JobTypes
  <2>. QED
    BY <1>4, <2>1, SameJobs DEF JobInv, JobTypes
<1>. QED
  BY <1>2, <1>3, <1>4 DEF Dispatch

\* What is forked for a command line is no job yet.
LEMMA ForkStep ==
    ASSUME JobInv, NEW t, NEW r, NEW w, Fork(t, r, w), UNCHANGED jobs
    PROVE  JobStep
<1>1. ASSUME NEW pids \in Seq(Nat), Advance(t, r, w, pids) PROVE JobStep
  <2>1. ShellRecord' /\ sh'.at # "fg" /\ sh'.pids = pids /\ sh'.i = sh.i
    BY <1>1 DEF Advance, ShellRecord, JobInv, JobTypes
  <2>. QED
    BY <1>1, <2>1, SameJobs DEF JobInv, JobTypes
<1>2. CASE FreePids # {} /\ Advance(t, r, w, Append(sh.pids, Min(FreePids)))
  <2>1. FreePids \subseteq Nat
    BY ShellAssumption DEF FreePids
  <2>2. Min(FreePids) \in Nat
    BY <1>2, <2>1, MinOfNats
  <2>3. Append(sh.pids, Min(FreePids)) \in Seq(Nat)
    BY <2>2 DEF JobInv, JobTypes
  <2>. QED
    BY <1>1, <1>2, <2>3
<1>3. CASE Advance(t, r, w, sh.pids)
  BY <1>1, <1>3 DEF JobInv, JobTypes
<1>. QED
  BY <1>2, <1>3 DEF Fork

\* Every step of the shell and of its children.
LEMMA ShellStepInv == JobInv /\ ShellNext => JobStep
<1>. SUFFICES ASSUME JobInv, ShellNext PROVE JobStep
  OBVIOUS
<1>. USE DEF JobInv, JobTypes
<1>1. CASE InterruptPrompt
  <2>1. BackToPrompt(sh) /\ UNCHANGED kids /\ ShellRecord
    BY <1>1 DEF InterruptPrompt
  <2>. QED
    BY <2>1, BackToPromptStep DEF ShellRecord
<1>2. ASSUME NEW line \in Lines, TypeLine(line) PROVE JobStep
  BY <1>2, DispatchStep DEF TypeLine
<1>3. CASE ScriptLine
  BY <1>3, DispatchStep DEF ScriptLine
<1>4. ASSUME Leave PROVE JobStep
  <2>1. ShellRecord' /\ sh'.at # "fg" /\ sh'.pids = sh.pids /\ sh'.i = sh.i /\ UNCHANGED jobs
    BY <1>4 DEF Leave, ShellRecord
  <2>. QED
    BY <2>1, SameJobs
<1>5. CASE EmptySegment
  <2>1. ShellRecord' /\ sh'.at # "fg" /\ sh'.pids = sh.pids /\ sh'.i = sh.i /\ UNCHANGED jobs
    BY <1>5 DEF EmptySegment, ShellRecord
  <2>. QED
    BY <2>1, SameJobs
<1>6. CASE GiveUp
  <2>. DEFINE s == [sh EXCEPT !.fds = CloseIn(@, sh.prev)]
  <2>1. BackToPrompt(s) /\ UNCHANGED kids
    BY <1>6 DEF GiveUp
  <2>2. s = [at |-> s.at, fds |-> s.fds, line |-> s.line, seg |-> s.seg, pids |-> s.pids, i |-> s.i,
             prev |-> s.prev, job |-> s.job, script |-> s.script, rest |-> s.rest]
    BY DEF ShellRecord
  <2>. HIDE DEF s
  <2>. QED
    BY <2>1, <2>2, BackToPromptStep
<1>7. CASE RunInProcess
  <2>1. CASE Leave
    BY <1>4, <2>1
  <2>2. CASE ~Leave
    <3>1. ShellRecord' /\ sh'.at # "fg" /\ sh'.pids = sh.pids /\ sh'.i = sh.i /\ UNCHANGED jobs
      BY <1>7, <2>2 DEF RunInProcess, ShellRecord
    <3>. QED
      BY <3>1, SameJobs
  <2>. QED
    BY <2>1, <2>2
<1>8. CASE ForkSegment
  BY <1>8, ForkStep DEF ForkSegment
<1>9. CASE Spawned
  <2>0. UNCHANGED jobs \/ JobAdd(sh.pids)
    BY <1>9, Zenon DEF Spawned
  <2>1. /\ ShellRecord' /\ sh'.at # "fg" /\ sh'.pids = sh.pids /\ sh'.i \in Nat
        /\ UNCHANGED jobs \/ JobAdd(sh.pids)
    <3>1. CASE sh.line.bg
      BY <1>9, <2>0, <3>1 DEF Spawned, ShellRecord
    <3>2. CASE ~sh.line.bg
      <4>1. sh' = [sh EXCEPT !.fds = CloseIn(@, sh.prev), !.prev = NoFile, !.at = "wait", !.i = 1]
        BY <1>9, <3>2, Zenon DEF Spawned
      <4>2. ShellRecord' /\ sh'.at = "wait" /\ sh'.pids = sh.pids /\ sh'.i = 1
        BY <4>1 DEF ShellRecord
      <4>. QED
        BY <2>0, <4>2
    <3>. QED
      BY <3>1, <3>2
  <2>2. CASE UNCHANGED jobs
    BY <2>1, <2>2, SameJobs
  <2>3. CASE jobs' # jobs
    <3>. DEFINE free == (1..JobMax) \ UsedJobs
                m == Min(free)
    <3>1. free # {} /\ free \subseteq Nat
      BY <2>1, <2>3 DEF JobAdd, UsedJobs
    <3>2. m \in free
      <4>. HIDE DEF free
      <4>. QED
        BY <3>1, MinOfNats
    <3>. HIDE DEF m
    <3>3. jobs' = [jobs EXCEPT ![m] = sh.pids]
      BY <2>1, <2>3 DEF JobAdd, m
    <3>4. m \in 1..JobMax /\ jobs[m] = Unused
      BY <3>2 DEF UsedJobs
    <3>. QED
      BY <2>1, <3>3, <3>4 DEF JobStep, FgJob, JobEnds
  <2>. QED
    BY <2>2, <2>3
<1>10. CASE LineDone
  <2>1. BackToPrompt(sh) /\ UNCHANGED kids /\ ShellRecord
    BY <1>10 DEF LineDone
  <2>. QED
    BY <2>1, BackToPromptStep DEF ShellRecord
<1>11. CASE WaitNext
  <2>1. /\ ShellRecord' /\ sh'.at = sh.at /\ sh'.pids = sh.pids /\ sh'.i = sh.i + 1 /\ sh'.job = sh.job
        /\ UNCHANGED <<jobs, kids>> /\ Done(sh.pids[sh.i])
    BY <1>11 DEF WaitNext, ShellRecord
  <2>2. FgJob'
    <3>1. \A k \in DOMAIN sh.pids : k < sh.i + 1 => k < sh.i \/ k = sh.i
      OBVIOUS
    <3>. QED
      BY <2>1, <3>1 DEF FgJob, Done
  <2>. QED
    BY <2>1, <2>2 DEF JobStep, JobEnds
<1>12. ASSUME EndOfWait(sh),
              sh.at = "fg" => \A k \in DOMAIN sh.pids : sh.pids[k] \notin DOMAIN kids'
       PROVE  JobStep
  <2>1. ShellRecord' /\ sh'.at # "fg" /\ sh'.pids = sh.pids /\ sh'.i = sh.i
    BY <1>12 DEF EndOfWait, ShellRecord
  <2>2. CASE sh.at = "fg"
    <3>1. jobs' = [jobs EXCEPT ![sh.job] = Unused] /\ Unused \in Seq(Nat)
      BY <1>12, <2>2 DEF EndOfWait, Unused
    <3>2. sh.job \in 1..JobMax /\ sh.pids = jobs[sh.job]
      BY <2>2 DEF FgJob
    <3>. QED
      BY <1>12, <2>1, <2>2, <3>1, <3>2 DEF JobStep, FgJob, JobEnds
  <2>3. CASE sh.at # "fg"
    BY <1>12, <2>1, <2>3, SameJobs DEF EndOfWait
  <2>. QED
    BY <2>2, <2>3
<1>13. CASE Waited
  <2>1. sh.at = "fg" => \A k \in DOMAIN sh.pids : sh.pids[k] \notin DOMAIN kids'
    <3>1. \A k \in DOMAIN sh.pids : k < sh.i
      BY <1>13 DEF Waited
    <3>. QED
      BY <1>13, <3>1 DEF Waited, FgJob, Done
  <2>. QED
    BY <1>12, <1>13, <2>1 DEF Waited
<1>14. CASE WaitInterrupted
  <2>. DEFINE rest == SubSeq(sh.pids, sh.i, Len(sh.pids))
  <2>1. DOMAIN kids' = DOMAIN kids \ ToSet(rest)
    BY <1>14 DEF WaitInterrupted, Restrict
  <2>2. sh.at = "fg" => \A k \in DOMAIN sh.pids : sh.pids[k] \notin DOMAIN kids'
    <3>. SUFFICES ASSUME sh.at = "fg", NEW k \in DOMAIN sh.pids PROVE sh.pids[k] \notin DOMAIN kids'
      OBVIOUS
    <3>1. CASE k < sh.i
      BY <2>1, <3>1 DEF FgJob, Done
    <3>2. CASE k >= sh.i
      <4>1. /\ k - sh.i + 1 \in DOMAIN rest
            /\ rest[k - sh.i + 1] = sh.pids[k]
        <5>1. sh.i > 0 /\ k \in 1..Len(sh.pids) /\ Len(rest) = Len(sh.pids) - sh.i + 1
          BY <1>14, SMTT(40) DEF FgJob, WaitInterrupted
        <5>2. k - sh.i + 1 \in 1..Len(rest) /\ sh.i + (k - sh.i + 1) - 1 = k
          BY <3>2, <5>1
        <5>3. DOMAIN rest = 1..Len(rest) /\ \A n \in 1..Len(rest) : rest[n] = sh.pids[sh.i + n - 1]
          BY <5>1
        <5>. QED
          BY <5>2, <5>3
      <4>2. sh.pids[k] \in ToSet(rest)
        BY <4>1, Zenon DEF ToSet
      <4>. QED
        BY <2>1, <4>2
    <3>. QED
      BY <3>1, <3>2
  <2>. QED
    BY <1>12, <1>14, <2>2 DEF WaitInterrupted
<1>15. ASSUME NEW p \in DOMAIN kids, ChildStart(p) \/ ChildExit(p) PROVE JobStep
  <2>1. UNCHANGED <<sh, jobs>> /\ DOMAIN kids' \subseteq DOMAIN kids
    BY <1>15 DEF ChildStart, ChildExit, Restrict
  <2>. QED
    BY <2>1 DEF JobStep, FgJob, JobEnds, ShellRecord, Done
<1>16. CASE ScriptEnd
  BY <1>4, <1>16 DEF ScriptEnd
<1>. QED
  BY <1>1, <1>2, <1>3, <1>5, <1>6, <1>7, <1>8, <1>9, <1>10, <1>11, <1>13, <1>14, <1>15, <1>16
     DEF ShellNext, Command, ShellStep

\* At first there are no jobs.
LEMMA JobStart == ShellInit => JobInv
BY DEF ShellInit, JobInv, JobTypes, ShellRecord, FgJob, Unused

\* What fg and ^C rely on holds in every state.
LEMMA JobInvariant == ShellSpec => []JobInv
<1>1. JobInv /\ UNCHANGED shellVars => JobInv'
  BY DEF shellVars, JobInv, JobTypes, ShellRecord, FgJob, Done
<1>2. JobInv /\ [ShellNext]_shellVars => JobInv'
  BY <1>1, ShellStepInv DEF JobStep
<1>. QED
  BY <1>2, JobStart, PTL DEF ShellSpec

\* A job leaves the table of the shell, reaped before a prompt, waited for by fg or
\* killed by ^C, only when none of its processes is left (sh.c).
THEOREM JobsEndWithProcesses == ShellSpec => JobEndsWithProcesses
<1>1. JobInv /\ [ShellNext]_shellVars => [JobEnds]_shellVars
  BY ShellStepInv DEF JobStep
<1>. QED
  BY <1>1, JobInvariant, PTL DEF ShellSpec, JobEndsWithProcesses, JobEnds

-----------------------------------------------------------------------------
(* The pipes of the shell. A child has its ends once it has taken its place*)
(* among the descriptors that fork gave it; until then, what counts is what*)
(* it will have.                                                           *)

Ends == [end : {"closed", "tty", "file", "read", "write"}, of : Nat]
PipeEnd == {e \in Ends : e.end \in {"read", "write"}}
Table == [Fd -> Ends]
Redirs == Seq({"in", "out", "err", "here", "bad"})

\* Nothing is open but the standard descriptors and those in but.
Standard(t, but) ==
    \A f \in Fd : f \in but \/ t[f] \in (IF f = 2 THEN {Tty, File} ELSE {Std[f]})

\* The shell between two segments: the end that the next child is to read from.
ShellTable ==
    /\ sh.fds \in Table
    /\ sh.at # "gone" => /\ Standard(sh.fds, {sh.prev})
                         /\ \/ sh.prev = NoFile
                            \/ sh.prev \in Fd /\ sh.prev > 2 /\ sh.fds[sh.prev].end = "read"
    /\ sh.at \notin {"segment", "spawned", "gone"} => sh.prev = NoFile
    /\ sh.at = "segment" /\ sh.seg = 1 => sh.prev = NoFile

ShellLine ==
    /\ sh.at = "segment" => sh.line \in Pipeline /\ sh.seg \in 1 .. Len(sh.line.segs)
    /\ sh.rest \in Seq(Pipeline)

\* A child that has yet to take its place has what fork gave it.
Outfitted(t, w) ==
    /\ w.redirs \in Redirs
    /\ w.prev \notin 0 .. 2 /\ w.r \notin 0 .. 2 /\ w.w \notin 0 .. 2
    /\ w.prev \in Fd => t[w.prev].end = "read"
    /\ w.w \in Fd => t[w.w].end = "write"
    /\ Standard(t, {w.prev, w.r, w.w})

KidOK(k) ==
    /\ k.fds \in Table
    /\ k.todo = <<>> \/ \E w : k.todo = <<w>> /\ Outfitted(k.fds, w)

\* The child has the end, or will have it when it has taken its place.
WillHold(k, e) ==
    \E f \in Fd : k.fds[f] = e /\ (k.todo = <<>> \/ f \in {Head(k.todo).prev, Head(k.todo).w})
ShellHolds(e) == sh.prev \in Fd /\ sh.fds[sh.prev] = e

OneHolder ==
    \A e \in PipeEnd :
        /\ \A p, q \in DOMAIN kids : WillHold(kids[p], e) /\ WillHold(kids[q], e) => p = q
        /\ \A p \in DOMAIN kids : ~(WillHold(kids[p], e) /\ ShellHolds(e))

ChildrenOK == \A p \in DOMAIN kids : KidOK(kids[p])

ShellInv == ShellRecord /\ ShellTable /\ ShellLine /\ ChildrenOK /\ OneHolder

\* Descriptors.
LEMMA FdFacts ==
    /\ Fd \subseteq Nat /\ IsFiniteSet(Fd) /\ NoFile \notin Fd /\ {0, 1, 2} \subseteq Fd
    /\ SaveAt(0) \in Fd /\ SaveAt(1) \in Fd /\ SaveAt(2) \notin Fd
    /\ SaveAt(0) > 2 /\ SaveAt(1) > 2 /\ SaveAt(0) # SaveAt(1)
    /\ NoFile > 2
<1>1. FdMax \in Nat /\ FdMax > 5
  BY ShellAssumption
<1>2. IsFiniteSet(Fd)
  BY <1>1, FS_Interval DEF Fd
<1>. QED
  BY <1>1, <1>2 DEF Fd, NoFile, SaveAt

LEMMA EndFacts ==
    /\ Closed \in Ends /\ Tty \in Ends /\ File \in Ends
    /\ \A n \in Nat : ReadEnd(n) \in Ends /\ WriteEnd(n) \in Ends
    /\ \A e \in {Closed, Tty, File} : e \notin PipeEnd
    /\ Closed # Tty /\ Tty # File /\ Closed # File
    /\ \A e \in Ends : e.end \notin {"read", "write"} => e \notin PipeEnd
    /\ \A f \in Fd : Std[f] \in {Tty, Closed}
BY DEF Closed, Tty, File, ReadEnd, WriteEnd, Ends, PipeEnd, Std

\* Close and dup2.
LEMMA CloseInIs ==
    ASSUME NEW t \in Table, NEW f
    PROVE  /\ CloseIn(t, f) \in Table
           /\ \A g \in Fd : CloseIn(t, f)[g] = IF g = f THEN Closed ELSE t[g]
BY EndFacts DEF CloseIn, Table

LEMMA Dup2Is ==
    ASSUME NEW t \in Table, NEW old, NEW new \in Fd
    PROVE  /\ Dup2(t, old, new) \in Table
           /\ \A g \in Fd : Dup2(t, old, new)[g] =
                 IF g = new /\ old \in Fd /\ t[old] # Closed THEN t[old] ELSE t[g]
BY EndFacts DEF Dup2, Table

\* The pipe of a call is one that nobody has open.
LEMMA NewPipeIs ==
    ASSUME FreePipes # {}
    PROVE  NewPipe \in FreePipes /\ NewPipe \in Pipe /\ NewPipe \in Nat /\ ~InUse(NewPipe)
<1>1. FreePipes \subseteq Nat
  BY ShellAssumption DEF FreePipes
<1>2. NewPipe \in FreePipes
  BY <1>1, MinOfNats DEF NewPipe
<1>. QED
  BY <1>1, <1>2 DEF FreePipes

LEMMA TwoFree ==
    ASSUME NEW t \in Table, MayPipe(t)
    PROVE  /\ ReadFd(t) \in FdFree(t) /\ WriteFd(t) \in FdFree(t) /\ ReadFd(t) # WriteFd(t)
           /\ FdFree(t) \subseteq Fd
<1>. DEFINE free == FdFree(t)
            rest == free \ {ReadFd(t)}
<1>1. free \subseteq Fd /\ free \subseteq Nat /\ IsFiniteSet(free)
  BY FdFacts, FS_Subset DEF FdFree
<1>2. Cardinality(free) >= 2
  BY DEF MayPipe
<1>. HIDE DEF free
<1>3. free # {}
  BY <1>2, FS_EmptySet
<1>4. ReadFd(t) \in free
  BY <1>1, <1>3, MinOfNats DEF ReadFd, free
<1>5. Cardinality(rest) = Cardinality(free) - 1 /\ Cardinality(free) \in Nat
  BY <1>1, <1>4, FS_RemoveElement, FS_CardinalityType
<1>. HIDE DEF rest
<1>6. rest # {}
  BY <1>2, <1>5, FS_EmptySet
<1>7. rest \subseteq Nat
  BY <1>1 DEF rest
<1>8. WriteFd(t) \in rest
  BY <1>6, <1>7, MinOfNats DEF WriteFd, rest, free
<1>. QED
  BY <1>1, <1>4, <1>8 DEF rest, free

LEMMA ApplyRedirsIs ==
    ASSUME NEW t \in Table, NEW redirs \in Redirs, NEW good \in 0 .. Len(redirs), NEW n \in Nat
    PROVE  /\ ApplyRedirs(t, redirs, good, n) \in Table
           /\ \A f \in Fd :
                 \/ ApplyRedirs(t, redirs, good, n)[f] = t[f]
                 \/ /\ f \in Targets(redirs)
                    /\ \/ ApplyRedirs(t, redirs, good, n)[f] = File
                       \/ /\ ApplyRedirs(t, redirs, good, n)[f] = ReadEnd(n)
                          /\ f = 0 /\ \E i \in 1 .. good : redirs[i] = "here"
<1>. DEFINE a == ApplyRedirs(t, redirs, good, n)
<1>1. ASSUME NEW f \in Fd
      PROVE  \/ a[f] = t[f]
             \/ f \in Targets(redirs)
                /\ (a[f] = File \/ (a[f] = ReadEnd(n) /\ f = 0 /\ \E i \in 1 .. good : redirs[i] = "here"))
  <2>. DEFINE its == {i \in 1 .. good : Target(redirs[i]) = f}
              m == Max(its)
  <2>1. a[f] = IF its = {} THEN t[f] ELSE Redirect(redirs[m], n)
    BY DEF ApplyRedirs
  <2>2. CASE its = {}
    BY <2>1, <2>2
  <2>3. CASE its # {}
    <3>1. its \subseteq 1 .. good /\ good \in Nat
      OBVIOUS
    <3>. HIDE DEF its
    <3>2. m \in its
      <4>1. its \subseteq 0 .. good
        BY <3>1
      <4>. QED
        BY <2>3, <3>1, <4>1, MaxUpTo
    <3>. HIDE DEF m
    <3>3. m \in 1 .. good /\ Target(redirs[m]) = f /\ m \in DOMAIN redirs
      BY <3>2 DEF its, Redirs
    <3>4. f \in Targets(redirs)
      BY <3>3 DEF Targets
    <3>5. a[f] = Redirect(redirs[m], n)
      BY <2>1, <2>3
    <3>. HIDE DEF a
    <3>6. CASE redirs[m] = "here"
      BY <3>3, <3>4, <3>5, <3>6 DEF Redirect, Target
    <3>7. CASE redirs[m] # "here"
      BY <3>4, <3>5, <3>7 DEF Redirect
    <3>. QED
      BY <3>6, <3>7
  <2>. QED
    BY <2>2, <2>3
<1>2. a = [f \in Fd |-> a[f]]
  BY DEF ApplyRedirs
<1>. HIDE DEF a
<1>3. \A f \in Fd : a[f] \in Ends
  BY <1>1, EndFacts DEF Table
<1>4. a \in Table
  BY <1>2, <1>3 DEF Table
<1>. QED
  BY <1>1, <1>4 DEF a

\* A command of the shell itself gives back what it redirects, but for stderr.
LEMMA GivenBack ==
    ASSUME NEW t \in Table, Standard(t, {NoFile}), NEW redirs \in Redirs,
           NEW good \in 0 .. Len(redirs), NEW n \in Nat
    PROVE  LET r == Restored(ApplyRedirs(Saved(t, Targets(redirs)), redirs, good, n), Targets(redirs))
           IN  r \in Table /\ Standard(r, {NoFile})
<1>. DEFINE T == Targets(redirs)
            sv == Saved(t, T)
            a == ApplyRedirs(sv, redirs, good, n)
            r == Restored(a, T)
<1>1. T \subseteq {0, 1, 2}
  BY DEF Targets, Target
<1>2. \A f \in Fd : t[f] \in (IF f = 2 THEN {Tty, File} ELSE {Std[f]})
  BY FdFacts DEF Standard
<1>3. t[0] = Tty /\ t[1] = Tty /\ t[2] \in {Tty, File} /\ \A f \in Fd : f > 2 => t[f] = Closed
  <2>1. \A f \in Fd : f \in Nat /\ Std[f] = IF f < 3 THEN Tty ELSE Closed
    BY FdFacts DEF Std
  <2>2. 0 \in Fd /\ 1 \in Fd /\ 2 \in Fd
    BY FdFacts
  <2>5. \A f \in Fd : (f = 2 => t[f] \in {Tty, File}) /\ (f # 2 => t[f] = Std[f])
    BY <1>2
  <2>3. t[0] = Tty /\ t[1] = Tty /\ t[2] \in {Tty, File}
    BY <2>1, <2>2, <2>5
  <2>4. \A f \in Fd : f > 2 => t[f] = Closed
    BY <2>1, <2>5
  <2>. QED
    BY <2>3, <2>4
<1>. HIDE DEF T
<1>4. sv = [f \in Fd |-> sv[f]]
  BY DEF Saved
<1>5. /\ 0 \in T => sv[SaveAt(0)] = Tty
      /\ 1 \in T => sv[SaveAt(1)] = Tty
      /\ \A f \in Fd : (\A g \in T : f # SaveAt(g)) => sv[f] = t[f]
  <2>1. FdMax \in Nat /\ SaveAt(0) - (FdMax - 2) = 0 /\ SaveAt(1) - (FdMax - 2) = 1
    BY ShellAssumption DEF SaveAt
  <2>. QED
    BY <1>3, <2>1, FdFacts DEF Saved
<1>. HIDE DEF sv
<1>6. \A f \in Fd : \/ \A g \in T : f # SaveAt(g)
                    \/ f = SaveAt(0) /\ 0 \in T
                    \/ f = SaveAt(1) /\ 1 \in T
  BY <1>1, FdFacts
<1>7. \A f \in Fd : sv[f] \in Ends
  BY <1>5, <1>6, EndFacts DEF Table
<1>8. sv \in Table
  BY <1>4, <1>7 DEF Table
<1>9. /\ a \in Table
      /\ \A f \in Fd : f \notin T => a[f] = sv[f]
      /\ a[2] \in {sv[2], File}
  <2>1. 2 \in Fd
    BY FdFacts
  <2>. QED
    BY <1>8, <2>1, ApplyRedirsIs DEF T
<1>. HIDE DEF a
<1>10. \A g \in {0, 1, 2} : \A h \in T : g # SaveAt(h)
  BY <1>1, ShellAssumption DEF SaveAt
<1>11. r = [f \in Fd |-> r[f]]
  BY DEF Restored
<1>12. ASSUME NEW f \in Fd
       PROVE  r[f] \in (IF f = 2 THEN {Tty, File} ELSE {Std[f]})
  <2>1. r[f] = IF \E g \in T : f = SaveAt(g) THEN Closed
               ELSE IF f \in T /\ SaveAt(f) \in Fd /\ a[SaveAt(f)] # Closed THEN a[SaveAt(f)] ELSE a[f]
    BY DEF Restored
  <2>. HIDE DEF r
  <2>2. CASE \E g \in T : f = SaveAt(g)
    <3>1. f > 2 /\ f \in Nat
      BY <1>1, <2>2, FdFacts
    <3>. QED
      BY <2>1, <2>2, <3>1 DEF Std
  <2>3. CASE ~\E g \in T : f = SaveAt(g)
    <3>1. CASE f = 2
      BY <1>3, <1>5, <1>9, <2>1, <2>3, <3>1, FdFacts
    <3>2. CASE f > 2
      <4>0. f \notin T
        <5>1. f \in Nat /\ f # 0 /\ f # 1 /\ f # 2
          BY <3>2, FdFacts
        <5>. QED
          BY <1>1, <5>1
      <4>1. f \notin T /\ r[f] = a[f] /\ a[f] = sv[f] /\ sv[f] = t[f]
        BY <1>5, <1>9, <2>1, <2>3, <4>0
      <4>. QED
        BY <1>2, <3>2, <4>1
    <3>3. CASE f \in {0, 1} /\ f \notin T
      <4>1. r[f] = a[f] /\ a[f] = sv[f] /\ sv[f] = t[f]
        BY <1>5, <1>9, <2>1, <2>3, <3>3
      <4>. QED
        BY <1>2, <3>3, <4>1
    <3>4. CASE f \in {0, 1} /\ f \in T
      <4>1. SaveAt(f) \in Fd /\ SaveAt(f) \notin T /\ sv[SaveAt(f)] = Tty
        <5>1. \A g \in T : ~(g > 2)
          BY <1>1
        <5>2. CASE f = 0
          BY <1>5, <3>4, <5>1, <5>2, FdFacts
        <5>3. CASE f = 1
          BY <1>5, <3>4, <5>1, <5>3, FdFacts
        <5>. QED
          BY <3>4, <5>2, <5>3
      <4>2. a[SaveAt(f)] = Tty
        BY <1>9, <4>1
      <4>. QED
        BY <2>1, <2>3, <3>4, <4>1, <4>2, EndFacts DEF Std
    <3>. QED
      BY <3>1, <3>2, <3>3, <3>4, FdFacts
  <2>. QED
    BY <2>2, <2>3
<1>. HIDE DEF r
<1>13. \A f \in Fd : r[f] \in Ends
  BY <1>12, EndFacts
<1>14. r \in Table /\ Standard(r, {NoFile})
  BY <1>11, <1>12, <1>13 DEF Table, Standard
<1>. QED
  BY <1>14 DEF r, a, sv, T

LEMMA StandardIs ==
    ASSUME NEW t, NEW but, Standard(t, but)
    PROVE  \A f \in Fd : f \notin but =>
              /\ f = 2 => t[f] \in {Tty, File}
              /\ f # 2 => t[f] = Std[f]
              /\ f > 2 => t[f] = Closed
<1>1. \A f \in Fd : f \in Nat /\ (f > 2 => Std[f] = Closed)
  BY FdFacts DEF Std
<1>2. \A f \in Fd : f \notin but => (f = 2 => t[f] \in {Tty, File}) /\ (f # 2 => t[f] = Std[f])
  BY DEF Standard
<1>3. ASSUME NEW f \in Fd, f \notin but, f > 2 PROVE t[f] = Closed
  BY <1>1, <1>2, <1>3
<1>. QED
  BY <1>2, <1>3

LEMMA StandardFrom ==
    ASSUME NEW t, NEW but,
           \A f \in Fd : f \notin but =>
              (f = 2 => t[f] \in {Tty, File}) /\ (f # 2 => t[f] = Std[f])
    PROVE  Standard(t, but)
BY DEF Standard

\* The shell gives up what the next child would have read.
LEMMA PrevClosed ==
    ASSUME ShellInv, sh.at # "gone"
    PROVE  CloseIn(sh.fds, sh.prev) \in Table /\ Standard(CloseIn(sh.fds, sh.prev), {NoFile})
<1>. DEFINE t == CloseIn(sh.fds, sh.prev)
<1>1. t \in Table /\ \A g \in Fd : t[g] = IF g = sh.prev THEN Closed ELSE sh.fds[g]
  BY CloseInIs DEF ShellInv, ShellTable
<1>2. Standard(sh.fds, {sh.prev}) /\ (sh.prev = NoFile \/ sh.prev > 2)
  BY DEF ShellInv, ShellTable
<1>. HIDE DEF t
<1>3. ASSUME NEW f \in Fd
      PROVE  (f = 2 => t[f] \in {Tty, File}) /\ (f # 2 => t[f] = Std[f])
  <2>1. CASE f = sh.prev
    <3>1. f \in Nat /\ f > 2 /\ t[f] = Closed
      BY <1>1, <1>2, <2>1, FdFacts
    <3>. QED
      BY <3>1 DEF Std
  <2>2. CASE f # sh.prev
    BY <1>1, <1>2, <2>2, StandardIs
  <2>. QED
    BY <2>1, <2>2
<1>4. Standard(t, {NoFile})
  BY <1>3, StandardFrom
<1>. QED
  BY <1>1, <1>4 DEF t

\* A step that starts no child and gives the shell no new end.
LEMMA FewerHolders ==
    ASSUME ShellInv, ShellRecord', ShellTable', ShellLine',
           DOMAIN kids' \subseteq DOMAIN kids, \A p \in DOMAIN kids' : kids'[p] = kids[p],
           \A e \in PipeEnd : ShellHolds(e)' => ShellHolds(e)
    PROVE  ShellInv'
<1>1. ChildrenOK'
  BY DEF ShellInv, ChildrenOK
<1>2. OneHolder'
  BY DEF ShellInv, OneHolder
<1>. QED
  BY <1>1, <1>2 DEF ShellInv

\* The same, where the shell has its standard descriptors only.
LEMMA StandardStep ==
    ASSUME ShellInv, ShellRecord', sh'.fds \in Table, Standard(sh'.fds, {NoFile}), sh'.prev = NoFile,
           ShellLine',
           DOMAIN kids' \subseteq DOMAIN kids, \A p \in DOMAIN kids' : kids'[p] = kids[p]
    PROVE  ShellInv'
<1>1. ShellTable'
  BY DEF ShellTable
<1>2. \A e \in PipeEnd : ~ShellHolds(e)'
  BY FdFacts DEF ShellHolds
<1>. QED
  BY <1>1, <1>2, FewerHolders

LEMMA PromptStep ==
    ASSUME ShellInv, NEW s, BackToPrompt(s), UNCHANGED kids,
           s = [at |-> s.at, fds |-> s.fds, line |-> s.line, seg |-> s.seg, pids |-> s.pids, i |-> s.i,
                prev |-> s.prev, job |-> s.job, script |-> s.script, rest |-> s.rest],
           s.fds \in Table, Standard(s.fds, {NoFile}), s.rest \in Seq(Pipeline)
    PROVE  ShellInv'
<1>1. /\ ShellRecord' /\ sh'.at = "prompt" /\ sh'.fds = s.fds /\ sh'.prev = NoFile
      /\ sh'.rest = s.rest
  BY DEF BackToPrompt, ShellRecord
<1>2. ShellLine'
  BY <1>1 DEF ShellLine
<1>. QED
  BY <1>1, <1>2, StandardStep

LEMMA DispatchKeeps ==
    ASSUME ShellInv, sh.at = "prompt", NEW line \in Pipeline, NEW rest \in Seq(Pipeline),
           Dispatch(line, rest), UNCHANGED kids
    PROVE  ShellInv'
<1>0. ShellRecord /\ sh.fds \in Table /\ sh.prev = NoFile /\ Standard(sh.fds, {NoFile})
  BY DEF ShellInv, ShellTable
<1>1. CASE BackToPrompt([sh EXCEPT !.rest = rest])
  <2>. DEFINE s == [sh EXCEPT !.rest = rest]
  <2>1. /\ s = [at |-> s.at, fds |-> s.fds, line |-> s.line, seg |-> s.seg, pids |-> s.pids, i |-> s.i,
                 prev |-> s.prev, job |-> s.job, script |-> s.script, rest |-> s.rest]
        /\ s.fds = sh.fds /\ s.rest = rest
    BY <1>0 DEF ShellRecord
  <2>2. BackToPrompt(s)
    BY <1>1
  <2>. HIDE DEF s
  <2>. QED
    BY <1>0, <2>1, <2>2, PromptStep
<1>2. ASSUME NEW j \in UsedJobs,
             sh' = [sh EXCEPT !.at = "fg", !.job = j, !.pids = jobs[j], !.i = 1, !.rest = rest]
      PROVE  ShellInv'
  <2>1. ShellRecord' /\ sh'.at = "fg" /\ sh'.fds = sh.fds /\ sh'.prev = sh.prev /\ sh'.rest = rest
    BY <1>0, <1>2 DEF ShellRecord
  <2>2. ShellLine'
    BY <2>1 DEF ShellLine
  <2>. QED
    BY <1>0, <2>1, <2>2, StandardStep
<1>3. CASE sh' = [sh EXCEPT !.at = "segment", !.line = line, !.seg = 1, !.pids = <<>>, !.prev = NoFile, !.rest = rest]
  <2>1. /\ ShellRecord' /\ sh'.at = "segment" /\ sh'.fds = sh.fds /\ sh'.prev = NoFile /\ sh'.rest = rest
        /\ sh'.line = line /\ sh'.seg = 1
    BY <1>0, <1>3 DEF ShellRecord
  <2>2. 1 \in 1 .. Len(line.segs)
    <3>1. line.segs \in Seq(Segment) /\ line.segs # <<>>
      BY DEF Pipeline
    <3>. QED
      BY <3>1
  <2>3. ShellLine'
    BY <2>1, <2>2 DEF ShellLine
  <2>. QED
    BY <1>0, <2>1, <2>3, StandardStep
<1>. QED
  BY <1>1, <1>2, <1>3 DEF Dispatch

\* An end that nobody has or will have.
Unheld(e) == ~ShellHolds(e) /\ \A p \in DOMAIN kids : ~WillHold(kids[p], e)

LEMMA NewEndsUnheld ==
    ASSUME ShellInv, NEW n, ~InUse(n)
    PROVE  Unheld(ReadEnd(n)) /\ Unheld(WriteEnd(n))
BY DEF InUse, OpenTables, Unheld, ShellHolds, WillHold

\* A child is started, or fork fails: what the shell keeps for the next child is new.
LEMMA ForkKeeps ==
    ASSUME ShellInv, sh.at = "segment", NEW t \in Table, NEW r \in Fd \cup {NoFile}, NEW w \in Fd \cup {NoFile},
           \A f \in Fd : f \notin {r, w} => t[f] = sh.fds[f],
           r > 2, w > 2, r \in Fd => (t[r].end = "read" /\ sh.fds[r] = Closed),
           w \in Fd => (t[w].end = "write" /\ sh.fds[w] = Closed),
           r \in Fd => Unheld(t[r]), w \in Fd => Unheld(t[w]),
           Fork(t, r, w)
    PROVE  ShellInv'
<1>. DEFINE u == ParentCloses(t, w)
<1>1. /\ ShellRecord /\ sh.fds \in Table /\ Standard(sh.fds, {sh.prev})
      /\ sh.prev = NoFile \/ (sh.prev \in Fd /\ sh.prev > 2 /\ sh.fds[sh.prev].end = "read")
      /\ sh.line \in Pipeline /\ sh.seg \in 1 .. Len(sh.line.segs) /\ sh.rest \in Seq(Pipeline)
  BY DEF ShellInv, ShellTable, ShellLine
<1>2. sh.prev \in Fd => sh.prev \notin {r, w} /\ t[sh.prev] = sh.fds[sh.prev]
  <2>. SUFFICES ASSUME sh.prev \in Fd PROVE sh.prev \notin {r, w} /\ t[sh.prev] = sh.fds[sh.prev]
    OBVIOUS
  <2>1. sh.fds[sh.prev].end = "read" /\ Closed.end = "closed"
    BY <1>1, FdFacts DEF Closed
  <2>2. sh.fds[sh.prev] # Closed
    BY <2>1
  <2>3. sh.prev # r /\ sh.prev # w
    BY <2>2
  <2>. QED
    BY <2>3
<1>3. r \in Fd => r # w
  OBVIOUS
<1>4. u \in Table /\ \A g \in Fd : u[g] = IF g = w \/ g = sh.prev THEN Closed ELSE t[g]
  BY CloseInIs DEF ParentCloses
<1>. HIDE DEF u
<1>5. Standard(u, {r})
  <2>. SUFFICES ASSUME NEW f \in Fd, f # r
                PROVE  (f = 2 => u[f] \in {Tty, File}) /\ (f # 2 => u[f] = Std[f])
    BY StandardFrom
  <2>1. CASE f = w \/ f = sh.prev
    <3>1. f \in Nat /\ f > 2 /\ u[f] = Closed
      BY <1>1, <1>4, <2>1, FdFacts
    <3>. QED
      BY <3>1 DEF Std
  <2>2. CASE f # w /\ f # sh.prev
    BY <1>1, <1>4, <2>2, StandardIs
  <2>. QED
    BY <2>1, <2>2
<1>6. r \in Fd => u[r] = t[r]
  BY <1>2, <1>3, <1>4
<1>7. ASSUME NEW pids, Advance(t, r, w, pids)
      PROVE  /\ ShellRecord' /\ ShellTable' /\ ShellLine'
             /\ \A e : ShellHolds(e)' => r \in Fd /\ t[r] = e
  <2>1. /\ ShellRecord' /\ sh'.fds = u /\ sh'.prev = r /\ sh'.seg = sh.seg + 1
        /\ sh'.at = (IF IsLast THEN "spawned" ELSE "segment") /\ sh'.line = sh.line /\ sh'.rest = sh.rest
    BY <1>1, <1>7 DEF Advance, ShellRecord, u
  <2>2. ShellTable'
    <3>1. sh.seg + 1 # 1
      BY <1>1
    <3>. QED
      BY <1>4, <1>5, <1>6, <2>1, <3>1 DEF ShellTable
  <2>3. ShellLine'
    <3>1. ~IsLast => sh.seg + 1 \in 1 .. Len(sh.line.segs)
      BY <1>1 DEF IsLast, Pipeline
    <3>. QED
      BY <1>1, <2>1, <3>1 DEF ShellLine
  <2>4. \A e : ShellHolds(e)' => r \in Fd /\ t[r] = e
    BY <1>6, <2>1 DEF ShellHolds
  <2>. QED
    BY <2>1, <2>2, <2>3, <2>4
<1>8. CASE Advance(t, r, w, sh.pids) /\ UNCHANGED kids
  <2>1. ChildrenOK'
    BY <1>8 DEF ShellInv, ChildrenOK
  <2>2. OneHolder'
    BY <1>7, <1>8 DEF ShellInv, OneHolder, Unheld
  <2>. QED
    BY <1>7, <1>8, <2>1, <2>2 DEF ShellInv
<1>9. ASSUME NEW p, p \notin DOMAIN kids, NEW pids, Advance(t, r, w, pids),
             kids' = [q \in DOMAIN kids \union {p} |->
                        IF q = p THEN [fds |-> t, todo |-> <<Task(sh.prev, r, w)>>] ELSE kids[q]]
      PROVE  ShellInv'
  <2>. DEFINE task == Task(sh.prev, r, w)
              kid == [fds |-> t, todo |-> <<task>>]
  <2>1. /\ DOMAIN kids' = DOMAIN kids \cup {p} /\ kids'[p] = kid
        /\ \A q \in DOMAIN kids : kids'[q] = kids[q]
    BY <1>9
  <2>2. /\ kid.fds = t /\ kid.todo = <<task>> /\ kid.todo # <<>> /\ Head(kid.todo) = task
        /\ task.prev = sh.prev /\ task.r = r /\ task.w = w /\ task.redirs = Seg.redirs
    BY DEF Task
  <2>. HIDE DEF task, kid
  <2>3. Seg.redirs \in Redirs
    <3>1. Seg \in Segment
      BY <1>1 DEF Seg, Pipeline
    <3>. QED
      BY <3>1 DEF Segment, Redirs
  <2>4. Standard(t, {sh.prev, r, w})
    <3>. SUFFICES ASSUME NEW f \in Fd, f \notin {sh.prev, r, w}
                  PROVE  (f = 2 => t[f] \in {Tty, File}) /\ (f # 2 => t[f] = Std[f])
      BY StandardFrom
    <3>. QED
      BY <1>1, StandardIs
  <2>5. sh.prev \notin 0 .. 2 /\ r \notin 0 .. 2 /\ w \notin 0 .. 2
    BY <1>1, FdFacts
  <2>6. Outfitted(t, task)
    <3>1. sh.prev \in Fd => t[sh.prev].end = "read"
      BY <1>1, <1>2, FdFacts
    <3>2. Standard(t, {task.prev, task.r, task.w})
      BY <2>2, <2>4
    <3>3. /\ task.prev \in Fd => t[task.prev].end = "read"
          /\ task.w \in Fd => t[task.w].end = "write"
      BY <2>2, <3>1
    <3>4. task.prev \notin 0 .. 2 /\ task.r \notin 0 .. 2 /\ task.w \notin 0 .. 2
      BY <2>2, <2>5
    <3>. QED
      BY <2>2, <2>3, <3>2, <3>3, <3>4 DEF Outfitted
  <2>7. ChildrenOK'
    <3>1. KidOK(kid)
      BY <2>2, <2>6 DEF KidOK
    <3>. QED
      BY <2>1, <3>1 DEF ShellInv, ChildrenOK
  <2>8. ASSUME NEW e, WillHold(kid, e)
        PROVE  ShellHolds(e) \/ (w \in Fd /\ t[w] = e)
    BY <1>2, <2>2, <2>8 DEF WillHold, ShellHolds
  <2>9. OneHolder'
    <3>. SUFFICES ASSUME NEW e \in PipeEnd
                  PROVE  /\ \A a, b \in DOMAIN kids' : WillHold(kids'[a], e) /\ WillHold(kids'[b], e) => a = b
                         /\ \A a \in DOMAIN kids' : ~(WillHold(kids'[a], e) /\ ShellHolds(e)')
      BY DEF OneHolder
    <3>1. ASSUME NEW a \in DOMAIN kids, WillHold(kids[a], e) PROVE ~WillHold(kid, e)
      BY <2>8, <3>1 DEF ShellInv, OneHolder, Unheld
    <3>2. ASSUME ShellHolds(e)' PROVE ~WillHold(kid, e) /\ \A a \in DOMAIN kids : ~WillHold(kids[a], e)
      <4>1. r \in Fd /\ t[r] = e /\ Unheld(e) /\ e.end = "read"
        BY <1>7, <1>9, <3>2
      <4>. QED
        BY <2>8, <4>1 DEF Unheld
    <3>. QED
      BY <2>1, <3>1, <3>2 DEF ShellInv, OneHolder
  <2>. QED
    BY <1>7, <1>9, <2>7, <2>9 DEF ShellInv
<1>10. CASE FreePids # {} /\ \E p \in {Min(FreePids)} :
              /\ kids' = [q \in DOMAIN kids \union {p} |->
                             IF q = p THEN [fds |-> t, todo |-> <<Task(sh.prev, r, w)>>] ELSE kids[q]]
              /\ Advance(t, r, w, Append(sh.pids, p))
  <2>1. FreePids \subseteq Nat
    BY ShellAssumption DEF FreePids
  <2>2. Min(FreePids) \in FreePids
    BY <1>10, <2>1, MinOfNats
  <2>3. Min(FreePids) \notin DOMAIN kids
    BY <2>2 DEF FreePids, Remembered
  <2>. QED
    BY <1>9, <1>10, <2>3
<1>. QED
  BY <1>8, <1>10 DEF Fork

LEMMA ForkSegmentKeeps == ASSUME ShellInv, ForkSegment PROVE ShellInv'
<1>0. sh.at = "segment" /\ sh.fds \in Table /\ NoFile > 2 /\ NoFile \notin Fd
  BY FdFacts DEF ForkSegment, ShellInv, ShellTable
<1>1. CASE IsLast
  <2>1. Fork(sh.fds, NoFile, NoFile)
    BY <1>1 DEF ForkSegment
  <2>. QED
    BY <1>0, <2>1, ForkKeeps
<1>2. CASE ~IsLast
  <2>. DEFINE n == NewPipe
              r == ReadFd(sh.fds)
              w == WriteFd(sh.fds)
              t == WithPipe(sh.fds, n)
  <2>1. MayPipe(sh.fds) /\ Fork(t, r, w)
    BY <1>2 DEF ForkSegment
  <2>2. n \in Nat /\ ~InUse(n)
    BY <2>1, NewPipeIs DEF MayPipe
  <2>3. r \in FdFree(sh.fds) /\ w \in FdFree(sh.fds) /\ r # w
    BY <1>0, <2>1, TwoFree
  <2>4. t = [sh.fds EXCEPT ![r] = ReadEnd(n), ![w] = WriteEnd(n)]
    BY DEF WithPipe
  <2>. HIDE DEF n, r, w, t
  <2>5. r \in Fd /\ w \in Fd /\ sh.fds[r] = Closed /\ sh.fds[w] = Closed
    BY <2>3 DEF FdFree
  <2>6. t \in Table /\ t[r] = ReadEnd(n) /\ t[w] = WriteEnd(n)
        /\ \A f \in Fd : f \notin {r, w} => t[f] = sh.fds[f]
    BY <1>0, <2>2, <2>3, <2>4, <2>5, EndFacts DEF Table
  <2>7. r > 2 /\ w > 2
    <3>1. ASSUME NEW f \in Fd, sh.fds[f] = Closed PROVE f > 2
      <4>1. Standard(sh.fds, {sh.prev}) /\ (sh.prev = NoFile \/ sh.prev > 2)
        BY <1>0 DEF ShellInv, ShellTable
      <4>2. ASSUME f \in {0, 1, 2} PROVE FALSE
        <5>1. f \notin {sh.prev}
          BY <4>1, <4>2, FdFacts
        <5>2. (f = 2 => sh.fds[f] \in {Tty, File}) /\ (f # 2 => sh.fds[f] = Std[f])
          BY <4>1, <5>1, StandardIs
        <5>3. f < 3 => Std[f] = Tty
          BY DEF Std
        <5>. QED
          BY <3>1, <4>2, <5>2, <5>3, EndFacts
      <4>. QED
        BY <4>2, FdFacts
    <3>. QED
      BY <2>5, <3>1
  <2>8. t[r].end = "read" /\ t[w].end = "write"
    BY <2>6 DEF ReadEnd, WriteEnd
  <2>9. Unheld(t[r]) /\ Unheld(t[w])
    BY <2>2, <2>6, NewEndsUnheld
  <2>. QED
    BY <1>0, <2>1, <2>5, <2>6, <2>7, <2>8, <2>9, ForkKeeps
<1>. QED
  BY <1>1, <1>2

\* A child takes its place: it keeps what was meant for it, and has at most a new
\* pipe besides.
LEMMA TakenInIs ==
    ASSUME NEW t \in Table, NEW w, Outfitted(t, w)
    PROVE  /\ TakenIn(t, w) \in Table
           /\ \A f \in Fd : TakenIn(t, w)[f] \in PipeEnd =>
                 \E g \in Fd : g \in {w.prev, w.w} /\ t[g] = TakenIn(t, w)[f]
<1>. DEFINE t1 == Dup2(t, w.prev, 0)
            t2 == Dup2(t1, w.w, 1)
            t3 == CloseIn(t2, w.prev)
            t4 == CloseIn(t3, w.w)
            t5 == CloseIn(t4, w.r)
<1>0. 0 \in Fd /\ 1 \in Fd /\ w.w # 0
  BY FdFacts DEF Outfitted
<1>1. /\ t1 \in Table
      /\ \A g \in Fd : t1[g] = IF g = 0 /\ w.prev \in Fd /\ t[w.prev] # Closed THEN t[w.prev] ELSE t[g]
  BY <1>0, Dup2Is
<1>. HIDE DEF t1
<1>2. /\ t2 \in Table
      /\ \A g \in Fd : t2[g] = IF g = 1 /\ w.w \in Fd /\ t1[w.w] # Closed THEN t1[w.w] ELSE t1[g]
  BY <1>0, <1>1, Dup2Is
<1>. HIDE DEF t2
<1>3. t3 \in Table /\ \A g \in Fd : t3[g] = IF g = w.prev THEN Closed ELSE t2[g]
  BY <1>2, CloseInIs
<1>. HIDE DEF t3
<1>4. t4 \in Table /\ \A g \in Fd : t4[g] = IF g = w.w THEN Closed ELSE t3[g]
  BY <1>3, CloseInIs
<1>. HIDE DEF t4
<1>5. t5 \in Table /\ \A g \in Fd : t5[g] = IF g = w.r THEN Closed ELSE t4[g]
  BY <1>4, CloseInIs
<1>. HIDE DEF t5
<1>6. ASSUME NEW f \in Fd, t5[f] \in PipeEnd
      PROVE  \E g \in Fd : g \in {w.prev, w.w} /\ t[g] = t5[f]
  <2>1. f \notin {w.prev, w.w, w.r} /\ t5[f] = t2[f]
    BY <1>3, <1>4, <1>5, <1>6, EndFacts
  <2>2. t[f] \notin PipeEnd
    <3>1. Standard(t, {w.prev, w.r, w.w})
      BY DEF Outfitted
    <3>2. (f = 2 => t[f] \in {Tty, File}) /\ (f # 2 => t[f] = Std[f])
      BY <2>1, <3>1, StandardIs
    <3>. QED
      BY <3>2, EndFacts
  <2>3. w.w \in Fd => t1[w.w] = t[w.w]
    BY <1>0, <1>1
  <2>4. t2[f] = t[f] \/ (w.prev \in Fd /\ t2[f] = t[w.prev]) \/ (w.w \in Fd /\ t2[f] = t[w.w])
    BY <1>1, <1>2, <2>3
  <2>. QED
    BY <1>6, <2>1, <2>2, <2>4
<1>7. TakenIn(t, w) = t5
  BY DEF TakenIn, t1, t2, t3, t4, t5
<1>. QED
  BY <1>5, <1>6, <1>7

LEMMA ChildStartKeeps == ASSUME ShellInv, NEW p \in DOMAIN kids, ChildStart(p) PROVE ShellInv'
<1>. DEFINE k == kids[p]
            w == Head(k.todo)
            n == IF FreePipes = {} THEN 0 ELSE NewPipe
            t == TakenIn(k.fds, w)
            u == ApplyRedirs(t, w.redirs, Len(w.redirs), n)
<1>1. /\ k.todo # <<>> /\ MayRedirect(k.fds, w.redirs, Len(w.redirs))
      /\ kids' = [kids EXCEPT ![p] = [fds |-> u, todo |-> <<>>]]
      /\ sh' = sh
  BY DEF ChildStart
<1>2. k.fds \in Table /\ Outfitted(k.fds, w)
  <2>1. KidOK(k)
    BY DEF ShellInv, ChildrenOK
  <2>2. PICK x : k.todo = <<x>> /\ Outfitted(k.fds, x)
    BY <1>1, <2>1 DEF KidOK
  <2>. QED
    BY <2>1, <2>2 DEF KidOK
<1>3. n \in Nat /\ (FreePipes # {} => ~InUse(n))
  BY NewPipeIs
<1>. HIDE DEF n
<1>4. /\ t \in Table
      /\ \A f \in Fd : t[f] \in PipeEnd => \E g \in Fd : g \in {w.prev, w.w} /\ k.fds[g] = t[f]
  BY <1>2, TakenInIs
<1>5. w.redirs \in Redirs /\ Len(w.redirs) \in 0 .. Len(w.redirs)
  BY <1>2 DEF Outfitted, Redirs
<1>. HIDE DEF t, w
<1>6. /\ u \in Table
      /\ \A f \in Fd : \/ u[f] = t[f] \/ u[f] = File
                       \/ u[f] = ReadEnd(n) /\ \E i \in 1 .. Len(w.redirs) : w.redirs[i] = "here"
  <2>. DEFINE redirs == w.redirs
              good == Len(redirs)
  <2>1. redirs \in Redirs /\ good \in 0 .. Len(redirs) /\ u = ApplyRedirs(t, redirs, good, n)
    BY <1>5
  <2>. HIDE DEF u, redirs, good
  <2>2. /\ u \in Table
        /\ \A f \in Fd : \/ u[f] = t[f] \/ u[f] = File
                         \/ u[f] = ReadEnd(n) /\ \E i \in 1 .. good : redirs[i] = "here"
    BY <1>3, <1>4, <2>1, ApplyRedirsIs
  <2>. QED
    BY <2>2 DEF redirs, good
<1>. HIDE DEF u, k
<1>7. ASSUME NEW e \in PipeEnd, WillHold([fds |-> u, todo |-> <<>>], e)
      PROVE  WillHold(k, e) \/ Unheld(e)
  <2>1. PICK f \in Fd : u[f] = e
    BY <1>7 DEF WillHold
  <2>2. CASE u[f] = t[f]
    <3>1. PICK g \in Fd : g \in {w.prev, w.w} /\ k.fds[g] = e
      BY <1>4, <2>1, <2>2
    <3>. QED
      BY <3>1 DEF WillHold, w
  <2>3. CASE u[f] = File
    BY <2>1, <2>3, EndFacts
  <2>4. CASE u[f] = ReadEnd(n) /\ \E i \in 1 .. Len(w.redirs) : w.redirs[i] = "here"
    <3>1. FreePipes # {}
      BY <1>1, <2>4 DEF MayRedirect, MayPipe
    <3>. QED
      BY <1>3, <2>1, <2>4, <3>1, NewEndsUnheld
  <2>. QED
    BY <1>6, <2>2, <2>3, <2>4
<1>8. ChildrenOK'
  <2>1. KidOK([fds |-> u, todo |-> <<>>])
    BY <1>6 DEF KidOK
  <2>2. ASSUME NEW q \in DOMAIN kids' PROVE KidOK(kids'[q])
    <3>1. q \in DOMAIN kids /\ kids'[q] = IF q = p THEN [fds |-> u, todo |-> <<>>] ELSE kids[q]
      BY <1>1
    <3>. QED
      BY <2>1, <3>1 DEF ShellInv, ChildrenOK
  <2>. QED
    BY <2>2 DEF ChildrenOK
<1>9. OneHolder'
  <2>. DEFINE kid == [fds |-> u, todo |-> <<>>]
  <2>1. DOMAIN kids' = DOMAIN kids /\ kids'[p] = kid /\ \A q \in DOMAIN kids : q # p => kids'[q] = kids[q]
    BY <1>1
  <2>2. \A e \in PipeEnd : WillHold(kid, e) => WillHold(kids[p], e) \/ Unheld(e)
    BY <1>7 DEF k
  <2>. HIDE DEF kid
  <2>3. \A e : ShellHolds(e)' <=> ShellHolds(e)
    BY <1>1 DEF ShellHolds
  <2>. QED
    BY <2>1, <2>2, <2>3 DEF ShellInv, OneHolder, Unheld
<1>. QED
  BY <1>1, <1>8, <1>9 DEF ShellInv, ShellRecord, ShellTable, ShellLine

LEMMA LeaveKeeps == ASSUME ShellInv, Leave PROVE ShellInv'
<1>1. /\ ShellRecord' /\ sh'.at = "gone" /\ sh'.fds = [f \in Fd |-> Closed] /\ sh'.rest = sh.rest
      /\ DOMAIN kids' = {}
  BY DEF Leave, ShellInv, ShellRecord
<1>2. ShellTable' /\ ShellLine'
  BY <1>1, EndFacts DEF ShellTable, ShellLine, Table, ShellInv
<1>3. \A e \in PipeEnd : ~ShellHolds(e)'
  BY <1>1, EndFacts DEF ShellHolds
<1>. QED
  BY <1>1, <1>2, <1>3, FewerHolders

LEMMA ShellKeeps == ShellInv /\ ShellNext => ShellInv'
<1>. SUFFICES ASSUME ShellInv, ShellNext PROVE ShellInv'
  OBVIOUS
<1>0. /\ ShellRecord /\ sh.fds \in Table /\ sh.rest \in Seq(Pipeline)
      /\ sh.at \in {"prompt", "wait", "fg", "done"} => sh.prev = NoFile /\ Standard(sh.fds, {NoFile})
  BY DEF ShellInv, ShellTable, ShellLine
<1>1. CASE InterruptPrompt
  <2>1. BackToPrompt(sh) /\ UNCHANGED kids /\ sh.at = "prompt"
    BY <1>1 DEF InterruptPrompt
  <2>. QED
    BY <1>0, <2>1, PromptStep DEF ShellRecord
<1>2. ASSUME NEW line \in Lines, TypeLine(line) PROVE ShellInv'
  <2>1. line \in Pipeline /\ <<>> \in Seq(Pipeline)
    BY ShellAssumption
  <2>. QED
    BY <1>2, <2>1, DispatchKeeps DEF TypeLine
<1>3. CASE ScriptLine
  <2>1. Head(sh.rest) \in Pipeline /\ Tail(sh.rest) \in Seq(Pipeline)
    BY <1>0, <1>3 DEF ScriptLine
  <2>. QED
    BY <1>3, <2>1, DispatchKeeps DEF ScriptLine
<1>4. CASE ScriptEnd
  BY <1>4, LeaveKeeps DEF ScriptEnd
<1>5. ASSUME sh.at # "gone", UNCHANGED kids, NEW s,
             s.fds = CloseIn(sh.fds, sh.prev), s.rest = sh.rest,
             s = [at |-> s.at, fds |-> s.fds, line |-> s.line, seg |-> s.seg, pids |-> s.pids, i |-> s.i,
                  prev |-> s.prev, job |-> s.job, script |-> s.script, rest |-> s.rest],
             sh' = s, s.prev = NoFile,
             s.at = "segment" => sh.at = "segment" /\ s.line = sh.line /\ s.seg \in 1 .. Len(sh.line.segs)
      PROVE  ShellInv'
  <2>1. sh'.fds \in Table /\ Standard(sh'.fds, {NoFile})
    BY <1>5, PrevClosed
  <2>2. ShellRecord' /\ ShellLine'
    BY <1>5 DEF ShellRecord, ShellLine, ShellInv
  <2>. QED
    BY <1>5, <2>1, <2>2, StandardStep
<1>6. CASE EmptySegment
  <2>1. /\ sh' = [sh EXCEPT !.fds = CloseIn(@, sh.prev), !.prev = NoFile, !.seg = @ + 1,
                            !.at = IF IsLast THEN "spawned" ELSE "segment"]
        /\ UNCHANGED kids /\ sh.at = "segment"
    BY <1>6 DEF EmptySegment
  <2>2. sh.line \in Pipeline /\ sh.seg \in 1 .. Len(sh.line.segs)
    BY <2>1 DEF ShellInv, ShellLine
  <2>3. ~IsLast => sh.seg + 1 \in 1 .. Len(sh.line.segs)
    BY <2>2 DEF IsLast, Pipeline
  <2>4. /\ ShellRecord' /\ sh'.fds = CloseIn(sh.fds, sh.prev) /\ sh'.prev = NoFile /\ sh'.rest = sh.rest
        /\ sh'.line = sh.line /\ sh'.seg = sh.seg + 1 /\ sh'.at = IF IsLast THEN "spawned" ELSE "segment"
    BY <1>0, <2>1 DEF ShellRecord
  <2>. QED
    BY <1>5, <2>1, <2>3, <2>4 DEF ShellRecord
<1>7. CASE GiveUp
  <2>. DEFINE s == [sh EXCEPT !.fds = CloseIn(@, sh.prev)]
  <2>1. BackToPrompt(s) /\ UNCHANGED kids /\ sh.at = "segment"
    BY <1>7 DEF GiveUp
  <2>2. /\ s = [at |-> s.at, fds |-> s.fds, line |-> s.line, seg |-> s.seg, pids |-> s.pids, i |-> s.i,
                 prev |-> s.prev, job |-> s.job, script |-> s.script, rest |-> s.rest]
        /\ s.fds = CloseIn(sh.fds, sh.prev) /\ s.rest = sh.rest
    BY <1>0 DEF ShellRecord
  <2>. HIDE DEF s
  <2>3. s.fds \in Table /\ Standard(s.fds, {NoFile})
    BY <2>1, <2>2, PrevClosed
  <2>. QED
    BY <1>0, <2>1, <2>2, <2>3, PromptStep
<1>8. CASE RunInProcess
  <2>1. CASE Leave
    BY <2>1, LeaveKeeps
  <2>2. CASE ~Leave
    <3>. DEFINE n == IF FreePipes = {} THEN 0 ELSE NewPipe
                r(good) == Restored(ApplyRedirs(Saved(sh.fds, Targets(Seg.redirs)), Seg.redirs, good, n), Targets(Seg.redirs))
    <3>1. PICK good \in 0 .. Len(Seg.redirs) :
            sh' = [sh EXCEPT !.fds = r(good), !.seg = @ + 1, !.at = "spawned"]
      BY <1>8, <2>2 DEF RunInProcess
    <3>2. UNCHANGED kids /\ sh.at = "segment" /\ Len(sh.line.segs) = 1
      BY <1>8, <2>2 DEF RunInProcess
    <3>3. sh.line \in Pipeline /\ sh.seg = 1
      BY <3>2 DEF ShellInv, ShellLine
    <3>4. sh.prev = NoFile /\ Standard(sh.fds, {NoFile})
      BY <3>2, <3>3 DEF ShellInv, ShellTable
    <3>5. Seg.redirs \in Redirs
      <4>1. Seg \in Segment
        BY <3>2, <3>3 DEF Seg, Pipeline
      <4>. QED
        BY <4>1 DEF Segment, Redirs
    <3>6. n \in Nat
      BY NewPipeIs
    <3>. HIDE DEF n
    <3>7. r(good) \in Table /\ Standard(r(good), {NoFile})
      BY <1>0, <3>4, <3>5, <3>6, GivenBack
    <3>. HIDE DEF r
    <3>8. /\ ShellRecord' /\ sh'.fds = r(good) /\ sh'.prev = NoFile /\ sh'.rest = sh.rest /\ sh'.at = "spawned"
      BY <1>0, <3>1, <3>4 DEF ShellRecord
    <3>9. ShellLine'
      BY <1>0, <3>8 DEF ShellLine
    <3>. QED
      BY <3>2, <3>7, <3>8, <3>9, StandardStep
  <2>. QED
    BY <2>1, <2>2
<1>9. CASE ForkSegment
  BY <1>9, ForkSegmentKeeps
<1>10. CASE Spawned
  <2>1. /\ sh.at = "spawned" /\ UNCHANGED kids
        /\ \/ sh' = [sh EXCEPT !.fds = CloseIn(@, sh.prev), !.prev = NoFile, !.at = "done"]
           \/ sh' = [sh EXCEPT !.fds = CloseIn(@, sh.prev), !.prev = NoFile, !.at = "wait", !.i = 1]
    BY <1>10, Zenon DEF Spawned
  <2>2. /\ ShellRecord' /\ sh'.fds = CloseIn(sh.fds, sh.prev) /\ sh'.prev = NoFile /\ sh'.rest = sh.rest
        /\ sh'.at \in {"done", "wait"}
    BY <1>0, <2>1 DEF ShellRecord
  <2>. QED
    BY <1>5, <2>1, <2>2 DEF ShellRecord
<1>11. CASE LineDone
  <2>1. BackToPrompt(sh) /\ UNCHANGED kids /\ sh.at = "done"
    BY <1>11 DEF LineDone
  <2>. QED
    BY <1>0, <2>1, PromptStep DEF ShellRecord
<1>12. ASSUME ShellRecord', sh'.fds = sh.fds, sh'.prev = sh.prev, sh'.rest = sh.rest,
              sh'.at \in {"wait", "fg", "done"}, sh.at \in {"wait", "fg"},
              DOMAIN kids' \subseteq DOMAIN kids, \A p \in DOMAIN kids' : kids'[p] = kids[p]
       PROVE  ShellInv'
  <2>1. ShellLine'
    BY <1>0, <1>12 DEF ShellLine
  <2>. QED
    BY <1>0, <1>12, <2>1, StandardStep
<1>13. CASE WaitNext
  <2>1. /\ ShellRecord' /\ sh'.fds = sh.fds /\ sh'.prev = sh.prev /\ sh'.rest = sh.rest /\ sh'.at = sh.at
        /\ sh.at \in {"wait", "fg"} /\ kids' = kids
    BY <1>0, <1>13 DEF WaitNext, ShellRecord
  <2>. QED
    BY <1>12, <2>1
<1>14. ASSUME EndOfWait(sh)
       PROVE  ShellRecord' /\ sh'.fds = sh.fds /\ sh'.prev = sh.prev /\ sh'.rest = sh.rest /\ sh'.at = "done"
  BY <1>0, <1>14 DEF EndOfWait, ShellRecord
<1>15. CASE Waited
  BY <1>12, <1>14, <1>15 DEF Waited
<1>16. CASE WaitInterrupted
  <2>1. DOMAIN kids' \subseteq DOMAIN kids /\ \A p \in DOMAIN kids' : kids'[p] = kids[p]
    BY <1>16 DEF WaitInterrupted, Restrict
  <2>. QED
    BY <1>12, <1>14, <1>16, <2>1 DEF WaitInterrupted
<1>17. ASSUME NEW p \in DOMAIN kids, ChildExit(p) PROVE ShellInv'
  <2>1. sh' = sh /\ DOMAIN kids' \subseteq DOMAIN kids /\ \A q \in DOMAIN kids' : kids'[q] = kids[q]
    BY <1>17 DEF ChildExit, Restrict
  <2>2. ShellRecord' /\ ShellTable' /\ ShellLine' /\ \A e : ShellHolds(e)' => ShellHolds(e)
    BY <2>1 DEF ShellInv, ShellRecord, ShellTable, ShellLine, ShellHolds
  <2>. QED
    BY <2>1, <2>2, FewerHolders
<1>. QED
  BY <1>1, <1>2, <1>3, <1>4, <1>6, <1>7, <1>8, <1>9, <1>10, <1>11, <1>13, <1>15, <1>16, <1>17,
     ChildStartKeeps DEF ShellNext, Command, ShellStep

LEMMA ShellStart == ShellInit => ShellInv
<1>. SUFFICES ASSUME ShellInit PROVE ShellInv
  OBVIOUS
<1>1. /\ sh.at = "prompt" /\ sh.fds = Std /\ sh.prev = NoFile /\ DOMAIN kids = {} /\ ShellRecord
      /\ sh.rest \in Seq(Pipeline)
  <2>1. PICK script \in Scripts \union {<<>>} :
          sh = [at |-> "prompt", fds |-> Std, line |-> NoLine, seg |-> 0, pids |-> <<>>, i |-> 0,
                prev |-> NoFile, job |-> 0, script |-> script # <<>>, rest |-> script]
    BY DEF ShellInit
  <2>2. script \in Seq(Pipeline)
    <3>1. Scripts \subseteq Seq(Pipeline) /\ <<>> \in Seq(Pipeline)
      BY ShellAssumption
    <3>. QED
      BY <3>1
  <2>. QED
    BY <2>1, <2>2 DEF ShellInit, ShellRecord
<1>2. Std \in Table /\ Standard(Std, {NoFile})
  <2>1. Std = [f \in Fd |-> Std[f]] /\ \A f \in Fd : Std[f] \in Ends
    BY EndFacts DEF Std
  <2>2. 2 \in Fd /\ Std[2] = Tty
    BY FdFacts DEF Std
  <2>. QED
    BY <2>1, <2>2, StandardFrom DEF Table
<1>3. ShellTable /\ ShellLine
  BY <1>1, <1>2 DEF ShellTable, ShellLine
<1>. QED
  BY <1>1, <1>3 DEF ShellInv, ChildrenOK, OneHolder

LEMMA ShellInvariant == ShellSpec => []ShellInv
<1>1. ShellInv /\ UNCHANGED shellVars => ShellInv'
  BY DEF shellVars, ShellInv, ShellRecord, ShellTable, ShellLine, ChildrenOK, OneHolder, ShellHolds
<1>2. ShellInv /\ [ShellNext]_shellVars => ShellInv'
  BY <1>1, ShellKeeps
<1>. QED
  BY <1>2, ShellStart, PTL DEF ShellSpec

\* sh.c:786-920: between two lines the shell has its standard descriptors only, and
\* every end of a pipe is held by one child at most.
THEOREM EndsOfPipesClose == ShellSpec => []PipesCloseDown
<1>1. ShellInv => PipesCloseDown
  <2>. SUFFICES ASSUME ShellInv, sh.at \in {"prompt", "wait", "fg"}
                PROVE  /\ \A f \in Fd : sh.fds[f] \in (IF f = 2 THEN {Tty, File} ELSE {Std[f]})
                       /\ (\A p \in DOMAIN kids : kids[p].todo = <<>>)
                            => \A n \in Pipe : /\ Cardinality(Holders(ReadEnd(n))) <= 1
                                               /\ Cardinality(Holders(WriteEnd(n))) <= 1
    BY DEF PipesCloseDown
  <2>1. sh.prev = NoFile /\ Standard(sh.fds, {sh.prev})
    BY DEF ShellInv, ShellTable
  <2>2. \A f \in Fd : sh.fds[f] \in (IF f = 2 THEN {Tty, File} ELSE {Std[f]})
    BY <2>1, FdFacts DEF Standard
  <2>3. ASSUME \A p \in DOMAIN kids : kids[p].todo = <<>>, NEW e \in PipeEnd
        PROVE  Cardinality(Holders(e)) <= 1
    <3>1. \A p, q \in Holders(e) : p = q
      BY <2>3 DEF Holders, ShellInv, OneHolder, WillHold
    <3>2. CASE Holders(e) = {}
      BY <3>2, FS_EmptySet
    <3>3. CASE Holders(e) # {}
      <4>1. PICK p : Holders(e) = {p}
        BY <3>1, <3>3
      <4>2. Cardinality({p}) = 1
        BY FS_Singleton
      <4>. QED
        BY <4>1, <4>2
    <3>. QED
      BY <3>2, <3>3
  <2>4. \A n \in Pipe : ReadEnd(n) \in PipeEnd /\ WriteEnd(n) \in PipeEnd
    BY ShellAssumption DEF ReadEnd, WriteEnd, PipeEnd, Ends
  <2>. QED
    BY <2>2, <2>3, <2>4
<1>. QED
  BY <1>1, ShellInvariant, PTL

=============================================================================

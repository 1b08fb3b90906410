---------------------------- MODULE Intake_proofs ---------------------------
(***************************************************************************)
(* Theorems about Intake, for every size of the assembler, of the buffer   *)
(* and of a pull, every board, every order of questions, every loss of     *)
(* bytes and every failure of the card.                                    *)
(*                                                                         *)
(* The capture (CaptureCorrect).  A captured text may be anything, so the  *)
(* sequences are typed by what they hold (Listed).  CaptureTrue is not     *)
(* inductive: a chunk torn by a failed write may be followed by a new      *)
(* capture, which is true again, and what the note of a full buffer says   *)
(* rests on the flag capture.full.  CInv has both.                         *)
(*                                                                         *)
(* The lines (LinesAreIntact).  LineInv says which piece may follow which  *)
(* on the wire and that the text assembled is the beginning of the line    *)
(* that goes on there.                                                     *)
(*                                                                         *)
(* The position (PositionIsOfOneAnswer) and the peer (IdentityIsSound)     *)
(* rest on the order of the lines of an answer, which follows the pieces   *)
(* on their way: FixInv looks on the wire for the header between a begun   *)
(* block and the position of another block, IdInv for the line that        *)
(* clears what is out of date before the one that would be taken wrongly.  *)
(***************************************************************************)
EXTENDS Intake, SequenceTheorems, FiniteSetTheorems, WellFoundedInduction, TLAPS

Listed(q) == q \in Seq(Range(q))

\* K is what is kept of N: all of it, or, once a note says that the buffer
\* was full, what comes before such a note.
Faithful(K, N, full) ==
    IF full
    THEN \E k \in DOMAIN K : /\ K[k] = CapFull
                             /\ k - 1 <= Len(N)
                             /\ SubSeq(K, 1, k - 1) = SubSeq(N, 1, k - 1)
    ELSE K = N

\* The shape of a buffer.
IsBuffer(c) ==
    /\ c = [armed |-> c.armed, buf |-> c.buf, reset |-> c.reset, full |-> c.full]
    /\ c.armed \in BOOLEAN /\ c.reset \in BOOLEAN /\ c.full \in BOOLEAN
    /\ Listed(c.buf)

\* The buffer d is c and what became of the items.
GrewBy(c, d, items) ==
    \E x : /\ Listed(x)
           /\ d.buf = c.buf \o x /\ d.reset = c.reset
           /\ \/ c.full /\ d.full
              \/ ~c.full /\ ~d.full /\ x = items
              \/ /\ ~c.full /\ d.full
                 /\ \E a, b : /\ Listed(a) /\ Listed(b)
                              /\ items = a \o b /\ x = a \o <<CapFull>>

CType ==
    /\ IsBuffer(capture)
    /\ flush = [items |-> flush.items, reset |-> flush.reset, due |-> flush.due]
    /\ flush.reset \in BOOLEAN /\ Listed(flush.items)
    /\ Listed(file)
    /\ noted = [items |-> noted.items, torn |-> noted.torn]
    /\ noted.torn \in BOOLEAN /\ Listed(noted.items)

\* A torn file matters until it is begun anew, which is then due already.
Torn == noted.torn /\ ~capture.reset /\ ~flush.reset

CInv == CType /\ (Torn \/ Faithful(Kept, noted.items, capture.full))

-----------------------------------------------------------------------------
(* Sequences.                                                              *)

LEMMA ListedIn == ASSUME NEW S, NEW q \in Seq(S) PROVE Listed(q)
  BY SeqOfRange DEF Listed

\* Two sequences, and three, have a common type.
LEMMA Common ==
    ASSUME NEW p, NEW q, NEW r, Listed(p), Listed(q), Listed(r)
    PROVE  \E S : p \in Seq(S) /\ q \in Seq(S) /\ r \in Seq(S)
  <1> DEFINE S == Range(p) \cup Range(q) \cup Range(r)
  <1>1. p \in Seq(S) /\ q \in Seq(S) /\ r \in Seq(S)
    <2> HIDE DEF S
    <2>1. Range(p) \subseteq S /\ Range(q) \subseteq S /\ Range(r) \subseteq S
      BY DEF S
    <2>2. QED  BY <2>1, SeqMonotonic DEF Listed
  <1>2. QED  BY <1>1

LEMMA Tuples ==
    ASSUME NEW x, NEW y
    PROVE  Listed(<<>>) /\ Listed(<<x>>) /\ Listed(<<x, y>>)
  <1>1. <<>> \in Seq({x, y}) /\ <<x>> \in Seq({x, y}) /\ <<x, y>> \in Seq({x, y})
    OBVIOUS
  <1>2. QED  BY <1>1, ListedIn

LEMMA Concat ==
    ASSUME NEW p, NEW q, Listed(p), Listed(q)
    PROVE  /\ Listed(p \o q)
           /\ Len(p) \in Nat /\ DOMAIN p = 1..Len(p) /\ DOMAIN (p \o q) = 1..Len(p \o q)
           /\ Len(p \o q) = Len(p) + Len(q)
           /\ \A i \in 1..Len(p) : (p \o q)[i] = p[i]
           /\ p \o <<>> = p /\ <<>> \o p = p
  <1>1. PICK S : p \in Seq(S) /\ q \in Seq(S)
    BY Common
  <1>2. p \o q \in Seq(S)
    BY <1>1, ConcatProperties
  <1>3. Listed(p \o q)
    BY <1>2, ListedIn
  <1>4. Len(p) \in Nat /\ Len(q) \in Nat /\ DOMAIN p = 1..Len(p) /\ DOMAIN (p \o q) = 1..Len(p \o q)
    BY <1>1, <1>2, LenProperties
  <1>5. Len(p \o q) = Len(p) + Len(q) /\ \A i \in 1..Len(p) : (p \o q)[i] = p[i]
    BY <1>1, <1>4, ConcatProperties
  <1>6. p \o <<>> = p /\ <<>> \o p = p
    BY <1>1, ConcatEmptySeq
  <1>7. QED  BY <1>3, <1>4, <1>5, <1>6

LEMMA Assoc ==
    ASSUME NEW p, NEW q, NEW r, Listed(p), Listed(q), Listed(r)
    PROVE  (p \o q) \o r = p \o (q \o r)
  <1>1. PICK S : p \in Seq(S) /\ q \in Seq(S) /\ r \in Seq(S)
    BY Common
  <1>2. QED  BY <1>1, ConcatAssociative, SMTT(30)

\* A sequence is what a pull takes of it and what it leaves.
LEMMA Split ==
    ASSUME NEW q, NEW n \in Nat, Listed(q), n <= Len(q)
    PROVE  /\ Listed(SubSeq(q, 1, n)) /\ Listed(SubSeq(q, n + 1, Len(q)))
           /\ SubSeq(q, 1, n) \o SubSeq(q, n + 1, Len(q)) = q
           /\ n = 0 => SubSeq(q, 1, n) = <<>>
  <1>1. PICK S : q \in Seq(S)
    BY DEF Listed
  <1>2. Len(q) \in Nat /\ \A i \in 1..Len(q) : q[i] \in S
    BY <1>1, LenProperties, ElementOfSeq
  <1>3. SubSeq(q, 1, n) \in Seq(S) /\ SubSeq(q, n + 1, Len(q)) \in Seq(S)
    BY <1>2, SubSeqProperties
  <1>. 1 \in 1..Len(q) + 1 /\ n \in 1 - 1..Len(q) /\ Len(q) \in n..Len(q)
    BY <1>2
  <1>4. SubSeq(q, 1, n) \o SubSeq(q, n + 1, Len(q)) = SubSeq(q, 1, Len(q))
    BY <1>1, ConcatAdjacentSubSeq
  <1>5. SubSeq(q, 1, Len(q)) = q
    BY <1>1, SubSeqFull
  <1>6. n = 0 => SubSeq(q, 1, n) = <<>>
    BY SubSeqEmpty
  <1>7. QED  BY <1>3, <1>4, <1>5, <1>6, ListedIn

\* The beginning of a sequence is that of its continuation.
LEMMA Beginning ==
    ASSUME NEW p, NEW q, NEW n \in Nat, Listed(p), Listed(q), n <= Len(p)
    PROVE  SubSeq(p \o q, 1, n) = SubSeq(p, 1, n)
  <1>1. PICK S : p \in Seq(S) /\ q \in Seq(S)
    BY Common
  <1>2. Len(p) \in Nat
    BY <1>1, LenProperties
  <1>3. CASE n = 0
    BY <1>3, SubSeqEmpty
  <1>4. CASE n # 0
    BY <1>1, <1>2, <1>4, SubSeqOfConcat1
  <1>5. QED  BY <1>3, <1>4

-----------------------------------------------------------------------------
(* What is appended leaves the capture faithful.                           *)

LEMMA FaithfulOn ==
    ASSUME NEW K, NEW N, NEW x, NEW y,
           Listed(K), Listed(N), Listed(x), Listed(y), Faithful(K, N, TRUE)
    PROVE  Faithful(K \o x, N \o y, TRUE)
  <1>1. PICK k \in DOMAIN K : /\ K[k] = CapFull
                              /\ k - 1 <= Len(N)
                              /\ SubSeq(K, 1, k - 1) = SubSeq(N, 1, k - 1)
    BY DEF Faithful
  <1>2. Len(K) \in Nat /\ Len(N) \in Nat /\ Len(x) \in Nat /\ Len(y) \in Nat /\ k \in 1..Len(K)
    BY <1>1, Concat
  <1>3. k - 1 \in Nat /\ k - 1 <= Len(K)
    BY <1>2
  <1>4. SubSeq(K \o x, 1, k - 1) = SubSeq(N \o y, 1, k - 1)
    BY <1>1, <1>3, Beginning
  <1>5. k \in DOMAIN (K \o x) /\ (K \o x)[k] = CapFull
    BY <1>1, <1>2, Concat
  <1>6. k - 1 <= Len(N \o y)
    BY <1>1, <1>2, Concat
  <1>7. QED  BY <1>4, <1>5, <1>6 DEF Faithful

LEMMA FaithfulCut ==
    ASSUME NEW K, NEW a, NEW b, Listed(K), Listed(a), Listed(b)
    PROVE  Faithful(K \o (a \o <<CapFull>>), K \o (a \o b), TRUE)
  <1> DEFINE P == K \o a
             k == Len(P) + 1
  <1>1. Listed(P) /\ Listed(<<CapFull>>)
    BY Concat, Tuples
  <1> DEFINE mark == <<CapFull>>
  <1>2. K \o (a \o mark) = P \o mark /\ K \o (a \o b) = P \o b
    <2>1. Listed(mark)
      BY <1>1
    <2> HIDE DEF mark
    <2>2. (K \o a) \o mark = K \o (a \o mark)
      BY <2>1, Assoc
    <2>3. (K \o a) \o b = K \o (a \o b)
      BY Assoc
    <2>4. QED  BY <2>2, <2>3
  <1> HIDE DEF P
  <1>3. Len(P) \in Nat /\ Len(b) \in Nat /\ Len(<<CapFull>>) = 1
    BY <1>1, Concat
  <1>4. PICK S : P \in Seq(S) /\ <<CapFull>> \in Seq(S)
    BY <1>1, Common
  <1>5. (P \o <<CapFull>>)[k] = CapFull
    BY <1>3, <1>4, ConcatProperties
  <1>6. k \in DOMAIN (P \o <<CapFull>>) /\ k - 1 <= Len(P \o b)
    BY <1>1, <1>3, Concat
  <1>7. SubSeq(P \o <<CapFull>>, 1, k - 1) = SubSeq(P \o b, 1, k - 1)
    BY <1>1, <1>3, Beginning
  <1>8. QED  BY <1>2, <1>5, <1>6, <1>7 DEF Faithful

LEMMA FaithfulGrows ==
    ASSUME NEW c, NEW d, NEW items, NEW base, NEW N,
           IsBuffer(c), IsBuffer(d), Listed(items), Listed(base), Listed(N),
           GrewBy(c, d, items), Faithful(base \o c.buf, N, c.full)
    PROVE  Faithful(base \o d.buf, N \o items, d.full)
  <1> DEFINE K == base \o c.buf
  <1>1. PICK x : /\ Listed(x)
                 /\ d.buf = c.buf \o x /\ d.reset = c.reset
                 /\ \/ c.full /\ d.full
                    \/ ~c.full /\ ~d.full /\ x = items
                    \/ /\ ~c.full /\ d.full
                       /\ \E a, b : /\ Listed(a) /\ Listed(b)
                                    /\ items = a \o b /\ x = a \o <<CapFull>>
    BY DEF GrewBy
  <1>2. Listed(c.buf) /\ c.full \in BOOLEAN /\ d.full \in BOOLEAN
    BY DEF IsBuffer
  <1>3. base \o d.buf = K \o x /\ Listed(K)
    <2> DEFINE q == c.buf
    <2>1. (base \o q) \o x = base \o (q \o x)
      <3>1. Listed(q) /\ Listed(x)
        BY <1>1, <1>2
      <3> HIDE DEF q
      <3>2. QED  BY <3>1, Assoc
    <2>2. Listed(K)
      BY <1>2, Concat
    <2>3. QED  BY <1>1, <2>1, <2>2
  <1> HIDE DEF K
  <1>4. Faithful(K, N, c.full)
    BY DEF K
  <1>5. CASE c.full /\ d.full
    <2>1. c.full = TRUE /\ d.full = TRUE
      BY <1>2, <1>5
    <2>2. Faithful(K \o x, N \o items, TRUE)
      BY <1>1, <1>3, <1>4, <2>1, FaithfulOn
    <2>3. QED  BY <1>3, <2>1, <2>2
  <1>6. CASE ~c.full /\ ~d.full /\ x = items
    BY <1>2, <1>3, <1>4, <1>6 DEF Faithful
  <1>7. CASE /\ ~c.full /\ d.full
             /\ \E a, b : /\ Listed(a) /\ Listed(b)
                          /\ items = a \o b /\ x = a \o <<CapFull>>
    <2>1. PICK a, b : Listed(a) /\ Listed(b) /\ items = a \o b /\ x = a \o <<CapFull>>
      BY <1>7
    <2>2. K = N
      BY <1>2, <1>4, <1>7 DEF Faithful
    <2>3. Faithful(K \o x, N \o items, TRUE)
      BY <1>3, <2>1, <2>2, FaithfulCut
    <2>4. QED  BY <1>2, <1>3, <1>7, <2>3 DEF Faithful
  <1>8. QED  BY <1>1, <1>5, <1>6, <1>7
-----------------------------------------------------------------------------
(* The operations of the buffer.                                           *)

LEMMA NoteFullShape ==
    ASSUME NEW c, IsBuffer(c)
    PROVE  /\ IsBuffer(NoteFull(c)) /\ NoteFull(c).reset = c.reset /\ NoteFull(c).full
           /\ \/ c.full /\ NoteFull(c).buf = c.buf
              \/ ~c.full /\ NoteFull(c).buf = c.buf \o <<CapFull>>
  <1>1. CASE c.full
    BY <1>1 DEF NoteFull, IsBuffer
  <1>2. CASE ~c.full
    <2>1. Append(c.buf, CapFull) = c.buf \o <<CapFull>> /\ Listed(c.buf \o <<CapFull>>)
      <3>1. Listed(c.buf) /\ Listed(<<CapFull>>)
        BY Tuples DEF IsBuffer
      <3>2. PICK S : c.buf \in Seq(S) /\ <<CapFull>> \in Seq(S)
        BY <3>1, Common
      <3>3. CapFull \in S
        BY <3>2, ElementOfSeq
      <3>4. QED  BY <3>1, <3>2, <3>3, AppendIsConcat, Concat
    <2>2. NoteFull(c) = [armed |-> c.armed, buf |-> c.buf \o <<CapFull>>,
                         reset |-> c.reset, full |-> TRUE]
      BY <1>2, <2>1 DEF NoteFull, IsBuffer
    <2>3. QED  BY <1>2, <2>1, <2>2 DEF IsBuffer
  <1>3. QED  BY <1>1, <1>2

LEMMA AppendedShape ==
    ASSUME NEW c, NEW x, NEW d, IsBuffer(c), Listed(x), d = Appended(c, x)
    PROVE  d.buf = c.buf \o x /\ d.reset = c.reset /\ d.full = c.full /\ IsBuffer(d)
  <1> DEFINE y == c.buf \o x
  <1>1. Listed(y)
    BY Concat DEF IsBuffer
  <1>2. d = [c EXCEPT !.buf = y]
    BY DEF Appended
  <1> HIDE DEF y
  <1>3. d = [armed |-> c.armed, buf |-> y, reset |-> c.reset, full |-> c.full]
    BY <1>2 DEF IsBuffer
  <1>4. d.buf = y /\ d.reset = c.reset /\ d.full = c.full /\ IsBuffer(d)
    BY <1>1, <1>3 DEF IsBuffer
  <1>5. QED  BY <1>4 DEF y

LEMMA Pair == ASSUME NEW x, NEW y PROVE <<x>> \o <<y>> = <<x, y>>
  <1> DEFINE S == {x, y}
             p == <<x>>
             q == <<y>>
             r == <<x, y>>
  <1>1. p \in Seq(S) /\ q \in Seq(S) /\ r \in Seq(S)
    OBVIOUS
  <1>2. Len(p) = 1 /\ Len(q) = 1 /\ Len(r) = 2 /\ p[1] = x /\ q[1] = y /\ r[1] = x /\ r[2] = y
    OBVIOUS
  <1> HIDE DEF S, p, q, r
  <1>3. p \o q \in Seq(S) /\ Len(p \o q) = 2 /\ (p \o q)[1] = x /\ (p \o q)[2] = y
    BY <1>1, <1>2, ConcatProperties
  <1>4. p \o q = r
    BY <1>1, <1>2, <1>3, SeqEqual
  <1>5. QED  BY <1>4 DEF p, q, r

\* A line that is noted.
LEMMA NotedShape ==
    ASSUME NEW c, NEW text, IsBuffer(c)
    PROVE  IsBuffer(Noted(c, text)) /\ GrewBy(c, Noted(c, text), <<text, Eol>>)
  <1> DEFINE with == Appended(c, <<text>>)
             d == Noted(c, text)
  <1>1. /\ Listed(<<>>) /\ Listed(<<text>>) /\ Listed(<<Eol>>) /\ Listed(<<text, Eol>>)
        /\ Listed(<<CapFull>>) /\ Listed(c.buf)
    BY Tuples DEF IsBuffer
  <1>2. with.buf = c.buf \o <<text>> /\ with.reset = c.reset /\ with.full = c.full
        /\ IsBuffer(with)
    BY <1>1, AppendedShape
  <1>3. c.full \in BOOLEAN
    BY DEF IsBuffer
  <1>4. <<text>> \o <<Eol>> = <<text, Eol>>
    BY Pair
  <1> HIDE DEF with
  <1>5. CASE ~Fits(c, <<text>>)
    <2>1. d = NoteFull(c)
      BY <1>5 DEF Noted
    <2> HIDE DEF d
    <2>2. IsBuffer(d) /\ d.reset = c.reset /\ d.full
      BY <2>1, NoteFullShape
    <2>3. CASE c.full
      <3>1. d.buf = c.buf \o <<>>
        BY <1>1, <2>1, <2>3, NoteFullShape, Concat
      <3>2. GrewBy(c, d, <<text, Eol>>)
        BY <1>1, <2>2, <2>3, <3>1 DEF GrewBy
      <3>3. QED  BY <2>2, <3>2 DEF d
    <2>4. CASE ~c.full
      <3>1. d.buf = c.buf \o <<CapFull>>
        BY <2>1, <2>4, NoteFullShape
      <3>2. <<CapFull>> = <<>> \o <<CapFull>> /\ <<text, Eol>> = <<>> \o <<text, Eol>>
        BY <1>1, Concat
      <3>3. \E a, b : /\ Listed(a) /\ Listed(b)
                      /\ <<text, Eol>> = a \o b /\ <<CapFull>> = a \o <<CapFull>>
        BY <1>1, <3>2
      <3>4. GrewBy(c, d, <<text, Eol>>)
        BY <1>1, <2>2, <2>4, <3>1, <3>3 DEF GrewBy
      <3>5. QED  BY <2>2, <3>4 DEF d
    <2>5. QED  BY <1>3, <2>3, <2>4
  <1>6. CASE Fits(c, <<text>>) /\ ~Fits(with, <<Eol>>)
    <2>1. d = NoteFull(with)
      BY <1>6 DEF Noted, with
    <2> HIDE DEF d
    <2>2. IsBuffer(d) /\ d.reset = c.reset /\ d.full
      BY <1>2, <2>1, NoteFullShape
    <2>3. CASE c.full
      <3>1. d.buf = c.buf \o <<text>>
        BY <1>2, <2>1, <2>3, NoteFullShape
      <3>2. GrewBy(c, d, <<text, Eol>>)
        BY <1>1, <2>2, <2>3, <3>1 DEF GrewBy
      <3>3. QED  BY <2>2, <3>2 DEF d
    <2>4. CASE ~c.full
      <3> DEFINE x == <<text>> \o <<CapFull>>
      <3>1. d.buf = (c.buf \o <<text>>) \o <<CapFull>>
        BY <1>2, <2>1, <2>4, NoteFullShape
      <3>2. d.buf = c.buf \o x /\ Listed(x)
        BY <1>1, <3>1, Assoc, Concat
      <3>3. \E a, b : /\ Listed(a) /\ Listed(b)
                      /\ <<text, Eol>> = a \o b /\ x = a \o <<CapFull>>
        BY <1>1, <1>4
      <3> HIDE DEF x
      <3>4. GrewBy(c, d, <<text, Eol>>)
        BY <2>2, <2>4, <3>2, <3>3 DEF GrewBy
      <3>5. QED  BY <2>2, <3>4 DEF d
    <2>5. QED  BY <1>3, <2>3, <2>4
  <1>7. CASE Fits(c, <<text>>) /\ Fits(with, <<Eol>>)
    <2>1. d = Appended(with, <<Eol>>)
      BY <1>7 DEF Noted, with
    <2> HIDE DEF d
    <2>2. d.buf = with.buf \o <<Eol>> /\ d.reset = c.reset /\ d.full = c.full /\ IsBuffer(d)
      <3> DEFINE eol == <<Eol>>
      <3>1. d.buf = with.buf \o eol /\ d.reset = with.reset /\ d.full = with.full
            /\ IsBuffer(d)
        <4>1. d = Appended(with, eol) /\ Listed(eol) /\ IsBuffer(with)
          BY <1>1, <1>2, <2>1
        <4> HIDE DEF eol
        <4>2. QED  BY <4>1, AppendedShape
      <3>2. QED  BY <1>2, <3>1
    <2>3. d.buf = (c.buf \o <<text>>) \o <<Eol>>
      BY <1>2, <2>2
    <2>4. d.buf = c.buf \o <<text, Eol>>
      <3>1. (c.buf \o <<text>>) \o <<Eol>> = c.buf \o (<<text>> \o <<Eol>>)
        BY <1>1, Assoc
      <3>2. QED  BY <1>4, <2>3, <3>1
    <2>5. GrewBy(c, d, <<text, Eol>>)
      BY <1>1, <1>3, <2>2, <2>4 DEF GrewBy
    <2>6. QED  BY <2>2, <2>5 DEF d
  <1>8. QED  BY <1>5, <1>6, <1>7

\* A mark.
LEMMA MarkedShape ==
    ASSUME NEW c, NEW mark, IsBuffer(c)
    PROVE  IsBuffer(Marked(c, mark)) /\ GrewBy(c, Marked(c, mark), <<mark, Eol>>)
  <1> DEFINE d == Marked(c, mark)
  <1>1. /\ Listed(<<>>) /\ Listed(<<mark, Eol>>) /\ Listed(<<CapFull>>) /\ Listed(c.buf)
        /\ c.full \in BOOLEAN
    BY Tuples DEF IsBuffer
  <1>2. CASE Fits(c, <<mark, Eol>>)
    <2>1. d = Appended(c, <<mark, Eol>>)
      BY <1>2 DEF Marked
    <2> HIDE DEF d
    <2>2. d.buf = c.buf \o <<mark, Eol>> /\ d.reset = c.reset /\ d.full = c.full /\ IsBuffer(d)
      BY <1>1, <2>1, AppendedShape
    <2>3. GrewBy(c, d, <<mark, Eol>>)
      BY <1>1, <2>2 DEF GrewBy
    <2>4. QED  BY <2>2, <2>3 DEF d
  <1>3. CASE ~Fits(c, <<mark, Eol>>)
    <2>1. d = NoteFull(c)
      BY <1>3 DEF Marked
    <2> HIDE DEF d
    <2>2. IsBuffer(d) /\ d.reset = c.reset /\ d.full
      BY <2>1, NoteFullShape
    <2>3. CASE c.full
      <3>1. d.buf = c.buf \o <<>>
        BY <1>1, <2>1, <2>3, NoteFullShape, Concat
      <3>2. GrewBy(c, d, <<mark, Eol>>)
        BY <1>1, <2>2, <2>3, <3>1 DEF GrewBy
      <3>3. QED  BY <2>2, <3>2 DEF d
    <2>4. CASE ~c.full
      <3>1. d.buf = c.buf \o <<CapFull>>
        BY <2>1, <2>4, NoteFullShape
      <3>2. <<CapFull>> = <<>> \o <<CapFull>> /\ <<mark, Eol>> = <<>> \o <<mark, Eol>>
        BY <1>1, Concat
      <3>3. \E a, b : /\ Listed(a) /\ Listed(b)
                      /\ <<mark, Eol>> = a \o b /\ <<CapFull>> = a \o <<CapFull>>
        BY <1>1, <3>2
      <3>4. GrewBy(c, d, <<mark, Eol>>)
        BY <1>1, <2>2, <2>4, <3>1, <3>3 DEF GrewBy
      <3>5. QED  BY <2>2, <3>4 DEF d
    <2>5. QED  BY <1>1, <2>3, <2>4
  <1>4. QED  BY <1>2, <1>3

-----------------------------------------------------------------------------
(* The steps.                                                              *)

\* What is kept before the buffer.
Base == IF capture.reset THEN <<>> ELSE Opened \o flush.items

LEMMA Bases ==
    ASSUME CType
    PROVE  Kept = Base \o capture.buf /\ Listed(Opened) /\ Listed(Base) /\ Listed(capture.buf)
  <1>1. Listed(Opened)
    BY Tuples DEF Opened, CType
  <1>2. Listed(Base)
    BY <1>1, Tuples, Concat DEF Base, CType
  <1>3. QED  BY <1>1, <1>2 DEF Kept, Base, CType, IsBuffer

\* What is said is noted while the file and the chunk are left alone.
LEMMA Grows ==
    ASSUME CInv, NEW items, Listed(items), IsBuffer(capture'), GrewBy(capture, capture', items),
           noted' = [noted EXCEPT !.items = @ \o items], UNCHANGED <<flush, file>>
    PROVE  CInv'
  <1>1. capture'.reset = capture.reset
    BY DEF GrewBy
  <1> DEFINE N == noted.items
  <1>2. noted' = [items |-> N \o items, torn |-> noted.torn] /\ Listed(N) /\ Listed(N \o items)
    <2>1. Listed(N) /\ Listed(N \o items)
      BY Concat DEF CInv, CType
    <2>2. \A y : [noted EXCEPT !.items = y] = [items |-> y, torn |-> noted.torn]
      BY DEF CInv, CType
    <2>3. QED  BY <2>1, <2>2
  <1>3. noted'.items = N \o items /\ noted'.torn = noted.torn
    BY <1>2
  <1>4. CType'
    BY <1>2, <1>3 DEF CInv, CType
  <1>5. Base' = Base
    BY <1>1 DEF Base, Opened
  <1>6. Kept' = Base \o capture'.buf
    BY <1>5 DEF Kept, Base, Opened
  <1>7. Torn => Torn'
    BY <1>1, <1>3 DEF Torn
  <1>8. ASSUME Faithful(Kept, N, capture.full)
        PROVE  Faithful(Kept', N \o items, capture'.full)
    <2>1. Faithful(Base \o capture.buf, N, capture.full) /\ Listed(Base) /\ IsBuffer(capture)
      BY <1>8, Bases DEF CInv, CType
    <2>2. Faithful(Base \o capture'.buf, N \o items, capture'.full)
      BY <1>2, <2>1, FaithfulGrows
    <2>3. QED  BY <1>6, <2>2
  <1>9. QED  BY <1>3, <1>4, <1>7, <1>8 DEF CInv

LEMMA NoteKeeps ==
    ASSUME CInv, NEW text, CaptureNote(text), UNCHANGED <<flush, file>>
    PROVE  CInv'
  <1>1. CASE capture.armed
    <2>1. IsBuffer(capture') /\ GrewBy(capture, capture', <<text, Eol>>)
      BY <1>1, NotedShape DEF CaptureNote, CInv, CType
    <2>2. noted' = [noted EXCEPT !.items = @ \o <<text, Eol>>]
      BY <1>1 DEF CaptureNote
    <2>3. QED  BY <2>1, <2>2, Tuples, Grows
  <1>2. CASE ~capture.armed
    BY <1>2 DEF CaptureNote, CInv, CType, Torn, Kept, Opened
  <1>3. QED  BY <1>1, <1>2

LEMMA ArmOnKeeps == ASSUME CInv, NEW mark, ArmOn(mark) PROVE CInv'
  <1> DEFINE armed == [capture EXCEPT !.armed = TRUE]
  <1>1. armed = [armed |-> TRUE, buf |-> capture.buf, reset |-> capture.reset,
                 full |-> capture.full]
    <2>1. \A c, v : IsBuffer(c) => [c EXCEPT !.armed = v] =
                     [armed |-> v, buf |-> c.buf, reset |-> c.reset, full |-> c.full]
      BY DEF IsBuffer
    <2>2. QED  BY <2>1 DEF CInv, CType
  <1>2. IsBuffer(armed)
    BY <1>1 DEF CInv, CType, IsBuffer
  <1>3. armed.buf = capture.buf /\ armed.reset = capture.reset /\ armed.full = capture.full
    BY <1>1
  <1> HIDE DEF armed
  <1>4. capture' = Marked(armed, mark)
    BY DEF ArmOn, armed
  <1>5. IsBuffer(capture') /\ GrewBy(armed, capture', <<mark, Eol>>)
    BY <1>2, <1>4, MarkedShape
  <1>6. GrewBy(capture, capture', <<mark, Eol>>)
    BY <1>3, <1>5 DEF GrewBy
  <1>7. QED  BY <1>5, <1>6, Tuples, Grows DEF ArmOn

LEMMA ArmNewKeeps == ASSUME CInv, NEW mark, ArmNew(mark) PROVE CInv'
  <1> DEFINE new == [armed |-> TRUE, buf |-> <<>>, reset |-> TRUE, full |-> FALSE]
  <1>1. IsBuffer(new) /\ new.buf = <<>> /\ new.reset /\ ~new.full
    BY Tuples DEF IsBuffer
  <1> HIDE DEF new
  <1>2. capture' = Marked(new, mark)
    BY DEF ArmNew, new
  <1>3. IsBuffer(capture') /\ GrewBy(new, capture', <<mark, Eol>>)
    BY <1>1, <1>2, MarkedShape
  <1>4. capture'.reset
    BY <1>1, <1>3 DEF GrewBy
  <1>5. noted' = [items |-> <<mark, Eol>>, torn |-> noted.torn]
    BY DEF ArmNew
  <1>6. Listed(<<>>) /\ Listed(<<mark, Eol>>)
    BY Tuples
  <1>7. CType'
    BY <1>3, <1>5, <1>6 DEF ArmNew, CInv, CType
  <1>8. Faithful(<<>> \o new.buf, <<>>, new.full)
    BY <1>1, <1>6, Concat DEF Faithful
  <1>9. Faithful(<<>> \o capture'.buf, <<>> \o <<mark, Eol>>, capture'.full)
    BY <1>1, <1>3, <1>6, <1>8, FaithfulGrows
  <1>10. <<>> \o <<mark, Eol>> = <<mark, Eol>>
    BY <1>6, Concat
  <1>11. Kept' = <<>> \o capture'.buf
    BY <1>4 DEF Kept
  <1>12. Faithful(Kept', noted'.items, capture'.full)
    BY <1>5, <1>9, <1>10, <1>11
  <1>13. QED  BY <1>7, <1>12 DEF CInv

LEMMA DisarmKeeps == ASSUME CInv, Disarm PROVE CInv'
  <1>1. capture' = [armed |-> FALSE, buf |-> capture.buf, reset |-> capture.reset,
                    full |-> capture.full]
    BY DEF Disarm, CInv, CType, IsBuffer
  <1>2. UNCHANGED <<flush, file, noted>>
    BY DEF Disarm
  <1>3. /\ capture'.buf = capture.buf /\ capture'.reset = capture.reset
        /\ capture'.full = capture.full /\ IsBuffer(capture')
    BY <1>1 DEF CInv, CType, IsBuffer
  <1>4. CType' /\ Kept' = Kept /\ (Torn <=> Torn')
    BY <1>2, <1>3 DEF CInv, CType, Kept, Opened, Torn
  <1>5. QED  BY <1>2, <1>3, <1>4 DEF CInv

LEMMA PullKeeps == ASSUME CInv, Pull PROVE CInv'
  <1> DEFINE b == capture.buf
             n == IF Len(b) < PullMax THEN Len(b) ELSE PullMax
             taken == SubSeq(b, 1, n)
             left == SubSeq(b, n + 1, Len(b))
  <1>1. Listed(b) /\ Len(b) \in Nat
    BY Concat DEF CInv, CType, IsBuffer
  <1>2. n \in Nat /\ n <= Len(b)
    BY <1>1, CaptureAssumption
  <1>3. Listed(taken) /\ Listed(left) /\ taken \o left = b
    BY <1>1, <1>2, Split
  <1>4. /\ flush' = [items |-> taken, reset |-> capture.reset, due |-> TRUE]
        /\ capture' = [capture EXCEPT !.reset = FALSE, !.buf = left]
        /\ flush.items = <<>> /\ ~flush.reset
        /\ UNCHANGED <<file, noted>>
    BY DEF Pull
  <1> HIDE DEF n, taken, left
  <1>5. capture' = [armed |-> capture.armed, buf |-> left, reset |-> FALSE,
                    full |-> capture.full]
    BY <1>4 DEF CInv, CType, IsBuffer
  <1>6. IsBuffer(capture') /\ CType'
    BY <1>3, <1>4, <1>5 DEF CInv, CType, IsBuffer
  <1>7. Kept' = Kept
    <2>1. Kept' = Opened' \o taken \o left
      BY <1>4, <1>5 DEF Kept, Opened
    <2>2. Opened' = IF capture.reset THEN <<>> ELSE file
      BY <1>4 DEF Opened
    <2>3. Listed(Opened') /\ Listed(file)
      BY <2>2, Tuples DEF CInv, CType
    <2>4. Kept' = Opened' \o b
      <3> DEFINE o == Opened'
      <3>1. Listed(o) /\ Listed(taken) /\ Listed(left)
        BY <1>3, <2>3
      <3> HIDE DEF o, b
      <3>2. (o \o taken) \o left = o \o (taken \o left)
        BY <3>1, Assoc
      <3>3. QED  BY <1>3, <2>1, <3>2 DEF o
    <2>5. Kept = (IF capture.reset THEN <<>> ELSE file \o <<>>) \o b
      BY <1>4 DEF Kept, Opened
    <2>6. file \o <<>> = file
      BY <2>3, Tuples, Concat
    <2>7. QED  BY <2>2, <2>4, <2>5, <2>6
  <1>8. Torn => Torn'
    BY <1>4, <1>5 DEF Torn
  <1>9. QED  BY <1>4, <1>5, <1>6, <1>7, <1>8 DEF CInv

LEMMA PullNotKeeps == ASSUME CInv, PullNot PROVE CInv'
  <1>1. flush' = [items |-> flush.items, reset |-> flush.reset, due |-> TRUE]
        /\ UNCHANGED <<capture, file, noted>>
    BY DEF PullNot, CInv, CType
  <1>2. flush'.items = flush.items /\ flush'.reset = flush.reset
    BY <1>1
  <1>3. QED  BY <1>1, <1>2 DEF CInv, CType, Torn, Kept, Opened

LEMMA WriteKeeps == ASSUME CInv, Write PROVE CInv'
  <1>1. /\ file' = Opened \o flush.items
        /\ flush' = [items |-> <<>>, reset |-> FALSE, due |-> FALSE]
        /\ noted' = [items |-> noted.items, torn |-> noted.torn /\ ~flush.reset]
        /\ capture' = capture
    BY DEF Write, CInv, CType
  <1>2. Listed(Opened) /\ Listed(flush.items) /\ Listed(file') /\ Listed(<<>>)
    BY <1>1, Bases, Concat, Tuples DEF CInv, CType
  <1>3. CType'
    BY <1>1, <1>2 DEF CInv, CType
  <1>4. Kept' = Kept
    <2>1. Kept' = (IF capture.reset THEN <<>> ELSE file' \o <<>>) \o capture.buf
      BY <1>1 DEF Kept, Opened
    <2>2. file' \o <<>> = file'
      BY <1>2, Concat
    <2>3. QED  BY <1>1, <2>1, <2>2 DEF Kept
  <1>5. Torn => Torn'
    BY <1>1 DEF Torn
  <1>6. QED  BY <1>1, <1>3, <1>4, <1>5 DEF CInv

LEMMA WriteFailsKeeps == ASSUME CInv, WriteFails PROVE CInv'
  <1>1. flush' = [items |-> flush.items, reset |-> flush.reset, due |-> FALSE]
        /\ capture' = capture
    BY DEF WriteFails, CInv, CType
  <1>2. CASE UNCHANGED <<file, noted>>
    BY <1>1, <1>2 DEF CInv, CType, Torn, Kept, Opened
  <1>3. ASSUME NEW n \in 0..Len(flush.items),
               file' = Opened \o SubSeq(flush.items, 1, n),
               noted' = [noted EXCEPT !.torn = @ \/ (n > 0 /\ ~flush.reset)]
        PROVE  CInv'
    <2> DEFINE part == SubSeq(flush.items, 1, n)
    <2>1. Listed(flush.items) /\ Len(flush.items) \in Nat /\ Listed(Opened)
      BY Bases, Concat DEF CInv, CType
    <2>2. n \in Nat /\ n <= Len(flush.items)
      BY <2>1
    <2>3. Listed(part) /\ (n = 0 => part = <<>>)
      BY <2>1, <2>2, Split
    <2>4. noted' = [items |-> noted.items, torn |-> noted.torn \/ (n > 0 /\ ~flush.reset)]
      BY <1>3 DEF CInv, CType
    <2> HIDE DEF part
    <2>5. Listed(file')
      BY <1>3, <2>1, <2>3, Concat DEF part
    <2>6. CType'
      BY <1>1, <2>4, <2>5 DEF CInv, CType
    <2>7. CASE capture.reset \/ flush.reset
      <3>1. Kept' = Kept
        BY <1>1, <2>7 DEF Kept, Opened
      <3>2. ~Torn
        BY <2>7 DEF Torn
      <3>3. QED  BY <1>1, <2>4, <2>6, <3>1, <3>2 DEF CInv
    <2>8. CASE ~capture.reset /\ ~flush.reset /\ n = 0
      <3>1. file' = file
        BY <1>3, <2>1, <2>3, <2>8, Concat DEF Opened, part
      <3>2. Kept' = Kept /\ (Torn => Torn')
        BY <1>1, <2>4, <2>8, <3>1 DEF Kept, Opened, Torn
      <3>3. QED  BY <1>1, <2>4, <2>6, <3>2 DEF CInv
    <2>9. CASE ~capture.reset /\ ~flush.reset /\ n # 0
      <3>1. n > 0
        BY <2>2, <2>9
      <3>2. noted'.torn = (noted.torn \/ (n > 0 /\ ~flush.reset))
        BY <2>4
      <3>3. capture'.reset = capture.reset /\ flush'.reset = flush.reset
        BY <1>1
      <3>4. Torn'
        BY <2>9, <3>1, <3>2, <3>3 DEF Torn
      <3>5. QED  BY <2>6, <3>4 DEF CInv
    <2>10. QED  BY <2>7, <2>8, <2>9
  <1>4. QED  BY <1>2, <1>3 DEF WriteFails

LEMMA SameKeeps == ASSUME CInv, UNCHANGED captureVars PROVE CInv'
  BY DEF captureVars, CInv, CType, Torn, Kept, Opened

-----------------------------------------------------------------------------
LEMMA InitCapture == Init => CInv
  <1> SUFFICES ASSUME Init PROVE CInv
    OBVIOUS
  <1>1. Listed(<<>>) /\ <<>> \o <<>> = <<>>
    BY Tuples, Concat
  <1>2. CType
    BY <1>1 DEF Init, CaptureInit, CType, IsBuffer
  <1>3. Kept = <<>> /\ noted.items = <<>> /\ ~capture.full
    BY <1>1 DEF Init, CaptureInit, Kept, Opened
  <1>4. QED  BY <1>2, <1>3 DEF CInv, Faithful

LEMMA NextCapture == CInv /\ [Next]_vars => CInv'
  <1> SUFFICES ASSUME CInv, [Next]_vars PROVE CInv'
    OBVIOUS
  <1>1. CASE UNCHANGED vars
    BY <1>1, SameKeeps DEF vars, captureVars
  <1>2. CASE BoardAnswers \/ BoardStreams \/ Burst \/ Feed
    BY <1>2, SameKeeps DEF BoardAnswers, BoardStreams, Sends, Burst, Feed
  <1>3. CASE HandleReady
    BY <1>3, NoteKeeps DEF HandleReady
  <1>4. CASE GuiArms
    BY <1>4, ArmNewKeeps, ArmOnKeeps DEF GuiArms
  <1>5. CASE GuiDisarms
    BY <1>5, DisarmKeeps DEF GuiDisarms
  <1>6. CASE TickPulls
    BY <1>6, PullKeeps, PullNotKeeps DEF TickPulls
  <1>7. CASE TickWrites
    BY <1>7, WriteKeeps DEF TickWrites
  <1>8. CASE TickFails
    BY <1>8, WriteFailsKeeps DEF TickFails
  <1>9. QED  BY <1>1, <1>2, <1>3, <1>4, <1>5, <1>6, <1>7, <1>8 DEF Next

LEMMA CaptureFaithful == CInv => CaptureTrue
  <1> SUFFICES ASSUME CInv, ~noted.torn
               PROVE  LET full == {k \in DOMAIN Kept : Kept[k] = CapFull}
                      IN  IF full = {} THEN Kept = noted.items
                          ELSE \E k \in full :
                                  /\ k - 1 <= Len(noted.items)
                                  /\ SubSeq(Kept, 1, k - 1) = SubSeq(noted.items, 1, k - 1)
    BY DEF CaptureTrue
  <1>1. Faithful(Kept, noted.items, capture.full) /\ capture.full \in BOOLEAN
    BY DEF CInv, CType, IsBuffer, Torn
  <1>2. CASE capture.full
    BY <1>1, <1>2 DEF Faithful
  <1>3. CASE ~capture.full
    <2>1. Kept = noted.items
      BY <1>1, <1>3 DEF Faithful
    <2>2. Len(Kept) \in Nat /\ DOMAIN Kept = 1..Len(Kept)
      BY <2>1, Concat DEF CInv, CType
    <2>3. QED  BY <2>1, <2>2
  <1>4. QED  BY <1>1, <1>2, <1>3

\* The capture in uart_join.txt, on its way and in the buffer is what was
\* said since it was armed, up to the first note of a full buffer
\* (sr_uart_cap.c, sigroam.c:300-314).
THEOREM CaptureCorrect == Spec => []CaptureTrue
  <1>1. Spec => []CInv
    BY InitCapture, NextCapture, PTL DEF Spec
  <1>2. QED  BY <1>1, CaptureFaithful, PTL

\* A set of naturals that holds 0 and, with a number, the next is all of them.
LEMMA ByCounting ==
  ASSUME NEW P \in SUBSET Nat, 0 \in P, \A n \in Nat : n \in P => n + 1 \in P
  PROVE  P = Nat
  <1>1. SUFFICES ASSUME Nat \ P # {} PROVE FALSE
    OBVIOUS
  <1>2. \A x, y \in Nat : x < y => <<x, y>> \in OpToRel(<, Nat)
    BY Zenon DEF OpToRel
  <1>3. \E x \in Nat \ P : \A y \in Nat \ P : ~(<<y, x>> \in OpToRel(<, Nat))
    BY <1>1, NatLessThanWellFounded, WFMin
  <1>4. PICK x \in Nat \ P : \A y \in Nat \ P : ~(y < x)
    BY <1>3, <1>2, Zenon
  <1>5. x - 1 \in Nat /\ x - 1 < x
    BY <1>4
  <1>6. x - 1 \in P BY <1>4, <1>5
  <1> QED BY <1>6, <1>5, <1>4

-----------------------------------------------------------------------------
(* Sequences of sequences.                                                 *)

Step(g, q, i) == IF i = 1 THEN q[i] ELSE g[i - 1] \o q[i]

Steps(g, q, m) == \A i \in 1..m : g[i] = Step(g, q, i)

\* The recursion behind FlattenSeq has a solution over every part of q.
LEMMA StepsExist ==
  ASSUME NEW P, NEW q \in Seq(P)
  PROVE  \A m \in Nat : m <= Len(q) => \E g : g = [i \in 1..m |-> Step(g, q, i)]
  <1> DEFINE C == {m \in Nat : m <= Len(q) => \E g : g = [i \in 1..m |-> Step(g, q, i)]}
  <1>1. 0 \in C
    <2> DEFINE g == [i \in 1..0 |-> q[i]]
    <2>1. g = [i \in 1..0 |-> Step(g, q, i)] OBVIOUS
    <2> QED BY <2>1
  <1>2. ASSUME NEW m \in Nat, m \in C PROVE m + 1 \in C
    <2> SUFFICES ASSUME m + 1 <= Len(q)
                 PROVE  \E h : h = [i \in 1..(m + 1) |-> Step(h, q, i)]
      OBVIOUS
    <2>1. PICK g : g = [i \in 1..m |-> Step(g, q, i)] BY <1>2
    <2> DEFINE last == Step(g, q, m + 1)
               h == [i \in 1..(m + 1) |-> IF i = m + 1 THEN last ELSE g[i]]
    <2>2. ASSUME NEW i \in 1..(m + 1) PROVE h[i] = Step(h, q, i)
      <3>1. CASE i = m + 1 /\ i = 1
        BY <3>1 DEF Step
      <3>2. CASE i = m + 1 /\ i # 1
        <4>1. m \in 1..m /\ m \in 1..(m + 1) /\ m # m + 1 /\ i - 1 = m BY <3>2
        <4>2. h[m] = g[m] /\ h[i] = last BY <4>1, <3>2
        <4> QED BY <3>2, <4>1, <4>2 DEF Step
      <3>3. CASE i # m + 1
        <4>1. i \in 1..m /\ (i # 1 => i - 1 \in 1..m /\ i - 1 \in 1..(m + 1) /\ i - 1 # m + 1)
            BY <3>3
        <4>2. h[i] = g[i] /\ (i # 1 => h[i - 1] = g[i - 1]) BY <4>1, <3>3
        <4>3. g[i] = Step(g, q, i) BY <2>1, <4>1
        <4> QED BY <4>2, <4>3 DEF Step
      <3> QED BY <3>1, <3>2, <3>3
    <2>3. h = [i \in 1..(m + 1) |-> h[i]] OBVIOUS
    <2> HIDE DEF h
    <2>4. h = [i \in 1..(m + 1) |-> Step(h, q, i)] BY <2>2, <2>3, Zenon
    <2> QED BY <2>4
  <1> HIDE DEF C
  <1>3. C = Nat BY <1>1, <1>2, ByCounting DEF C
  <1> QED BY <1>3 DEF C

\* What holds of the first sequence, and stays to hold as the next ones are
\* appended, holds of all.
LEMMA FlattenUpTo ==
  ASSUME NEW S, NEW q \in Seq(S), q # <<>>, NEW Q,
         q[1] \in Q[1],
         \A i \in 1..Len(q) : i < Len(q) => \A x \in Q[i] : x \o q[i + 1] \in Q[i + 1]
  PROVE  FlattenSeq(q) \in Q[Len(q)]
  <1>1. PICK n \in Nat : n = Len(q) OBVIOUS
  <1>2. PICK g : g = [i \in 1..n |-> Step(g, q, i)]
    BY <1>1, StepsExist, n <= Len(q)
  <1>3. \E h : h = [i \in 1..n |-> Step(h, q, i)] /\ FlattenSeq(q) = h[n]
    <2> DEFINE F == CHOOSE f : f = [i \in 1..Len(q) |-> Step(f, q, i)]
    <2>1. F = [i \in 1..n |-> Step(F, q, i)] BY <1>1, <1>2, Zenon
    <2>2. Len(q) # 0 OBVIOUS
    <2>3. FlattenSeq(q) = F[n] BY <1>1, <2>2, Zenon DEF FlattenSeq, Step
    <2> HIDE DEF F
    <2> QED BY <2>1, <2>3, Zenon
  <1>4. PICK h : h = [i \in 1..n |-> Step(h, q, i)] /\ FlattenSeq(q) = h[n]
    BY <1>3, Zenon
  <1>5. \A i \in 1..n : h[i] = Step(h, q, i) BY <1>4
  <1> DEFINE C == {m \in Nat : m + 1 <= n => h[m + 1] \in Q[m + 1]}
  <1>6. n > 0 BY <1>1
  <1>7. 0 \in C
    BY <1>5, <1>6 DEF Step
  <1>8. ASSUME NEW m \in Nat, m \in C PROVE m + 1 \in C
    <2> SUFFICES ASSUME m + 2 <= n PROVE h[(m + 1) + 1] \in Q[(m + 1) + 1]
      OBVIOUS
    <2>1. /\ (m + 1) + 1 \in 1..n /\ (m + 1) + 1 # 1 /\ ((m + 1) + 1) - 1 = m + 1
          /\ m + 1 \in 1..n /\ m + 1 < n
      OBVIOUS
    <2>2. h[(m + 1) + 1] = h[m + 1] \o q[(m + 1) + 1] BY <1>5, <2>1 DEF Step
    <2>3. h[m + 1] \in Q[m + 1] BY <1>8, <2>1
    <2> QED BY <1>1, <2>1, <2>2, <2>3
  <1> HIDE DEF C
  <1>9. C = Nat BY <1>7, <1>8, ByCounting DEF C
  <1>10. n - 1 \in Nat /\ (n - 1) + 1 = n BY <1>6
  <1>11. \A m \in Nat : m + 1 <= n => h[m + 1] \in Q[m + 1] BY <1>9 DEF C
  <1>12. h[n] \in Q[n]
    <2>1. h[(n - 1) + 1] \in Q[(n - 1) + 1] BY <1>10, <1>11
    <2> QED BY <1>10, <2>1
  <1> QED BY <1>1, <1>4, <1>12

-----------------------------------------------------------------------------
(* What is on the wire, a piece and the next.                              *)

Texts == LineKind \ {"cr", "nl"}

Count(k) == IF k = "long" THEN MaxText + 1 ELSE 2

PieceType == [k : LineKind, a : Nat, part : Nat]

Opens(p) == p.k \in Texts /\ p.part = 1

\* A line begins, or an empty one ends.
Fresh(p) == p = Cr \/ Opens(p)

Follows(p, q) ==
  \/ p = Nl /\ Fresh(q)
  \/ p = Cr /\ q = Nl
  \/ p.k \in Texts /\ p.part < Count(p.k) /\ q = Piece(p.k, p.a, p.part + 1)
  \/ p.k \in Texts /\ p.part >= Count(p.k) /\ q \in {Cr, Nl}

Orderly(w) ==
  /\ w \in Seq(PieceType)
  /\ \A i \in 1..Len(w) : i < Len(w) => Follows(w[i], w[i + 1])
  /\ w # <<>> => w[Len(w)] = Nl

Lines == {w \in Seq(PieceType) : w # <<>> /\ Orderly(w) /\ Fresh(w[1])}

\* Lines after lines are lines.
LEMMA LinesJoin == ASSUME NEW x \in Lines, NEW y \in Lines PROVE x \o y \in Lines
  <1> DEFINE w == x \o y
  <1>1. x \in Seq(PieceType) /\ x # <<>> /\ Orderly(x) /\ Fresh(x[1]) BY DEF Lines
  <1>2. y \in Seq(PieceType) /\ y # <<>> /\ Orderly(y) /\ Fresh(y[1]) BY DEF Lines
  <1>3. PICK m \in Nat, n \in Nat : m = Len(x) /\ n = Len(y) /\ m > 0 /\ n > 0
    BY <1>1, <1>2
  <1>4. /\ w \in Seq(PieceType) /\ Len(w) = m + n
        /\ \A i \in 1..m : w[i] = x[i]
        /\ \A i \in (m + 1)..(m + n) : w[i] = y[i - m]
    BY <1>1, <1>2, <1>3
  <1> HIDE DEF w
  <1>5. /\ \A i \in 1..m : i < m => Follows(x[i], x[i + 1])
        /\ \A i \in 1..n : i < n => Follows(y[i], y[i + 1])
        /\ x[m] = Nl /\ y[n] = Nl
    BY <1>1, <1>2, <1>3, Zenon DEF Orderly
  <1>6. ASSUME NEW i \in 1..Len(w), i < Len(w) PROVE Follows(w[i], w[i + 1])
    <2>1. CASE i < m
      <3>1. i \in 1..m /\ i + 1 \in 1..m BY <1>3, <2>1
      <3> QED BY <1>4, <1>5, <2>1, <3>1
    <2>2. CASE i = m
      <3>1. m \in 1..m /\ m + 1 \in (m + 1)..(m + n) /\ (m + 1) - m = 1 BY <1>3
      <3>2. w[i] = Nl /\ w[i + 1] = y[1] BY <1>4, <1>5, <2>2, <3>1
      <3> QED BY <1>2, <3>2 DEF Follows
    <2>3. CASE i > m
      <3>1. /\ i - m \in 1..n /\ i - m < n /\ (i + 1) - m = (i - m) + 1
            /\ i \in (m + 1)..(m + n) /\ i + 1 \in (m + 1)..(m + n)
        BY <1>3, <1>4, <2>3, <1>6
      <3>2. w[i] = y[i - m] /\ w[i + 1] = y[(i - m) + 1] BY <1>4, <3>1
      <3> QED BY <1>5, <3>1, <3>2
    <2> QED BY <1>3, <2>1, <2>2, <2>3
  <1>7. w # <<>> /\ w[Len(w)] = Nl /\ w[1] = x[1]
    <2>1. 1 \in 1..m /\ m + n \in (m + 1)..(m + n) /\ (m + n) - m = n BY <1>3
    <2> QED BY <1>3, <1>4, <1>5, <2>1
  <1>8. Orderly(w) BY <1>4, <1>6, <1>7 DEF Orderly
  <1> QED BY <1>1, <1>4, <1>7, <1>8 DEF Lines, w

\* A line is sent in its pieces, counted from 1.
LEMMA PiecesAre ==
  ASSUME NEW k \in Texts, NEW a \in Nat
  PROVE  /\ Pieces(k, a) \in Seq(PieceType) /\ Len(Pieces(k, a)) = Count(k)
         /\ Count(k) \in Nat /\ Count(k) >= 2
         /\ \A i \in 1..Count(k) : Pieces(k, a)[i] = Piece(k, a, i)
  <1>1. Count(k) \in Nat /\ Count(k) >= 2 BY IntakeAssumption DEF Count
  <1>2. Pieces(k, a) = [i \in 1..Count(k) |-> Piece(k, a, i)] BY DEF Pieces, Count
  <1>3. \A i \in 1..Count(k) : Piece(k, a, i) \in PieceType BY <1>1 DEF Piece, PieceType, Texts
  <1> QED BY <1>1, <1>2, <1>3

\* One piece more, or two.
LEMMA Ended ==
  ASSUME NEW S, NEW p \in Seq(S), NEW x \in S, NEW y \in S
  PROVE  /\ p \o <<x>> \in Seq(S) /\ Len(p \o <<x>>) = Len(p) + 1
         /\ (p \o <<x>>)[Len(p) + 1] = x
         /\ \A i \in 1..Len(p) : (p \o <<x>>)[i] = p[i]
         /\ p \o <<x, y>> \in Seq(S) /\ Len(p \o <<x, y>>) = Len(p) + 2
         /\ (p \o <<x, y>>)[Len(p) + 1] = x /\ (p \o <<x, y>>)[Len(p) + 2] = y
         /\ \A i \in 1..Len(p) : (p \o <<x, y>>)[i] = p[i]
         /\ p \o <<>> = p
  <1>1. p \o <<x>> \in Seq(S) /\ Len(p \o <<x>>) = Len(p) + 1
        /\ (p \o <<x>>)[Len(p) + 1] = x
        /\ \A i \in 1..Len(p) : (p \o <<x>>)[i] = p[i]
    OBVIOUS
  <1>2. p \o <<x, y>> \in Seq(S) /\ Len(p \o <<x, y>>) = Len(p) + 2
        /\ \A i \in 1..Len(p) : (p \o <<x, y>>)[i] = p[i]
    OBVIOUS
  <1>3. (p \o <<x, y>>)[Len(p) + 1] = x OBVIOUS
  <1>4. (p \o <<x, y>>)[Len(p) + 2] = y OBVIOUS
  <1>5. p \o <<>> = p BY ConcatEmptySeq
  <1> QED BY <1>1, <1>2, <1>3, <1>4, <1>5

\* A line on the wire is its pieces, in order, and what ends it.
LEMMA OnWireIs ==
  ASSUME NEW k \in Texts, NEW a \in Nat
  PROVE  /\ OnWire(k, a) \in Lines
         /\ OnWire(k, a)[1] = Piece(k, a, 1)
         /\ \A i \in 1..Len(OnWire(k, a)) :
              OnWire(k, a)[i] \in {Cr, Nl} \/ (OnWire(k, a)[i].k = k /\ OnWire(k, a)[i].a = a)
  <1> DEFINE P == Pieces(k, a)
             c == Count(k)
             w == OnWire(k, a)
  <1>1. P \in Seq(PieceType) /\ Len(P) = c /\ c \in Nat /\ c >= 2
        /\ \A i \in 1..c : P[i] = Piece(k, a, i)
    BY PiecesAre
  <1>2. Cr \in PieceType /\ Nl \in PieceType /\ Cr # Nl
    BY DEF Cr, Nl, Piece, PieceType, LineKind
  <1> HIDE DEF P, c
  <1>3. \E e \in {1, 2, 4} :
          /\ w \in Seq(PieceType) /\ Len(w) = c + e
          /\ \A i \in 1..c : w[i] = P[i]
          /\ e = 1 => w[c + 1] = Nl
          /\ e > 1 => w[c + 1] = Cr /\ w[c + 2] = Nl
          /\ e = 4 => w[c + 3] = Cr /\ w[c + 4] = Nl
    <2> DEFINE one == P \o <<Nl>>
               two == P \o <<Cr, Nl>>
    <2>1. /\ one \in Seq(PieceType) /\ Len(one) = c + 1 /\ one[c + 1] = Nl
          /\ \A i \in 1..c : one[i] = P[i]
      BY <1>1, <1>2, Ended
    <2>2. /\ two \in Seq(PieceType) /\ Len(two) = c + 2 /\ two[c + 1] = Cr /\ two[c + 2] = Nl
          /\ \A i \in 1..c : two[i] = P[i]
      BY <1>1, <1>2, Ended
    <2>3. w = one \o <<>> \/ w = two \o <<>> \/ w = two \o <<Cr, Nl>>
      BY Zenon DEF OnWire, P
    <2> HIDE DEF one, two
    <2>4. CASE w = one \o <<>>
      <3>1. one \o <<>> = one BY <2>1, <1>2, Ended
      <3> QED BY <2>1, <2>4, <3>1
    <2>5. CASE w = two \o <<>>
      <3>1. two \o <<>> = two BY <2>2, <1>2, Ended
      <3> QED BY <2>2, <2>5, <3>1
    <2>6. CASE w = two \o <<Cr, Nl>>
      <3>1. /\ w \in Seq(PieceType) /\ Len(w) = Len(two) + 2
            /\ \A i \in 1..Len(two) : w[i] = two[i]
            /\ w[Len(two) + 1] = Cr /\ w[Len(two) + 2] = Nl
        BY <1>2, <2>2, <2>6, Ended
      <3>2. /\ Len(w) = c + 4 /\ w[c + 3] = Cr /\ w[c + 4] = Nl
            /\ \A i \in 1..(c + 2) : w[i] = two[i]
        BY <1>1, <2>2, <3>1
      <3>3. /\ \A i \in 1..c : w[i] = P[i]
            /\ w[c + 1] = Cr /\ w[c + 2] = Nl
        BY <1>1, <2>2, <3>2
      <3> QED BY <3>1, <3>2, <3>3
    <2> QED BY <2>3, <2>4, <2>5, <2>6
  <1> HIDE DEF w
  <1>4. PICK e \in {1, 2, 4} :
          /\ w \in Seq(PieceType) /\ Len(w) = c + e
          /\ \A i \in 1..c : w[i] = P[i]
          /\ e = 1 => w[c + 1] = Nl
          /\ e > 1 => w[c + 1] = Cr /\ w[c + 2] = Nl
          /\ e = 4 => w[c + 3] = Cr /\ w[c + 4] = Nl
    BY <1>3
  <1>5. \A i \in 1..c : w[i] = Piece(k, a, i) BY <1>1, <1>4
  <1>6. ASSUME NEW i \in 1..Len(w), i < Len(w) PROVE Follows(w[i], w[i + 1])
    <2>1. CASE i < c
      <3>1. i \in 1..c /\ i + 1 \in 1..c BY <1>1, <2>1
      <3>2. w[i] = Piece(k, a, i) /\ w[i + 1] = Piece(k, a, i + 1) BY <1>5, <3>1
      <3> QED BY <2>1, <3>2 DEF Follows, Piece, c
    <2>2. CASE i = c
      <3>1. c \in 1..c BY <1>1
      <3>2. w[i] = Piece(k, a, c) /\ w[i + 1] \in {Cr, Nl} BY <1>4, <1>5, <2>2, <3>1
      <3> QED BY <1>1, <3>2 DEF Follows, Piece, c
    <2>3. CASE i > c
      <3>1. i \in {c + 1, c + 2, c + 3} BY <1>1, <1>4, <1>6, <2>3
      <3>2. \/ w[i] = Cr /\ w[i + 1] = Nl
            \/ w[i] = Nl /\ w[i + 1] = Cr
        BY <1>1, <1>4, <1>6, <3>1
      <3> QED BY <3>2 DEF Follows, Fresh
    <2> QED BY <1>1, <1>4, <2>1, <2>2, <2>3
  <1>7. w # <<>> /\ w[Len(w)] = Nl BY <1>1, <1>4
  <1>8. w[1] = Piece(k, a, 1) BY <1>1, <1>5
  <1>9. Fresh(w[1]) BY <1>8 DEF Fresh, Opens, Piece
  <1>10. Orderly(w) BY <1>4, <1>6, <1>7 DEF Orderly
  <1>11. ASSUME NEW i \in 1..Len(w) PROVE w[i] \in {Cr, Nl} \/ (w[i].k = k /\ w[i].a = a)
    <2>1. CASE i \in 1..c
      <3>1. w[i] = Piece(k, a, i) BY <1>5, <2>1
      <3>2. w[i].k = k /\ w[i].a = a BY <3>1 DEF Piece
      <3> QED BY <3>2
    <2>2. CASE i \notin 1..c
      BY <1>1, <1>4, <2>2
    <2> QED BY <2>1, <2>2
  <1>12. w \in Lines BY <1>4, <1>7, <1>9, <1>10 DEF Lines
  <1> QED BY <1>8, <1>11, <1>12 DEF w

\* What the board may say at once: an answer, or a block of its stream.
Said == Command \cup {"block"}

\* An answer is a sequence of lines.
LEMMA AnswerIs ==
  ASSUME NEW kind, NEW c \in Said
  PROVE  AnswerTo(kind, c) \in Seq(Texts) /\ AnswerTo(kind, c) # <<>>
  <1> DEFINE A == AnswerTo(kind, c)
  <1>1. CASE c = "info"
    <2> DEFINE x == <<"echoInfo", "fw", "ver">>
               y == IF kind = "sigroam" THEN <<"diag", "sess">> ELSE <<>>
    <2>1. x \in Seq(Texts) /\ Len(x) = 3 BY DEF Texts, LineKind, GpsField, Echo, Status
    <2>2. <<>> \in Seq(Texts) OBVIOUS
    <2>3. <<"diag", "sess">> \in Seq(Texts) BY DEF Texts, LineKind, GpsField, Echo, Status
    <2>4. y \in Seq(Texts) BY <2>2, <2>3
    <2> HIDE DEF x, y
    <2>5. A = x \o y BY <1>1, Zenon DEF AnswerTo, x, y
    <2> HIDE DEF A
    <2>6. A \in Seq(Texts) /\ Len(A) = Len(x) + Len(y) BY <2>1, <2>4, <2>5, ConcatProperties
    <2>7. A \in Seq(Texts) /\ A # <<>> BY <2>1, <2>4, <2>6, LenProperties
    <2> QED BY <2>7 DEF A
  <1>2. CASE c = "sigroam"
    <2> DEFINE x == <<"echoSigroam">>
               y == IF kind = "lite" THEN <<"diag", "busy", "sess">> ELSE <<"text">>
    <2>1. x \in Seq(Texts) /\ Len(x) = 1 BY DEF Texts, LineKind, GpsField, Echo, Status
    <2>2. <<"text">> \in Seq(Texts) BY DEF Texts, LineKind, GpsField, Echo, Status
    <2>3. <<"diag", "busy", "sess">> \in Seq(Texts) BY DEF Texts, LineKind, GpsField, Echo, Status
    <2>4. y \in Seq(Texts) BY <2>2, <2>3
    <2> HIDE DEF x, y
    <2>5. A = x \o y BY <1>2, Zenon DEF AnswerTo, x, y
    <2> HIDE DEF A
    <2>6. A \in Seq(Texts) /\ Len(A) = Len(x) + Len(y) BY <2>1, <2>4, <2>5, ConcatProperties
    <2>7. A \in Seq(Texts) /\ A # <<>> BY <2>1, <2>4, <2>6, LenProperties
    <2> QED BY <2>7 DEF A
  <1>3. CASE c = "gpsdata"
    BY <1>3 DEF AnswerTo, Texts, LineKind, GpsField, Echo, Status
  <1>4. CASE c = "wardrive"
    BY <1>4 DEF AnswerTo, Texts, LineKind, GpsField, Echo, Status
  <1>5. CASE c = "stopscan"
    BY <1>5 DEF AnswerTo, Texts, LineKind, GpsField, Echo, Status
  <1>6. CASE c = "help"
    BY <1>6 DEF AnswerTo, Texts, LineKind, GpsField, Echo, Status
  <1>7. CASE c = "block"
    BY <1>7 DEF AnswerTo, Texts, LineKind, GpsField, Echo, Status
  <1> QED BY <1>1, <1>2, <1>3, <1>4, <1>5, <1>6, <1>7 DEF Said, Command

-----------------------------------------------------------------------------
(* An answer on the wire.                                                  *)

\* f says of each piece which of the first m lines of A it belongs to.
Tells(w, A, m, a, f) ==
  /\ f \in [1..Len(w) -> 1..m]
  /\ \A i, j \in 1..Len(w) : i < j => f[i] <= f[j]
  /\ \A i \in 1..Len(w) : w[i] \in {Cr, Nl} \/ (w[i].k = A[f[i]] /\ w[i].a = a)
  /\ \A l \in 1..m : \E i \in 1..Len(w) :
        f[i] = l /\ w[i] = Piece(A[l], a, 1) /\ (i > 1 => w[i - 1] = Nl)

Told(w, A, m, a) == \E f : Tells(w, A, m, a, f)

\* The first line of an answer is told.
LEMMA ToldFirst ==
  ASSUME NEW A \in Seq(Texts), A # <<>>, NEW a \in Nat
  PROVE  OnWire(A[1], a) \in Lines /\ Told(OnWire(A[1], a), A, 1, a)
  <1>1. A[1] \in Texts OBVIOUS
  <1> DEFINE w == OnWire(A[1], a)
             f == [i \in 1..Len(w) |-> 1]
  <1>2. /\ w \in Lines /\ w[1] = Piece(A[1], a, 1)
        /\ \A i \in 1..Len(w) : w[i] \in {Cr, Nl} \/ (w[i].k = A[1] /\ w[i].a = a)
    BY <1>1, OnWireIs
  <1>3. w \in Seq(PieceType) /\ w # <<>> BY <1>2 DEF Lines
  <1> HIDE DEF w
  <1>4. 1 \in 1..Len(w) BY <1>3
  <1>5. Tells(w, A, 1, a, f) BY <1>2, <1>4 DEF Tells
  <1> HIDE DEF f
  <1> QED BY <1>2, <1>5 DEF Told, w

\* With the next line what was told so far stays told.
LEMMA ToldNext ==
  ASSUME NEW A \in Seq(Texts), NEW a \in Nat, NEW m \in Nat, m > 0, m + 1 <= Len(A),
         NEW x \in Lines, Told(x, A, m, a)
  PROVE  /\ x \o OnWire(A[m + 1], a) \in Lines
         /\ Told(x \o OnWire(A[m + 1], a), A, m + 1, a)
  <1>1. A[m + 1] \in Texts OBVIOUS
  <1> DEFINE y == OnWire(A[m + 1], a)
             w == x \o y
  <1>2. /\ y \in Lines /\ y[1] = Piece(A[m + 1], a, 1)
        /\ \A i \in 1..Len(y) : y[i] \in {Cr, Nl} \/ (y[i].k = A[m + 1] /\ y[i].a = a)
    BY <1>1, OnWireIs
  <1>3. w \in Lines BY <1>2, LinesJoin
  <1>4. PICK p \in Nat, q \in Nat : p = Len(x) /\ q = Len(y) /\ p > 0 /\ q > 0 /\ x[p] = Nl
    BY <1>2 DEF Lines, Orderly
  <1>5. /\ Len(w) = p + q /\ \A i \in 1..p : w[i] = x[i]
        /\ \A i \in (p + 1)..(p + q) : w[i] = y[i - p]
    BY <1>2, <1>4 DEF Lines
  <1> HIDE DEF y, w
  <1>6. PICK f : Tells(x, A, m, a, f) BY DEF Told
  <1> DEFINE g == [i \in 1..(p + q) |-> IF i <= p THEN f[i] ELSE m + 1]
  <1>7. f \in [1..p -> 1..m] /\ \A i, j \in 1..p : i < j => f[i] <= f[j]
    BY <1>4, <1>6 DEF Tells
  <1>8. g \in [1..(p + q) -> 1..(m + 1)]
        /\ (\A i \in 1..p : g[i] = f[i])
        /\ \A i \in 1..(p + q) : i > p => g[i] = m + 1
    BY <1>7
  <1> HIDE DEF g
  <1>9. ASSUME NEW i \in 1..(p + q), NEW j \in 1..(p + q), i < j PROVE g[i] <= g[j]
    <2>1. CASE j <= p
      <3>1. i \in 1..p /\ j \in 1..p BY <1>9, <2>1
      <3> QED BY <1>7, <1>8, <1>9, <3>1
    <2>2. CASE j > p
      <3>1. g[j] = m + 1 /\ g[i] \in 1..(m + 1) BY <1>8, <2>2
      <3> QED BY <3>1
    <2> QED BY <2>1, <2>2
  <1>10. ASSUME NEW i \in 1..(p + q)
         PROVE  w[i] \in {Cr, Nl} \/ (w[i].k = A[g[i]] /\ w[i].a = a)
    <2>1. CASE i <= p
      <3>1. i \in 1..p /\ w[i] = x[i] /\ g[i] = f[i] BY <1>5, <1>8, <2>1
      <3>2. x[i] \in {Cr, Nl} \/ (x[i].k = A[f[i]] /\ x[i].a = a) BY <1>4, <1>6, <3>1 DEF Tells
      <3> QED BY <3>1, <3>2
    <2>2. CASE i > p
      <3>0. i - p \in 1..q /\ i \in (p + 1)..(p + q) BY <1>4, <2>2
      <3>1. i - p \in 1..q /\ w[i] = y[i - p] /\ g[i] = m + 1 BY <1>5, <1>8, <2>2, <3>0
      <3> QED BY <1>2, <1>4, <3>1
    <2> QED BY <2>1, <2>2
  <1>11. ASSUME NEW l \in 1..(m + 1)
         PROVE  \E i \in 1..(p + q) :
                  g[i] = l /\ w[i] = Piece(A[l], a, 1) /\ (i > 1 => w[i - 1] = Nl)
    <2>1. CASE l <= m
      <3>1. l \in 1..m BY <2>1
      <3>2. PICK i \in 1..p : f[i] = l /\ x[i] = Piece(A[l], a, 1) /\ (i > 1 => x[i - 1] = Nl)
        BY <1>4, <1>6, <3>1 DEF Tells
      <3>3. i \in 1..(p + q) /\ g[i] = l /\ w[i] = x[i] /\ (i > 1 => w[i - 1] = x[i - 1])
        BY <1>5, <1>8, <3>2
      <3> QED BY <3>2, <3>3
    <2>2. CASE l = m + 1
      <3>1. /\ p + 1 \in 1..(p + q) /\ p + 1 > p /\ (p + 1) - 1 = p /\ p \in 1..p
            /\ p + 1 \in (p + 1)..(p + q) /\ (p + 1) - p = 1
        BY <1>4
      <3>2. g[p + 1] = l /\ w[p + 1] = y[1] /\ w[p] = Nl BY <1>4, <1>5, <1>8, <2>2, <3>1
      <3> QED BY <1>2, <2>2, <3>1, <3>2
    <2> QED BY <2>1, <2>2
  <1>12. Tells(w, A, m + 1, a, g) BY <1>5, <1>8, <1>9, <1>10, <1>11 DEF Tells
  <1> QED BY <1>3, <1>12 DEF Told, w, y

\* All of an answer comes as one run of lines, in its order.
LEMMA AnswerOnWire ==
  ASSUME NEW kind, NEW c \in Said, NEW a \in Nat,
         NEW w, w = FlattenSeq([i \in DOMAIN AnswerTo(kind, c) |->
                                   OnWire(AnswerTo(kind, c)[i], a)])
  PROVE  w \in Lines /\ Told(w, AnswerTo(kind, c), Len(AnswerTo(kind, c)), a)
  <1> DEFINE A == AnswerTo(kind, c)
             q == [i \in DOMAIN A |-> OnWire(A[i], a)]
             Q == [m \in 1..Len(A) |-> {x \in Lines : Told(x, A, m, a)}]
  <1>1. A \in Seq(Texts) /\ A # <<>> BY AnswerIs
  <1>0. w = FlattenSeq(q) OBVIOUS
  <1> HIDE DEF A
  <1>2. PICK n \in Nat : n = Len(A) /\ n > 0 /\ DOMAIN A = 1..n BY <1>1
  <1>3. \A i \in 1..n : A[i] \in Texts BY <1>1, <1>2
  <1>4. \A i \in 1..n : OnWire(A[i], a) \in Lines BY <1>3, OnWireIs
  <1>5. q \in Seq(Lines) /\ Len(q) = n /\ \A i \in 1..n : q[i] = OnWire(A[i], a)
    <2>1. q = [i \in 1..n |-> OnWire(A[i], a)] BY <1>2
    <2> HIDE DEF q
    <2> QED BY <1>4, <2>1
  <1>6. q # <<>>
    <2> HIDE DEF q
    <2> QED BY <1>2, <1>5
  <1> HIDE DEF q
  <1>7. \A m \in 1..n : Q[m] = {x \in Lines : Told(x, A, m, a)} BY <1>2
  <1> HIDE DEF Q
  <1>8. q[1] \in Q[1]
    <2>1. 1 \in 1..n BY <1>2
    <2> QED BY <1>1, <1>5, <1>7, <2>1, ToldFirst
  <1>9. ASSUME NEW i \in 1..n, i < n, NEW x \in Q[i] PROVE x \o q[i + 1] \in Q[i + 1]
    <2>1. i + 1 \in 1..n /\ i \in Nat /\ i > 0 /\ i + 1 <= Len(A) BY <1>2, <1>9
    <2>2. x \in Lines /\ Told(x, A, i, a) BY <1>7
    <2>3. /\ x \o OnWire(A[i + 1], a) \in Lines
          /\ Told(x \o OnWire(A[i + 1], a), A, i + 1, a)
      BY <1>1, <2>1, <2>2, ToldNext
    <2> QED BY <1>5, <1>7, <2>1, <2>3
  <1>10. FlattenSeq(q) \in Q[n] BY <1>5, <1>6, <1>8, <1>9, FlattenUpTo
  <1>11. n \in 1..n BY <1>2
  <1> QED BY <1>0, <1>2, <1>7, <1>10, <1>11 DEF A

\* What comes before what in an answer.
LEMMA AnswerOrder ==
  ASSUME NEW kind, NEW c \in Said, NEW A, A = AnswerTo(kind, c)
  PROVE  /\ \A i, j \in 1..Len(A) : A[i] = "diag" /\ A[j] = "ver" => j < i
         /\ \A i \in 1..Len(A) : A[i] = "ver" => \E j \in 1..Len(A) : j < i /\ A[j] = "fw"
         /\ \A i, j \in 1..Len(A) :
              kind # "lite" /\ A[i] = "echoSigroam" => A[j] \notin {"diag", "sess"}
         /\ \A i \in 1..Len(A) :
              kind # "lite" /\ A[i] \in {"diag", "sess"} =>
                \E j \in 1..Len(A) : j < i /\ A[j] = "echoInfo"
         /\ \A i \in 1..Len(A) : A[i] \in GpsField => \E j \in 1..Len(A) : j < i /\ A[j] = "hdr"
  <1> USE DEF GpsField
  <1>1. CASE c = "info" /\ kind = "sigroam"
    <2>1. A = <<"echoInfo", "fw", "ver">> \o <<"diag", "sess">> BY <1>1 DEF AnswerTo
    <2>2. /\ Len(A) = 5 /\ A[1] = "echoInfo" /\ A[2] = "fw" /\ A[3] = "ver" /\ A[4] = "diag"
          /\ A[5] = "sess"
      BY <2>1
    <2> QED BY <1>1, <2>2, SMTT(30)
  <1>2. CASE c = "info" /\ kind # "sigroam"
    <2>1. A = <<"echoInfo", "fw", "ver">> \o <<>> BY <1>2 DEF AnswerTo
    <2>2. Len(A) = 3 /\ A[1] = "echoInfo" /\ A[2] = "fw" /\ A[3] = "ver"
      BY <2>1
    <2> QED BY <2>2
  <1>3. CASE c = "sigroam" /\ kind = "lite"
    <2>1. A = <<"echoSigroam">> \o <<"diag", "busy", "sess">> BY <1>3 DEF AnswerTo
    <2>2. Len(A) = 4 /\ A[1] = "echoSigroam" /\ A[2] = "diag" /\ A[3] = "busy" /\ A[4] = "sess"
      BY <2>1
    <2> QED BY <1>3, <2>2
  <1>4. CASE c = "sigroam" /\ kind # "lite"
    <2>1. A = <<"echoSigroam">> \o <<"text">> BY <1>4 DEF AnswerTo
    <2>2. Len(A) = 2 /\ A[1] = "echoSigroam" /\ A[2] = "text"
      BY <2>1
    <2> QED BY <1>4, <2>2
  <1>5. CASE c = "gpsdata"
    <2>1. Len(A) = 1 /\ A[1] = "echoGps" BY <1>5 DEF AnswerTo
    <2> QED BY <2>1
  <1>6. CASE c = "wardrive"
    <2>1. Len(A) = 4 /\ A[1] = "echoStart" /\ A[2] = "started" /\ A[3] = "row" /\ A[4] = "ble"
      BY <1>6 DEF AnswerTo
    <2> QED BY <2>1
  <1>7. CASE c = "stopscan"
    <2>1. Len(A) = 2 /\ A[1] = "echoStop" /\ A[2] = "wifiStop" BY <1>7 DEF AnswerTo
    <2> QED BY <2>1
  <1>8. CASE c = "help"
    <2>1. Len(A) = 2 /\ A[1] = "long" /\ A[2] = "qual" BY <1>8 DEF AnswerTo
    <2> QED BY <2>1
  <1>9. CASE c = "block"
    <2>1. /\ Len(A) = 5 /\ A[1] = "hdr" /\ A[2] = "fix" /\ A[3] = "lat" /\ A[4] = "lon"
          /\ A[5] = "dt"
      BY <1>9 DEF AnswerTo
    <2> QED BY <2>1
  <1> QED BY <1>1, <1>2, <1>3, <1>4, <1>5, <1>6, <1>7, <1>8, <1>9 DEF Said, Command

\* All the pieces are of that answer.
AllOf(w, a) == \A i \in 1..Len(w) : w[i] \in {Cr, Nl} \/ w[i].a = a

\* A position comes with its header.
Headed(w) ==
  \A i \in 1..Len(w) : w[i].k \in GpsField =>
    \E j \in 1..Len(w) : j < i /\ w[j].k = "hdr" /\ w[j].part = 1

\* A Version: comes with its Firmware: and before a Diag:.  Only a Lite board
\* has a Diag: or Sess: after the echo of sigroam.
NamedBy(kind, w) ==
  /\ \A i \in 1..Len(w) : w[i].k = "ver" => \E j \in 1..Len(w) : j < i /\ w[j].k = "fw"
  /\ \A i, j \in 1..Len(w) : w[i].k = "diag" /\ w[j].k = "ver" => j < i
  /\ \A i, j \in 1..Len(w) : kind # "lite" /\ w[i].k = "echoSigroam" => w[j].k \notin {"diag", "sess"}
  /\ \A i \in 1..Len(w) : kind # "lite" /\ w[i].k \in {"diag", "sess"} =>
       \E j \in 1..Len(w) : j < i /\ w[j].k = "echoInfo"

\* The order of the lines of an answer is that of their pieces.
LEMMA AnswerInOrder ==
  ASSUME NEW kind, NEW c \in Said, NEW a \in Nat,
         NEW w \in Lines, Told(w, AnswerTo(kind, c), Len(AnswerTo(kind, c)), a)
  PROVE  AllOf(w, a) /\ Headed(w) /\ NamedBy(kind, w)
  <1> DEFINE A == AnswerTo(kind, c)
  <1>0. PICK n \in Nat : n = Len(A) BY AnswerIs
  <1>1. /\ \A i, j \in 1..n : A[i] = "diag" /\ A[j] = "ver" => j < i
        /\ \A i \in 1..n : A[i] = "ver" => \E j \in 1..n : j < i /\ A[j] = "fw"
        /\ \A i, j \in 1..n : kind # "lite" /\ A[i] = "echoSigroam" => A[j] \notin {"diag", "sess"}
        /\ \A i \in 1..n : kind # "lite" /\ A[i] \in {"diag", "sess"} =>
             \E j \in 1..n : j < i /\ A[j] = "echoInfo"
        /\ \A i \in 1..n : A[i] \in GpsField => \E j \in 1..n : j < i /\ A[j] = "hdr"
    BY <1>0, AnswerOrder
  <1>2. PICK f : Tells(w, A, n, a, f) BY <1>0 DEF Told
  <1>3. A \in Seq(Texts) BY AnswerIs
  <1> HIDE DEF A
  <1>4. PICK l \in Nat : l = Len(w) BY DEF Lines
  <1>5. /\ f \in [1..l -> 1..n]
        /\ \A i, j \in 1..l : i < j => f[i] <= f[j]
        /\ \A i \in 1..l : w[i] \in {Cr, Nl} \/ (w[i].k = A[f[i]] /\ w[i].a = a)
        /\ \A m \in 1..n : \E i \in 1..l :
             f[i] = m /\ w[i] = Piece(A[m], a, 1) /\ (i > 1 => w[i - 1] = Nl)
    BY <1>2, <1>4, Zenon DEF Tells
  <1>6. AllOf(w, a) BY <1>4, <1>5 DEF AllOf
  <1>7. \A i \in 1..l : w[i].k \in Texts => f[i] \in 1..n /\ w[i].k = A[f[i]]
    BY <1>5 DEF Cr, Nl, Piece, Texts
  <1>8. {"ver", "fw", "diag", "sess", "hdr", "dt", "echoSigroam", "echoInfo"} \subseteq Texts
        /\ GpsField \subseteq Texts
    BY DEF Texts, LineKind, GpsField, Echo, Status
  \* A line of the answer has a first piece, before the pieces of a later line.
  <1>9. ASSUME NEW m \in 1..n
        PROVE  \E i \in 1..l : /\ f[i] = m /\ w[i].k = A[m] /\ w[i].part = 1 /\ (i > 1 => w[i - 1] = Nl)
                               /\ \A j \in 1..l : (m < f[j] => i < j) /\ (f[j] < m => j < i)
    <2>1. PICK i \in 1..l : f[i] = m /\ w[i] = Piece(A[m], a, 1) /\ (i > 1 => w[i - 1] = Nl)
      BY <1>5
    <2>2. w[i].k = A[m] /\ w[i].part = 1 BY <2>1 DEF Piece
    <2>3. ASSUME NEW j \in 1..l PROVE (m < f[j] => i < j) /\ (f[j] < m => j < i)
      <3>1. (i < j => f[i] <= f[j]) /\ (j < i => f[j] <= f[i]) /\ f[i] = m /\ f[j] \in 1..n
        BY <1>5, <2>1
      <3> QED BY <3>1
    <2> QED BY <2>1, <2>2, <2>3
  <1>10. Headed(w)
    <2>1. ASSUME NEW i \in 1..l, w[i].k \in GpsField
          PROVE  \E j \in 1..l : j < i /\ w[j].k = "hdr" /\ w[j].part = 1
      <3>1. f[i] \in 1..n /\ A[f[i]] \in GpsField BY <1>7, <1>8, <2>1
      <3>2. PICK m \in 1..n : m < f[i] /\ A[m] = "hdr" BY <1>1, <3>1
      <3>3. PICK j \in 1..l : /\ f[j] = m /\ w[j].k = A[m] /\ w[j].part = 1 /\ (j > 1 => w[j - 1] = Nl)
                              /\ \A h \in 1..l : (m < f[h] => j < h) /\ (f[h] < m => h < j)
        BY <1>9
      <3> QED BY <3>2, <3>3
    <2> QED BY <1>4, <2>1 DEF Headed
  <1>11. NamedBy(kind, w)
    <2>1. ASSUME NEW i \in 1..l, w[i].k = "ver" PROVE \E j \in 1..l : j < i /\ w[j].k = "fw"
      <3>1. f[i] \in 1..n /\ A[f[i]] = "ver" BY <1>7, <1>8, <2>1
      <3>2. PICK m \in 1..n : m < f[i] /\ A[m] = "fw" BY <1>1, <3>1
      <3> QED BY <1>9, <3>2
    <2>2. ASSUME NEW i \in 1..l, NEW j \in 1..l, w[i].k = "diag", w[j].k = "ver" PROVE j < i
      <3>1. f[i] \in 1..n /\ A[f[i]] = "diag" /\ f[j] \in 1..n /\ A[f[j]] = "ver"
        BY <1>7, <1>8, <2>2
      <3>2. f[j] < f[i] BY <1>1, <3>1
      <3>3. i < j => f[i] <= f[j] BY <1>5
      <3> QED BY <3>1, <3>2, <3>3
    <2>3. ASSUME NEW i \in 1..l, NEW j \in 1..l, kind # "lite", w[i].k = "echoSigroam"
          PROVE  w[j].k \notin {"diag", "sess"}
      <3>1. f[i] \in 1..n /\ A[f[i]] = "echoSigroam" BY <1>7, <1>8, <2>3
      <3>2. w[j].k \in {"diag", "sess"} => f[j] \in 1..n /\ A[f[j]] \in {"diag", "sess"}
        BY <1>7, <1>8
      <3> QED BY <1>1, <2>3, <3>1, <3>2
    <2>4. ASSUME NEW i \in 1..l, kind # "lite", w[i].k \in {"diag", "sess"}
          PROVE  \E j \in 1..l : j < i /\ w[j].k = "echoInfo"
      <3>1. f[i] \in 1..n /\ A[f[i]] \in {"diag", "sess"} BY <1>7, <1>8, <2>4
      <3>2. PICK m \in 1..n : m < f[i] /\ A[m] = "echoInfo" BY <1>1, <2>4, <3>1
      <3> QED BY <1>9, <3>2
    <2> QED BY <1>4, <2>1, <2>2, <2>3, <2>4 DEF NamedBy
  <1> QED BY <1>6, <1>10, <1>11

-----------------------------------------------------------------------------
(* The assembler between the wire and the parser.                          *)

FreshWire == wire = <<>> \/ Fresh(wire[1])

\* The text is the beginning of a line, and the wire goes on with it.
Begun ==
  LET k == line.text[1].k
      m == Len(line.text)
  IN  /\ k \in Texts /\ wire # <<>>
      /\ m <= Count(k)
      /\ \A i \in 1..m : line.text[i] = Piece(k, line.text[1].a, i)
      /\ line.overflowing => k = "long"
      /\ IF m < Count(k) /\ ~line.overflowing
         THEN wire[1] = Piece(k, line.text[1].a, m + 1)
         ELSE wire[1] \in {Cr, Nl}

\* All of a line, or, of a long one, what there was room for.
Done ==
  /\ line.text[1].k \in Texts
  /\ line.truncated <=> line.text[1].k = "long"
  /\ ~line.truncated => Whole(line.text, line.text[1].k)

LineType ==
  line \in [text : Seq(PieceType), ready : BOOLEAN, truncated : BOOLEAN, overflowing : BOOLEAN]

BoardType == [kind : {"sigroam", "lite", "stock"}, answers : Nat, streams : BOOLEAN]

Around == play \in Play /\ board \in BoardType

Room ==
  /\ Len(line.text) <= MaxText
  /\ line.overflowing => Len(line.text) = MaxText /\ ~line.ready
  /\ line.truncated => Len(line.text) = MaxText /\ line.ready

Stage ==
  /\ line.ready => line.text # <<>> /\ FreshWire /\ (~damaged => Done)
  /\ ~line.ready /\ ~damaged =>
       IF line.text = <<>> THEN FreshWire \/ wire[1] = Nl ELSE Begun

LineInv ==
  /\ Around /\ damaged \in BOOLEAN /\ Orderly(wire) /\ LineType
  /\ Room /\ Stage

\* A piece of the wire less.
LEMMA TailOrderly ==
  ASSUME NEW w, Orderly(w), NEW n \in 1..Len(w)
  PROVE  /\ Orderly(SubSeq(w, n + 1, Len(w)))
         /\ n < Len(w) => /\ SubSeq(w, n + 1, Len(w)) # <<>>
                          /\ SubSeq(w, n + 1, Len(w))[1] = w[n + 1]
                          /\ Follows(w[n], w[n + 1])
         /\ n = Len(w) => SubSeq(w, n + 1, Len(w)) = <<>> /\ w[n] = Nl
  <1>1. w \in Seq(PieceType) /\ \A i \in 1..Len(w) : i < Len(w) => Follows(w[i], w[i + 1])
    BY DEF Orderly
  <1>2. w # <<>> /\ w[Len(w)] = Nl BY <1>1 DEF Orderly
  <1> DEFINE v == SubSeq(w, n + 1, Len(w))
  <1>3. PICK l \in Nat : l = Len(w) BY <1>1
  <1>4. /\ v \in Seq(PieceType) /\ Len(v) = l - n
        /\ \A i \in 1..(l - n) : v[i] = w[n + i]
    BY <1>1, <1>3
  <1> HIDE DEF v
  <1>5. ASSUME NEW i \in 1..Len(v), i < Len(v) PROVE Follows(v[i], v[i + 1])
    <2>1. /\ n + i \in 1..l /\ n + i < l /\ i \in 1..(l - n) /\ i + 1 \in 1..(l - n)
          /\ n + (i + 1) = (n + i) + 1
      BY <1>3, <1>4, <1>5
    <2>2. v[i] = w[n + i] /\ v[i + 1] = w[(n + i) + 1] BY <1>4, <2>1, SMTT(30)
    <2> QED BY <1>1, <1>3, <2>1, <2>2
  <1>6. v # <<>> => v[Len(v)] = Nl
    <2> SUFFICES ASSUME v # <<>> PROVE v[Len(v)] = Nl
      OBVIOUS
    <2>1. l - n \in 1..(l - n) /\ n + (l - n) = l BY <1>3, <1>4
    <2> QED BY <1>2, <1>3, <1>4, <2>1
  <1>7. Orderly(v) BY <1>4, <1>5, <1>6 DEF Orderly
  <1>8. n < l => v # <<>> /\ v[1] = w[n + 1] /\ Follows(w[n], w[n + 1])
    BY <1>1, <1>3, <1>4
  <1>9. n = l => v = <<>> /\ w[n] = Nl BY <1>2, <1>3, <1>4
  <1> QED BY <1>3, <1>7, <1>8, <1>9 DEF v

\* Nothing is on the wire yet.
LEMMA InitLines == Init => LineInv
  <1> SUFFICES ASSUME Init PROVE LineInv
    OBVIOUS
  <1>1. play \in Play BY IntakeAssumption DEF Init
  <1>2. <<>> \in Seq(PieceType) OBVIOUS
  <1>3. Orderly(wire) /\ wire = <<>> BY <1>2 DEF Orderly, Init
  <1>4. LineType /\ line = EmptyLine BY <1>2 DEF LineType, Init, EmptyLine
  <1>5. board \in BoardType BY <1>1 DEF Init, Play, BoardType
  <1>6. /\ line.text = <<>> /\ Len(line.text) = 0
        /\ ~line.ready /\ ~line.truncated /\ ~line.overflowing
    BY <1>4 DEF EmptyLine
  <1>7. damaged = FALSE BY DEF Init
  <1>8. Room BY <1>6, IntakeAssumption DEF Room
  <1>9. Stage BY <1>3, <1>6 DEF Stage, FreshWire
  <1> QED BY <1>1, <1>3, <1>4, <1>5, <1>7, <1>8, <1>9 DEF LineInv, Around

\* Lines go behind what is on the wire.
LEMMA Behind ==
  ASSUME NEW w, Orderly(w), NEW x \in Lines
  PROVE  /\ Orderly(w \o x) /\ w \o x # <<>>
         /\ IF w = <<>> THEN Fresh((w \o x)[1]) ELSE (w \o x)[1] = w[1]
         /\ Len(w) \in Nat /\ Len(x) \in Nat /\ Len(w \o x) = Len(w) + Len(x)
         /\ \A i \in 1..Len(w) : (w \o x)[i] = w[i] /\ i \in 1..Len(w \o x)
         /\ \A i \in 1..Len(x) : (w \o x)[Len(w) + i] = x[i] /\ Len(w) + i \in 1..Len(w \o x)
         /\ \A i \in 1..Len(w \o x) : i \in 1..Len(w) \/
              (i > Len(w) /\ i - Len(w) \in 1..Len(x) /\ (w \o x)[i] = x[i - Len(w)])
  <1> DEFINE v == w \o x
  <1>1. w \in Seq(PieceType) /\ \A i \in 1..Len(w) : i < Len(w) => Follows(w[i], w[i + 1])
    BY Zenon DEF Orderly
  <1>2. x \in Seq(PieceType) /\ x # <<>> /\ Orderly(x) /\ Fresh(x[1]) BY DEF Lines
  <1>3. PICK m \in Nat, n \in Nat : m = Len(w) /\ n = Len(x) /\ n > 0
    BY <1>1, <1>2
  <1>4. /\ v \in Seq(PieceType) /\ Len(v) = m + n
        /\ \A i \in 1..m : v[i] = w[i]
        /\ \A i \in (m + 1)..(m + n) : v[i] = x[i - m]
    BY <1>1, <1>2, <1>3
  <1>5. w = <<>> => v = x BY <1>2, ConcatEmptySeq
  <1>6. w # <<>> => m > 0 /\ w[m] = Nl BY <1>1, <1>3 DEF Orderly
  <1> HIDE DEF v
  <1>7. /\ \A i \in 1..n : i < n => Follows(x[i], x[i + 1])
        /\ x[n] = Nl
    BY <1>2, <1>3, Zenon DEF Orderly
  <1>8. ASSUME NEW i \in 1..Len(v), i < Len(v) PROVE Follows(v[i], v[i + 1])
    <2>1. CASE i < m
      <3>1. i \in 1..m /\ i + 1 \in 1..m BY <1>3, <2>1
      <3> QED BY <1>1, <1>3, <1>4, <2>1, <3>1
    <2>2. CASE i = m
      <3>1. m \in 1..m /\ m + 1 \in (m + 1)..(m + n) /\ (m + 1) - m = 1 /\ w # <<>>
        BY <1>3, <2>2
      <3>2. v[i] = Nl /\ v[i + 1] = x[1] BY <1>4, <1>6, <2>2, <3>1
      <3> QED BY <1>2, <3>2 DEF Follows
    <2>3. CASE i > m
      <3>1. /\ i - m \in 1..n /\ i - m < n /\ (i + 1) - m = (i - m) + 1
            /\ i \in (m + 1)..(m + n) /\ i + 1 \in (m + 1)..(m + n)
        BY <1>3, <1>4, <2>3, <1>8
      <3>2. v[i] = x[i - m] /\ v[i + 1] = x[(i - m) + 1] BY <1>4, <3>1
      <3> QED BY <1>7, <3>1, <3>2
    <2> QED BY <1>3, <2>1, <2>2, <2>3
  <1>9. v # <<>> /\ v[Len(v)] = Nl
    <2>1. m + n \in (m + 1)..(m + n) /\ (m + n) - m = n BY <1>3
    <2> QED BY <1>3, <1>4, <1>7, <2>1
  <1>10. Orderly(v) BY <1>4, <1>8, <1>9 DEF Orderly
  <1>11. IF w = <<>> THEN Fresh(v[1]) ELSE v[1] = w[1]
    <2>1. w # <<>> => 1 \in 1..m BY <1>6, <1>3
    <2> QED BY <1>2, <1>4, <1>5, <2>1
  <1>12. \A i \in 1..n : m + i \in (m + 1)..(m + n) /\ (m + i) - m = i /\ m + i \in 1..(m + n)
    BY <1>3
  <1>13. \A i \in 1..(m + n) : i \in 1..m \/ (i > m /\ i - m \in 1..n /\ i \in (m + 1)..(m + n))
    BY <1>3
  <1>14. \A i \in 1..m : i \in 1..(m + n) BY <1>3
  <1>15. \A i \in 1..n : v[m + i] = x[i] BY <1>4, <1>12
  <1>16. \A i \in 1..(m + n) : i \in 1..m \/ (i > m /\ i - m \in 1..n /\ v[i] = x[i - m])
    BY <1>4, <1>13
  <1> QED BY <1>3, <1>4, <1>9, <1>10, <1>11, <1>12, <1>14, <1>15, <1>16 DEF v

\* What the board says is an answer of its own, behind those on their way.
LEMMA BoardSays ==
  ASSUME LineInv, BoardAnswers \/ BoardStreams
  PROVE  /\ \E x \in Lines : /\ wire' = wire \o x
                            /\ AllOf(x, board.answers + 1) /\ Headed(x)
                            /\ NamedBy(board.kind, x)
         /\ UNCHANGED <<line, parser, model, bursts, damaged, headerLost>>
         /\ play' \in Play /\ board' \in BoardType /\ board \in BoardType
         /\ board'.kind = board.kind /\ board'.answers = board.answers + 1
  <1>0. play \in Play /\ board \in BoardType BY DEF LineInv, Around
  <1>1. play.asked \subseteq Command BY <1>0 DEF Play
  <1>2. PICK c \in Said : Sends(c)
    <2>1. CASE BoardAnswers
      BY <1>1, <2>1 DEF BoardAnswers, Said
    <2>2. CASE BoardStreams
      BY <2>2 DEF BoardStreams, Said
    <2> QED BY <2>1, <2>2
  <1>3. PICK x : /\ x = FlattenSeq([i \in DOMAIN AnswerTo(board.kind, c) |->
                                       OnWire(AnswerTo(board.kind, c)[i], board.answers + 1)])
                 /\ wire' = wire \o x
    BY <1>2, Zenon DEF Sends
  <1>4. board.answers + 1 \in Nat BY <1>0 DEF BoardType
  <1>5. x \in Lines /\ Told(x, AnswerTo(board.kind, c), Len(AnswerTo(board.kind, c)), board.answers + 1)
    BY <1>3, <1>4, AnswerOnWire
  <1>6. AllOf(x, board.answers + 1) /\ Headed(x) /\ NamedBy(board.kind, x)
    BY <1>4, <1>5, AnswerInOrder
  <1>7. play' \in Play BY <1>0, <1>2 DEF Play, Sends
  <1>8. UNCHANGED <<line, parser, model, bursts, damaged, headerLost>> BY <1>2 DEF Sends
  <1>9. board' \in BoardType /\ board'.kind = board.kind /\ board'.answers = board.answers + 1
    <2>1. CASE BoardAnswers
      <3>1. \E t : t \in BOOLEAN /\ board' = [board EXCEPT !.answers = @ + 1, !.streams = t]
        <4>1. PICK d : board' = [board EXCEPT !.answers = @ + 1,
                                              !.streams = d = "gpsdata" \/ (@ /\ d # "stopscan")]
          BY <2>1, Zenon DEF BoardAnswers
        <4> DEFINE t == d = "gpsdata" \/ (board.streams /\ d # "stopscan")
        <4>2. t \in BOOLEAN BY Zenon
        <4>3. board' = [board EXCEPT !.answers = @ + 1, !.streams = t] BY <4>1
        <4> QED BY <4>2, <4>3
      <3>2. PICK t \in BOOLEAN : board' = [board EXCEPT !.answers = @ + 1, !.streams = t]
        BY <3>1
      <3>3. board' = [kind |-> board.kind, answers |-> board.answers + 1, streams |-> t]
        BY <1>0, <3>2 DEF BoardType
      <3> QED BY <1>0, <3>3 DEF BoardType
    <2>2. CASE BoardStreams
      BY <1>0, <2>2 DEF BoardStreams, BoardType
    <2> QED BY <2>1, <2>2
  <1> QED BY <1>0, <1>3, <1>5, <1>6, <1>7, <1>8, <1>9

\* What is on the wire already goes on as before.
LEMMA AnswersLines == ASSUME LineInv, BoardAnswers \/ BoardStreams PROVE LineInv'
  <1>1. PICK x \in Lines : wire' = wire \o x BY BoardSays
  <1>2. UNCHANGED <<line, damaged>> /\ Around' BY BoardSays DEF Around
  <1>3. Orderly(wire) BY DEF LineInv
  <1>4. /\ Orderly(wire') /\ wire' # <<>>
        /\ IF wire = <<>> THEN Fresh(wire'[1]) ELSE wire'[1] = wire[1]
    BY <1>1, <1>3, Behind
  <1>5. LineType' /\ Room' BY <1>2 DEF LineInv, LineType, Room
  <1>6. FreshWire => FreshWire' BY <1>4 DEF FreshWire
  <1>7. Begun => Begun'
    <2> SUFFICES ASSUME Begun PROVE Begun'
      OBVIOUS
    <2>1. wire'[1] = wire[1] BY <1>4 DEF Begun
    <2> QED BY <1>2, <1>4, <2>1 DEF Begun
  <1>8. Done <=> Done' BY <1>2 DEF Done
  <1>9. ~line.ready /\ ~damaged /\ line.text = <<>> => FreshWire' \/ wire'[1] = Nl
    <2>1. CASE wire = <<>>
      BY <1>4, <2>1 DEF FreshWire
    <2>2. CASE wire # <<>>
      BY <1>4, <1>6, <2>2 DEF LineInv, Stage
    <2> QED BY <2>1, <2>2
  <1>10. Stage' BY <1>2, <1>6, <1>7, <1>8, <1>9 DEF LineInv, Stage
  <1> QED BY <1>2, <1>4, <1>5, <1>10 DEF LineInv

\* A loss leaves the end of what was on the wire: whether it broke a line is
\* what damaged says.
LEMMA BurstLines == ASSUME LineInv, Burst PROVE LineInv'
  <1>1. PICK n \in 1..Len(wire) :
          /\ wire' = SubSeq(wire, n + 1, Len(wire))
          /\ damaged' = (wire[n] # Nl \/ line.text # <<>>)
    BY DEF Burst
  <1>2. Orderly(wire) /\ wire \in Seq(PieceType) /\ Len(wire) \in Nat BY DEF LineInv, Orderly
  <1>3. Orderly(wire')
    BY <1>1, <1>2, TailOrderly
  <1>4. play' \in Play
    <2>1. play \in Play /\ play.bursts > 0 /\ play' = [play EXCEPT !.bursts = @ - 1]
      BY DEF Burst, LineInv, Around
    <2> QED BY <2>1 DEF Play
  <1>5. damaged' \in BOOLEAN BY <1>1
  <1>6. ~damaged' => FreshWire' /\ line.text = <<>>
    <2> SUFFICES ASSUME ~damaged' PROVE FreshWire' /\ line.text = <<>>
      OBVIOUS
    <2>1. wire[n] = Nl /\ line.text = <<>> BY <1>1
    <2>2. CASE n = Len(wire)
      BY <1>1, <1>2, <2>1, <2>2, TailOrderly DEF FreshWire
    <2>3. CASE n < Len(wire)
      <3>1. wire'[1] = wire[n + 1] /\ Follows(wire[n], wire[n + 1])
        BY <1>1, <1>2, <2>3, TailOrderly
      <3>2. Fresh(wire[n + 1]) BY <2>1, <3>1 DEF Follows, Nl, Cr, Piece, Texts
      <3> QED BY <2>1, <3>1, <3>2 DEF FreshWire
    <2> QED BY <1>1, <1>2, <2>2, <2>3
  <1>7. line' = line /\ board' = board /\ ~line.ready BY DEF Burst
  <1>8. LineType' /\ Room' BY <1>7 DEF LineInv, LineType, Room
  <1>9. Stage' BY <1>6, <1>7 DEF Stage
  <1> QED BY <1>3, <1>4, <1>5, <1>7, <1>8, <1>9 DEF LineInv, Around

\* A line handled leaves the assembler empty.
LEMMA ConsumedLines == ASSUME LineInv, HandleReady PROVE LineInv'
  <1>1. line' = Consumed /\ damaged' = FALSE /\ line.ready BY DEF HandleReady
  <1>2. UNCHANGED <<wire, board, play>> BY DEF HandleReady
  <1>3. <<>> \in Seq(PieceType) OBVIOUS
  <1>4. /\ LineType' /\ line'.text = <<>> /\ Len(line'.text) = 0
        /\ ~line'.ready /\ ~line'.truncated /\ line'.overflowing = line.overflowing
    BY <1>1, <1>3 DEF LineInv, LineType, Consumed
  <1>5. Room'
    <2>1. ~line.overflowing BY <1>1 DEF LineInv, Room
    <2> QED BY <1>4, <2>1, IntakeAssumption DEF Room
  <1>6. Stage'
    <2>1. FreshWire' BY <1>1, <1>2 DEF LineInv, Stage, FreshWire
    <2> QED BY <1>4, <2>1 DEF Stage
  <1>7. Around' /\ Orderly(wire') /\ damaged' \in BOOLEAN BY <1>1, <1>2 DEF LineInv, Around
  <1> QED BY <1>4, <1>5, <1>6, <1>7 DEF LineInv

\* The piece fed is the end of the line, a carriage return or text.
LEMMA FeedLines == ASSUME LineInv, Feed PROVE LineInv'
  <1> DEFINE p == wire[1]
  <1>1. wire # <<>> /\ ~line.ready /\ wire \in Seq(PieceType) /\ Orderly(wire) /\ Len(wire) \in Nat
    BY DEF Feed, LineInv, Orderly
  <1>2. Len(wire) > 0 /\ 1 \in 1..Len(wire) /\ p \in PieceType BY <1>1
  <1>3. wire' = SubSeq(wire, 2, Len(wire)) /\ p = Head(wire) BY <1>1 DEF Feed
  <1>4. Orderly(wire') BY <1>1, <1>2, <1>3, TailOrderly
  <1>5. wire' = <<>> => p = Nl
    BY <1>1, <1>2, <1>3, TailOrderly
  <1>6. wire' # <<>> => Follows(p, wire'[1])
    BY <1>1, <1>2, <1>3, TailOrderly
  <1>7. Nl # Cr /\ Nl.k = "nl" /\ Cr.k = "cr" BY DEF Nl, Cr, Piece
  <1>8. UNCHANGED <<board, play>> BY DEF Feed
  <1>9. damaged' = (damaged /\ ~(p = Nl /\ line.text = <<>>)) BY <1>3 DEF Feed
  <1>10. damaged' \in BOOLEAN BY <1>9
  <1>11. line' = CASE p = Nl -> IF line.text = <<>> THEN line ELSE LineEnds(line)
                   [] p = Cr -> line
                   [] OTHER -> LineTakes(line, p)
    BY <1>3 DEF Feed
  <1>12. p = Nl => FreshWire'
    BY <1>6, <1>7 DEF Follows, FreshWire, Texts
  <1> HIDE DEF p
  <1>13. /\ LineType /\ Len(line.text) \in Nat /\ line.text \in Seq(PieceType)
         /\ Room /\ Stage /\ Around'
    BY <1>8 DEF LineInv, LineType, Around
  <1>18. line.text # <<>> => line.text[1].a \in Nat /\ 1 \in 1..Len(line.text)
    <2> SUFFICES ASSUME line.text # <<>> PROVE line.text[1].a \in Nat /\ 1 \in 1..Len(line.text)
      OBVIOUS
    <2>1. line.text[1] \in PieceType /\ Len(line.text) > 0 BY <1>13
    <2> QED BY <2>1, <1>13 DEF PieceType
  <1>14. CASE p = Nl /\ line.text = <<>>
    <2>1. line' = line /\ ~damaged' BY <1>9, <1>11, <1>14
    <2>2. Stage' BY <1>1, <1>12, <1>14, <2>1 DEF Stage
    <2>3. LineType' /\ Room' BY <1>13, <2>1 DEF LineType, Room
    <2> QED BY <1>4, <1>10, <1>13, <2>2, <2>3 DEF LineInv
  <1>15. CASE p = Nl /\ line.text # <<>>
    <2>0. line' = LineEnds(line) BY <1>7, <1>11, <1>15
    <2>1. line' = LineEnds(line) /\ damaged' = damaged BY <1>9, <1>15, <2>0, Zenon DEF LineInv
    <2>2. /\ LineType' /\ line'.text = line.text /\ line'.ready
          /\ line'.truncated = line.overflowing /\ ~line'.overflowing
      BY <1>13, <2>1 DEF LineType, LineEnds
    <2>3. ~damaged => Done'
      <3> SUFFICES ASSUME ~damaged PROVE Done'
        OBVIOUS
      <3>1. Begun BY <1>1, <1>13, <1>15 DEF Stage
      <3> DEFINE k == line.text[1].k
                 m == Len(line.text)
                 a == line.text[1].a
      <3>2. k \in Texts /\ a \in Nat /\ m \in 1..MaxText
        <4>1. k \in Texts BY <3>1 DEF Begun
        <4>2. a \in Nat BY <1>15, <1>18
        <4>3. m \in 1..MaxText BY <1>13, <1>15, <1>18, IntakeAssumption DEF Room
        <4> QED BY <4>1, <4>2, <4>3
      <3>3. k # "nl" BY <3>2 DEF Texts
      <3>4. line.overflowing \/ m >= Count(k)
        <4>1. p # Piece(k, a, m + 1) BY <1>7, <1>15, <3>3 DEF Piece
        <4> QED BY <3>1, <3>2, <4>1, PiecesAre DEF Begun, p
      <3>5. k = "long" => line.overflowing BY <3>2, <3>4, IntakeAssumption DEF Count
      <3>6. line.overflowing <=> k = "long" BY <3>1, <3>5 DEF Begun
      <3>7. ~line.overflowing => Whole(line.text, k)
        <4> SUFFICES ASSUME ~line.overflowing PROVE Whole(line.text, k)
          OBVIOUS
        <4>1. m = Count(k) /\ \A i \in 1..m : line.text[i] = Piece(k, a, i)
          BY <3>1, <3>2, <3>4, PiecesAre DEF Begun
        <4>2. Pieces(k, a) \in Seq(PieceType) /\ Len(Pieces(k, a)) = m
              /\ \A i \in 1..m : Pieces(k, a)[i] = Piece(k, a, i)
          BY <3>2, <4>1, PiecesAre
        <4>3. line.text = Pieces(k, a) BY <1>13, <4>1, <4>2
        <4>4. line.text[1].part = 1
          <5>1. 1 \in 1..m BY <3>2
          <5>2. line.text[1] = Piece(k, a, 1) BY <4>1, <5>1
          <5> HIDE DEF k, a
          <5> QED BY <5>2 DEF Piece
        <4> QED BY <4>3, <4>4 DEF Whole, Starts
      <3> HIDE DEF k
      <3> QED BY <2>2, <3>2, <3>6, <3>7 DEF Done, k
    <2>4. Stage' BY <1>12, <1>15, <2>1, <2>2, <2>3 DEF Stage
    <2>5. Room' BY <1>13, <2>2 DEF Room
    <2> QED BY <1>4, <1>10, <1>13, <2>2, <2>4, <2>5 DEF LineInv
  <1>16. CASE p = Cr
    <2>1. line' = line /\ damaged' = damaged BY <1>7, <1>9, <1>11, <1>16 DEF LineInv
    <2>2. wire' # <<>> /\ wire'[1] = Nl
      BY <1>5, <1>6, <1>7, <1>16 DEF Follows, Texts
    <2>3. Begun => Begun'
      <3> SUFFICES ASSUME Begun PROVE Begun'
        OBVIOUS
      <3>1. line.text[1].k \in Texts /\ p # Piece(line.text[1].k, line.text[1].a, Len(line.text) + 1)
        BY <1>7, <1>16 DEF Begun, Texts, Piece
      <3> QED BY <2>1, <2>2, <3>1 DEF Begun, p
    <2>4. Stage' BY <1>1, <1>13, <2>1, <2>2, <2>3 DEF Stage
    <2>5. LineType' /\ Room' BY <1>13, <2>1 DEF LineType, Room
    <2> QED BY <1>4, <1>10, <1>13, <2>4, <2>5 DEF LineInv
  <1>17. CASE p # Nl /\ p # Cr
    <2>1. line' = LineTakes(line, p) /\ damaged' = damaged BY <1>9, <1>11, <1>17 DEF LineInv
    <2>2. wire' # <<>> /\ Follows(p, wire'[1]) /\ p.k \in Texts
      BY <1>5, <1>6, <1>17 DEF Follows
    <2>3. \/ /\ p.part < Count(p.k) /\ wire'[1] = Piece(p.k, p.a, p.part + 1)
          \/ /\ p.part >= Count(p.k) /\ wire'[1] \in {Cr, Nl}
      BY <1>17, <2>2 DEF Follows
    <2>4. p.a \in Nat /\ p.part \in Nat /\ p = Piece(p.k, p.a, p.part)
      BY <1>2 DEF PieceType, Piece, p
    <2>5. CASE Len(line.text) >= MaxText
      <3>1. /\ LineType' /\ line'.text = line.text /\ ~line'.ready
            /\ line'.truncated = line.truncated /\ line'.overflowing
        BY <1>1, <1>13, <2>1, <2>5 DEF LineType, LineTakes
      <3>2. Len(line.text) = MaxText /\ line.text # <<>>
        BY <1>13, <2>5, IntakeAssumption DEF Room
      <3>3. ~damaged => Begun'
        <4> SUFFICES ASSUME ~damaged PROVE Begun'
          OBVIOUS
        <4>1. Begun BY <1>1, <1>13, <3>2 DEF Stage
        <4> DEFINE k == line.text[1].k
                   m == Len(line.text)
                   a == line.text[1].a
        <4>2. k \in Texts /\ a \in Nat
          BY <1>18, <3>2, <4>1 DEF Begun
        <4>3. p = Piece(k, a, m + 1) /\ m < Count(k) /\ ~line.overflowing
          BY <1>17, <4>1 DEF Begun, p
        <4>4. k = "long" /\ m + 1 = Count(k)
          BY <3>2, <4>2, <4>3, IntakeAssumption DEF Count
        <4>5. p.k = k /\ p.part = m + 1 BY <4>3 DEF Piece
        <4>6. wire'[1] \in {Cr, Nl} BY <2>3, <4>4, <4>5, <3>2, IntakeAssumption
        <4> QED BY <2>2, <3>1, <4>1, <4>2, <4>4, <4>6 DEF Begun
      <3>4. Stage' BY <2>1, <3>1, <3>2, <3>3 DEF Stage
      <3>5. Room' BY <1>1, <1>13, <3>1, <3>2 DEF Room
      <3> QED BY <1>4, <1>10, <1>13, <3>1, <3>4, <3>5 DEF LineInv
    <2>6. CASE Len(line.text) < MaxText
      <3> DEFINE t == Append(line.text, p)
                 m == Len(line.text)
      <3>1. /\ LineType' /\ line'.text = t /\ ~line'.ready
            /\ line'.truncated = line.truncated /\ line'.overflowing = line.overflowing
        <4>1. t \in Seq(PieceType) BY <1>2, <1>13
        <4>2. line' = [line EXCEPT !.text = t]
          BY <1>13, <2>1, <2>6, IntakeAssumption DEF LineTakes
        <4> HIDE DEF t
        <4> QED BY <1>1, <1>13, <4>1, <4>2 DEF LineType
      <3>2. /\ t \in Seq(PieceType) /\ Len(t) = m + 1 /\ t[m + 1] = p /\ t # <<>>
            /\ \A i \in 1..m : t[i] = line.text[i]
        BY <1>2, <1>13 DEF p
      <3>3. ~line.overflowing BY <1>13, <2>6, IntakeAssumption DEF Room
      <3> HIDE DEF t
      <3>4. ASSUME ~damaged PROVE \E k \in Texts, a \in Nat :
                                    /\ p = Piece(k, a, m + 1) /\ m + 1 <= Count(k)
                                    /\ \A i \in 1..m : line.text[i] = Piece(k, a, i)
        <4>1. CASE line.text = <<>>
          <5>1. Fresh(p) BY <1>1, <1>13, <1>17, <3>4, <4>1 DEF Stage, FreshWire, p
          <5>2. p.part = 1 BY <1>17, <5>1 DEF Fresh, Opens
          <5>3. p = Piece(p.k, p.a, 1) BY <2>4, <5>2
          <5> QED BY <2>2, <2>4, <4>1, <5>3, PiecesAre
        <4>2. CASE line.text # <<>>
          <5>1. Begun BY <1>1, <1>13, <3>4, <4>2 DEF Stage
          <5> DEFINE k == line.text[1].k
                     a == line.text[1].a
          <5>2. k \in Texts /\ a \in Nat BY <1>18, <4>2, <5>1 DEF Begun
          <5>3. m < Count(k) /\ p = Piece(k, a, m + 1)
            BY <1>17, <5>1 DEF Begun, p
          <5>4. \A i \in 1..m : line.text[i] = Piece(k, a, i) BY <5>1 DEF Begun
          <5>5. Count(k) \in Nat BY <5>2, PiecesAre
          <5>6. m < Count(k) /\ m \in Nat BY <1>13, <5>3
          <5>7. m + 1 <= Count(k)
            <6> HIDE DEF m, k
            <6> QED BY <5>5, <5>6
          <5> QED BY <5>2, <5>3, <5>4, <5>7
        <4> QED BY <4>1, <4>2
      <3>5. ~damaged => Begun'
        <4> SUFFICES ASSUME ~damaged PROVE Begun'
          OBVIOUS
        <4>1. PICK k \in Texts, a \in Nat :
                     /\ p = Piece(k, a, m + 1) /\ m + 1 <= Count(k)
                     /\ \A i \in 1..m : line.text[i] = Piece(k, a, i)
          BY <3>4
        <4>2. \A i \in 1..(m + 1) : t[i] = Piece(k, a, i)
          <5>1. ASSUME NEW i \in 1..(m + 1) PROVE t[i] = Piece(k, a, i)
            <6>1. i = m + 1 \/ i \in 1..m BY <1>13
            <6> QED BY <3>2, <4>1, <6>1
          <5> QED BY <5>1
        <4>3. t[1].k = k /\ t[1].a = a
          <5>1. 1 \in 1..(m + 1) BY <1>13
          <5>2. t[1] = Piece(k, a, 1) BY <4>2, <5>1
          <5> QED BY <5>2 DEF Piece
        <4>4. p.k = k /\ p.a = a /\ p.part = m + 1 BY <4>1 DEF Piece
        <4>5. IF m + 1 < Count(k) THEN wire'[1] = Piece(k, a, (m + 1) + 1) ELSE wire'[1] \in {Cr, Nl}
          BY <1>13, <2>3, <4>1, <4>4, PiecesAre
        <4> QED BY <2>2, <3>1, <3>2, <3>3, <4>1, <4>2, <4>3, <4>5 DEF Begun
      <3>6. Stage' BY <2>1, <3>1, <3>2, <3>5 DEF Stage
      <3>7. ~line.truncated BY <1>1, <1>13 DEF Room
      <3>8. Room' BY <1>13, <2>6, <3>1, <3>2, <3>3, <3>7, IntakeAssumption DEF Room
      <3> QED BY <1>4, <1>10, <1>13, <3>1, <3>6, <3>8 DEF LineInv
    <2> QED BY <1>13, <2>5, <2>6, IntakeAssumption
  <1> QED BY <1>14, <1>15, <1>16, <1>17

\* Every step leaves the wire and the assembler as LineInv has them.
LEMMA NextLines == LineInv /\ [Next]_vars => LineInv'
  <1> SUFFICES ASSUME LineInv, [Next]_vars PROVE LineInv'
    OBVIOUS
  <1>0. play \in Play BY DEF LineInv, Around
  <1>1. CASE UNCHANGED <<wire, line, board, damaged>> /\ play' \in Play
    <2>1. (Begun <=> Begun') /\ (Done <=> Done') /\ (FreshWire <=> FreshWire')
      BY <1>1 DEF Begun, Done, FreshWire
    <2>2. Stage' BY <1>1, <2>1 DEF Stage, LineInv
    <2> QED BY <1>1, <2>2 DEF LineInv, Around, LineType, Room
  <1>2. CASE UNCHANGED vars
    BY <1>0, <1>1, <1>2 DEF vars, intakeVars
  <1>3. CASE GuiArms
    <2>1. play' = [play EXCEPT !.arms = @ - 1] /\ play.arms > 0 BY <1>3 DEF GuiArms
    <2>2. play' \in Play BY <1>0, <2>1 DEF Play
    <2> QED BY <1>1, <1>3, <2>2 DEF GuiArms
  <1>4. CASE TickFails
    <2>1. play' = [play EXCEPT !.fails = @ - 1] /\ play.fails > 0 BY <1>4 DEF TickFails
    <2>2. play' \in Play BY <1>0, <2>1 DEF Play
    <2> QED BY <1>1, <1>4, <2>2 DEF TickFails
  <1>5. CASE GuiDisarms \/ TickPulls \/ TickWrites
    BY <1>0, <1>1, <1>5 DEF GuiDisarms, TickPulls, TickWrites, intakeVars
  <1> QED BY <1>2, <1>3, <1>4, <1>5, AnswersLines, BurstLines, FeedLines, ConsumedLines DEF Next

\* The assembler gives out a line of which nothing was lost as the board sent
\* it, or marks it as cut (sr_line.h:37-57), whatever the lines and the losses.
THEOREM LinesAreIntact == Spec => []LinesIntact
  <1>1. LineInv => LinesIntact BY DEF LineInv, Stage, Room, LinesIntact, Done
  <1> QED BY <1>1, InitLines, NextLines, PTL DEF Spec

-----------------------------------------------------------------------------
(* What becomes of a line.                                                 *)

FwShape(f) == f = [fw |-> f.fw, ver |-> f.ver, diag |-> f.diag, cap |-> f.cap]

ParserShape(p) ==
  /\ p = [inBlock |-> p.inBlock, gps |-> p.gps, fw |-> p.fw]
  /\ p.inBlock \in BOOLEAN /\ p.gps = [k \in GpsField |-> p.gps[k]]
  /\ FwShape(p.fw)

ModelShape(m) ==
  m = [session |-> m.session, ap |-> m.ap, blocks |-> m.blocks, fix |-> m.fix, fw |-> m.fw,
       status |-> m.status]

Shapes == ParserShape(parser) /\ ModelShape(model)

\* The parser when the latch has seen the line.
Latched(t) == [parser EXCEPT !.fw.cap = SigroamCap(parser.fw.cap, t)]

\* The latch touches nothing else of the parser.
LEMMA LatchedIs ==
  ASSUME Shapes, NEW t
  PROVE  /\ ParserShape(Latched(t))
         /\ Latched(t).inBlock = parser.inBlock /\ Latched(t).gps = parser.gps
         /\ Latched(t).fw.ver = parser.fw.ver /\ Latched(t).fw.diag = parser.fw.diag
         /\ Latched(t).fw.cap = SigroamCap(parser.fw.cap, t)
  <1> DEFINE c == SigroamCap(parser.fw.cap, t)
             f == [parser.fw EXCEPT !.cap = c]
             q == Latched(t)
  <1>1. ParserShape(parser) BY DEF Shapes
  <1>2. q = [parser EXCEPT !.fw = f] BY DEF Latched
  <1> HIDE DEF c, q
  <1>3. FwShape(f) /\ f.ver = parser.fw.ver /\ f.diag = parser.fw.diag /\ f.cap = c
    BY <1>1 DEF ParserShape, FwShape
  <1> HIDE DEF f
  <1>4. /\ q = [inBlock |-> q.inBlock, gps |-> q.gps, fw |-> q.fw]
        /\ q.inBlock = parser.inBlock /\ q.gps = parser.gps /\ q.fw = f
    BY <1>1, <1>2 DEF ParserShape
  <1> QED BY <1>1, <1>3, <1>4 DEF ParserShape, c, q

\* A line that is no GPS line changes who the peer is at most.
LEMMA DispatchIs ==
  ASSUME NEW p, NEW t
  PROVE  /\ Dispatch(p, t).ev.kind \notin {"gps", "more"}
         /\ \/ Dispatch(p, t).parser = p
            \/ IsProbed(t) /\ Dispatch(p, t).parser = [p EXCEPT !.fw = Probed(p.fw, t)]
  <1>1. \A k, v, q : Outcome(q, k, v).parser = q /\ Outcome(q, k, v).ev.kind = k
    BY DEF Outcome
  <1>2. CsvKind(t) \in {"row", "ble", "unknown"} BY DEF CsvKind
  <1>3. IsStatus(t) => t[1].k \in Status BY DEF IsStatus, Whole, Starts
  <1> QED BY <1>1, <1>2, <1>3 DEF Dispatch, Status

\* What the model makes of an event, as far as position and identity go.
LEMMA ApplyIs ==
  ASSUME Shapes, NEW ev
  PROVE  /\ ModelShape(ApplyEvent(model, ev))
         /\ ev.kind = "gps" => ApplyEvent(model, ev).fix = ev.value
         /\ ev.kind # "gps" => ApplyEvent(model, ev).fix = model.fix
         /\ ev.kind = "fw" => ApplyEvent(model, ev).fw = ev.value
         /\ ev.kind # "fw" => ApplyEvent(model, ev).fw = model.fw
  <1> DEFINE m == ApplyEvent(model, ev)
  <1>0. ModelShape(model) BY DEF Shapes
  <1>1. ASSUME NEW n, ModelShape(n)
        PROVE  /\ ModelShape(SessionStarted(n))
               /\ SessionStarted(n).fix = n.fix /\ SessionStarted(n).fw = n.fw
    BY <1>1 DEF SessionStarted, ModelShape
  <1>2. CASE ev.kind = "started"
    <2>1. m = SessionStarted(model) BY <1>2 DEF ApplyEvent, Status
    <2> QED BY <1>0, <1>1, <1>2, <2>1
  <1>3. CASE ev.kind = "wifiStop"
    <2> DEFINE s == Stopped(model.session, Dialect(model))
    <2>1. m = [model EXCEPT !.session = s] BY <1>3 DEF ApplyEvent, Status
    <2> HIDE DEF s, m
    <2> QED BY <1>0, <1>3, <2>1 DEF ModelShape, m
  <1>4. CASE ev.kind \in {"row", "ble"}
    <2> DEFINE s == RowSeen(model.session, Dialect(model))
               n == [model EXCEPT !.ap = @ + 1]
               u == IF s # model.session THEN SessionStarted(n) ELSE n
    <2>1. ModelShape(n) /\ n.fix = model.fix /\ n.fw = model.fw BY <1>0 DEF ModelShape
    <2>2. m = [u EXCEPT !.session = s] BY <1>4 DEF ApplyEvent, RowCounted, Status
    <2>3. ModelShape(u) /\ u.fix = model.fix /\ u.fw = model.fw
      <3> HIDE DEF n, s
      <3> QED BY <1>1, <2>1
    <2> HIDE DEF s, u, m
    <2> QED BY <1>4, <2>2, <2>3 DEF ModelShape, m
  <1>5. CASE ev.kind = "gps"
    <2>1. m = [model EXCEPT !.fix = ev.value, !.blocks = @ + 1] BY <1>5 DEF ApplyEvent, Status
    <2> HIDE DEF m
    <2> QED BY <1>0, <1>5, <2>1 DEF ModelShape, m
  <1>6. CASE ev.kind = "fw"
    <2>1. m = [model EXCEPT !.fw = ev.value] BY <1>6 DEF ApplyEvent, Status
    <2> HIDE DEF m
    <2> QED BY <1>0, <1>6, <2>1 DEF ModelShape, m
  <1>7. CASE ev.kind \in Status
    <2> DEFINE s == [model.status EXCEPT ![ev.kind] = ev.value]
    <2>1. m = model \/ m = [model EXCEPT !.status = s] BY <1>7 DEF ApplyEvent, Status
    <2> HIDE DEF s, m
    <2> QED BY <1>0, <1>7, <2>1 DEF ModelShape, Status, m
  <1>8. CASE ev.kind \notin {"started", "wifiStop", "row", "ble", "gps", "fw"} \cup Status
    <2>1. m = model BY <1>8 DEF ApplyEvent, Status
    <2> QED BY <1>0, <1>8, <2>1
  <1> QED BY <1>2, <1>3, <1>4, <1>5, <1>6, <1>7, <1>8

\* Leaving a block keeps the rest of the parser.
LEMMA OutOfBlock ==
  ASSUME NEW p, ParserShape(p), NEW r, r = [p EXCEPT !.inBlock = FALSE]
  PROVE  ParserShape(r) /\ ~r.inBlock
  <1>1. p = [inBlock |-> p.inBlock, gps |-> p.gps, fw |-> p.fw] BY DEF ParserShape
  <1>2. /\ r = [inBlock |-> r.inBlock, gps |-> r.gps, fw |-> r.fw]
        /\ r.inBlock = FALSE /\ r.gps = p.gps /\ r.fw = p.fw
    BY <1>1
  <1> QED BY <1>2 DEF ParserShape

\* So does a new identity.
LEMMA Renamed ==
  ASSUME NEW p, ParserShape(p), NEW f, FwShape(f), NEW r, r = [p EXCEPT !.fw = f]
  PROVE  ParserShape(r) /\ r.inBlock = p.inBlock /\ r.gps = p.gps /\ r.fw = f
  <1>1. p = [inBlock |-> p.inBlock, gps |-> p.gps, fw |-> p.fw] BY DEF ParserShape
  <1>2. /\ r = [inBlock |-> r.inBlock, gps |-> r.gps, fw |-> r.fw]
        /\ r.inBlock = p.inBlock /\ r.gps = p.gps /\ r.fw = f
    BY <1>1
  <1> QED BY <1>2 DEF ParserShape

\* A line in a block of position, whatever it is.
LEMMA GpsIs ==
  ASSUME Shapes, HandleReady, ~line.truncated, NEW t, t = line.text
  PROVE  /\ Shapes'
         /\ Whole(t, "hdr") => /\ parser'.inBlock /\ parser'.gps = NoFix
                               /\ model'.fix = model.fix
         /\ ~Whole(t, "hdr") /\ parser.inBlock /\ IsGpsField(t) =>
              LET filled == GpsFilled(parser, t)
              IN  IF t[1].k = "dt" THEN ~parser'.inBlock /\ model'.fix = filled
                  ELSE parser'.inBlock /\ parser'.gps = filled /\ model'.fix = model.fix
         /\ ~Whole(t, "hdr") /\ ~(parser.inBlock /\ IsGpsField(t)) =>
              ~parser'.inBlock /\ model'.fix = model.fix
  <1> DEFINE o == Parsed(t)
             q == Latched(t)
  <1>1. parser' = o.parser /\ model' = ApplyEvent(model, o.ev)
    BY Zenon DEF HandleReady
  <1>2. /\ ParserShape(q) /\ q.inBlock = parser.inBlock /\ q.gps = parser.gps
        /\ ParserShape(parser)
    BY LatchedIs DEF Shapes
  <1>3. /\ ModelShape(model')
        /\ o.ev.kind = "gps" => model'.fix = o.ev.value
        /\ o.ev.kind # "gps" => model'.fix = model.fix
    BY <1>1, ApplyIs
  <1>4. o = IF Whole(t, "hdr") THEN Outcome(GpsHeader(q), "more", 0)
            ELSE IF q.inBlock /\ IsGpsField(t) THEN GpsFill(q, t)
            ELSE Dispatch([q EXCEPT !.inBlock = FALSE], t)
    BY Zenon DEF Parsed, Latched
  <1> HIDE DEF o, q
  <1>5. \A k, v, r : Outcome(r, k, v).parser = r /\ Outcome(r, k, v).ev.kind = k
                     /\ Outcome(r, k, v).ev.value = v
    BY DEF Outcome
  <1>6. CASE Whole(t, "hdr")
    <2>1. parser' = GpsHeader(q) /\ o.ev.kind = "more" BY <1>1, <1>4, <1>5, <1>6
    <2>2. NoFix = [k \in GpsField |-> NoFix[k]]
      BY DEF NoFix, GpsField
    <2>3. ParserShape(parser') /\ parser'.inBlock /\ parser'.gps = NoFix
      BY <1>2, <2>1, <2>2 DEF GpsHeader, ParserShape
    <2> QED BY <1>3, <1>6, <2>1, <2>3 DEF Shapes
  <1>7. CASE ~Whole(t, "hdr") /\ parser.inBlock /\ IsGpsField(t)
    <2> DEFINE filled == GpsFilled(parser, t)
    <2>1. filled = GpsFilled(q, t) BY <1>2 DEF GpsFilled
    <2>2. filled = [k \in GpsField |-> filled[k]]
      BY <1>2 DEF GpsFilled, ParserShape
    <2> HIDE DEF filled
    <2>3. CASE t[1].k = "dt"
      <3>1. /\ parser' = [q EXCEPT !.gps = filled, !.inBlock = FALSE]
            /\ o.ev.kind = "gps" /\ o.ev.value = filled
        BY <1>1, <1>2, <1>4, <1>5, <1>7, <2>1, <2>3 DEF GpsFill
      <3>2. ParserShape(parser') /\ ~parser'.inBlock
        BY <1>2, <2>2, <3>1 DEF ParserShape
      <3> QED BY <1>3, <1>7, <2>3, <3>1, <3>2 DEF Shapes, filled
    <2>4. CASE t[1].k # "dt"
      <3>1. parser' = [q EXCEPT !.gps = filled] /\ o.ev.kind = "more"
        BY <1>1, <1>2, <1>4, <1>5, <1>7, <2>1, <2>4 DEF GpsFill
      <3>2. ParserShape(parser') /\ parser'.inBlock /\ parser'.gps = filled
        BY <1>2, <1>7, <2>2, <3>1 DEF ParserShape
      <3> QED BY <1>3, <1>7, <2>4, <3>1, <3>2 DEF Shapes, filled
    <2> QED BY <2>3, <2>4
  <1>8. CASE ~Whole(t, "hdr") /\ ~(parser.inBlock /\ IsGpsField(t))
    <2> DEFINE r == [q EXCEPT !.inBlock = FALSE]
    <2>1. o = Dispatch(r, t) BY <1>2, <1>4, <1>8
    <2>2. ParserShape(r) /\ ~r.inBlock BY <1>2, OutOfBlock
    <2> HIDE DEF r
    <2>3. o.ev.kind # "gps" /\ (parser' = r \/ (IsProbed(t) /\ parser' = [r EXCEPT !.fw = Probed(r.fw, t)]))
      BY <1>1, <2>1, DispatchIs
    <2>4. ParserShape(parser') /\ ~parser'.inBlock
      <3>1. CASE parser' = r
        BY <2>2, <3>1
      <3>2. CASE IsProbed(t) /\ parser' = [r EXCEPT !.fw = Probed(r.fw, t)]
        <4> DEFINE f == Probed(r.fw, t)
        <4>1. FwShape(f)
          BY <2>2, <3>2 DEF Probed, IsProbed, IsDiag, Whole, FwShape, ParserShape
        <4>2. parser' = [r EXCEPT !.fw = f] BY <3>2
        <4> HIDE DEF f
        <4> QED BY <2>2, <4>1, <4>2, Renamed
      <3> QED BY <2>3, <3>1, <3>2
    <2> QED BY <1>3, <1>8, <2>3, <2>4 DEF Shapes
  <1> QED BY <1>6, <1>7, <1>8

-----------------------------------------------------------------------------
(* A position is of one answer.                                            *)

\* A piece moves from the wire to the text, or an end of line is read.
LEMMA FeedMoves ==
  ASSUME LineInv, Feed
  PROVE  /\ Len(wire) \in Nat /\ Len(wire) > 0 /\ Len(wire') = Len(wire) - 1
         /\ wire # <<>> /\ (wire' # <<>> <=> Len(wire') > 0)
         /\ \A i \in 1..Len(wire') : wire'[i] = wire[i + 1] /\ i + 1 \in 1..Len(wire)
         /\ \A k : Text(k) => Text(k)'
         /\ line.text # <<>> => line'.text # <<>> /\ line'.text[1] = line.text[1]
         /\ line.text = <<>> /\ line'.text # <<>> =>
              line'.text[1] = wire[1] /\ wire[1] \notin {Cr, Nl}
         /\ line.text = <<>> /\ line'.text = <<>> => wire[1] \in {Cr, Nl}
         /\ ~damaged /\ line.text # <<>> /\ wire[1] \notin {Cr, Nl} =>
              wire[1].k = line.text[1].k
         /\ wire[1] = Nl => (line.text # <<>> /\ line'.ready) \/ (line'.text = <<>> /\ ~damaged')
         /\ line.text # <<>> => damaged' = damaged
         /\ ~damaged => ~damaged'
  <1> DEFINE p == wire[1]
  <1>1. /\ wire # <<>> /\ ~line.ready /\ wire \in Seq(PieceType) /\ Len(wire) \in Nat
        /\ damaged \in BOOLEAN /\ LineType /\ Stage /\ line.text \in Seq(PieceType)
        /\ Len(line.text) \in Nat
    BY DEF Feed, LineInv, Orderly, LineType
  <1>2. /\ Len(wire) > 0 /\ Len(wire') = Len(wire) - 1 /\ wire' \in Seq(PieceType)
        /\ \A i \in 1..Len(wire') : wire'[i] = wire[i + 1] /\ i + 1 \in 1..Len(wire)
    BY <1>1 DEF Feed
  <1>3. wire' # <<>> <=> Len(wire') > 0 BY <1>2
  <1>4. p = Head(wire) BY <1>1
  <1>5. /\ damaged' = (damaged /\ ~(p = Nl /\ line.text = <<>>))
        /\ line' = CASE p = Nl -> IF line.text = <<>> THEN line ELSE LineEnds(line)
                     [] p = Cr -> line
                     [] OTHER -> LineTakes(line, p)
    BY <1>4 DEF Feed
  <1> HIDE DEF p
  <1>6. Nl # Cr BY DEF Nl, Cr, Piece
  <1>7. p = Nl => IF line.text = <<>> THEN line' = line ELSE line' = LineEnds(line)
    BY <1>5, <1>6
  <1>8. p = Cr => line' = line BY <1>5, <1>6
  <1>9. p \notin {Cr, Nl} => line' = LineTakes(line, p) BY <1>5
  <1>10. /\ LineEnds(line).text = line.text /\ LineEnds(line).ready
    BY <1>1 DEF LineEnds, LineType
  <1>11. line.text = <<>> => LineTakes(line, p).text = <<p>>
    BY <1>1, IntakeAssumption DEF LineTakes, LineType
  <1>12. line.text # <<>> => LineTakes(line, p).text # <<>> /\ LineTakes(line, p).text[1] = line.text[1]
    <2> SUFFICES ASSUME line.text # <<>>
                 PROVE  LineTakes(line, p).text # <<>> /\ LineTakes(line, p).text[1] = line.text[1]
      OBVIOUS
    <2> DEFINE t == Append(line.text, p)
    <2>1. t # <<>> /\ t[1] = line.text[1] BY <1>1
    <2> HIDE DEF t
    <2>2. LineTakes(line, p).text = line.text \/ LineTakes(line, p).text = t
      BY <1>1 DEF LineTakes, LineType, t
    <2> QED BY <2>1, <2>2
  <1>13. <<p>> # <<>> /\ <<p>>[1] = p OBVIOUS
  <1>14. line.text # <<>> => line'.text # <<>> /\ line'.text[1] = line.text[1]
    BY <1>7, <1>8, <1>9, <1>10, <1>12
  <1>15. line.text = <<>> => IF p \in {Cr, Nl} THEN line'.text = <<>> ELSE line'.text = <<p>>
    BY <1>7, <1>8, <1>9, <1>11
  <1>16. ~damaged /\ line.text # <<>> /\ p \notin {Cr, Nl} => p.k = line.text[1].k
    BY <1>1 DEF Stage, Begun, Piece, p
  <1>17. p = Nl => (line.text # <<>> /\ line'.ready) \/ (line'.text = <<>> /\ ~damaged')
    BY <1>5, <1>7, <1>10
  <1>18. \A k : Text(k) => Text(k)' BY <1>14 DEF Text
  <1>19. (line.text # <<>> => damaged' = damaged) /\ (~damaged => ~damaged')
    BY <1>1, <1>5
  <1>20. line.text = <<>> /\ line'.text # <<>> => line'.text[1] = p /\ p \notin {Cr, Nl}
    BY <1>13, <1>15
  <1>21. line.text = <<>> /\ line'.text = <<>> => p \in {Cr, Nl}
    BY <1>13, <1>15
  <1> QED BY <1>1, <1>2, <1>3, <1>14, <1>16, <1>17, <1>18, <1>19, <1>20, <1>21 DEF p

GpsOf(c) == \A k \in GpsField : parser.gps[k] \in {0, c}

\* Every header on the wire between the two is of the block of the second.
SameBlock(j, i) ==
  \A h \in 1..Len(wire) : j < h /\ h < i /\ wire[h].k = "hdr" => wire[h].a = wire[i].a

\* The header of a position is on the wire before it.
HeaderBefore(i) ==
  \E j \in 1..Len(wire) : /\ j < i /\ wire[j].k = "hdr" /\ wire[j].part = 1
                          /\ wire[j].a = wire[i].a /\ SameBlock(j, i)

\* c is the block whose header was read last: a position on the wire is of it
\* or has its own header before it, and the parser has gathered no other.
Block(c) ==
  /\ \A i \in 1..Len(wire) : wire[i].k \in GpsField =>
       (wire[i].a = c /\ SameBlock(0, i)) \/ HeaderBefore(i)
  /\ line.text # <<>> /\ line.text[1].k \in GpsField => line.text[1].a = c
  /\ parser.inBlock => Text("hdr") \/ GpsOf(c)

BlockOfOne == \E c : Block(c)

\* A header under way is whole so far, and one to come begins a line.
HeaderWhole ==
  /\ Text("hdr") => ~damaged
  /\ wire # <<>> /\ wire[1].k = "hdr" /\ line.text = <<>> => ~damaged

ShownOfOne == \E c : \A k \in GpsField : model.fix[k] \in {0, c}

FixInv ==
  /\ bursts \in Nat /\ Shapes /\ headerLost \in BOOLEAN
  /\ bursts = 0 => ~damaged
  /\ wire = <<>> /\ line.text = <<>> => ~damaged
  /\ ~headerLost => ShownOfOne /\ BlockOfOne /\ HeaderWhole

\* A piece moves: the block read last is the same, or the one whose header
\* is that piece.
LEMMA FeedBlock ==
  ASSUME LineInv, Feed, HeaderWhole, headerLost' = FALSE, BlockOfOne
  PROVE  BlockOfOne'
  <1>1. parser' = parser /\ ~line.ready BY DEF Feed
  <1>2. /\ Len(wire) \in Nat /\ Len(wire) > 0 /\ Len(wire') = Len(wire) - 1
        /\ \A i \in 1..Len(wire') : wire'[i] = wire[i + 1] /\ i + 1 \in 1..Len(wire)
        /\ \A k : Text(k) => Text(k)'
        /\ line.text # <<>> => line'.text # <<>> /\ line'.text[1] = line.text[1]
        /\ line.text = <<>> /\ line'.text # <<>> =>
             line'.text[1] = wire[1] /\ wire[1] \notin {Cr, Nl}
        /\ line.text = <<>> /\ line'.text = <<>> => wire[1] \in {Cr, Nl}
    BY FeedMoves
  <1>3. wire # <<>> /\ Head(wire) = wire[1] /\ 1 \in 1..Len(wire) /\ wire[1] \in PieceType
    BY <1>2 DEF Feed, LineInv, Orderly
  <1>4. PICK c : Block(c) BY DEF BlockOfOne
  <1>5. \A d : GpsOf(d) => GpsOf(d)' BY <1>1 DEF GpsOf
  <1>6. "hdr" \notin GpsField BY DEF GpsField
  <1>7. \A i \in 1..Len(wire'), j \in 1..Len(wire') : SameBlock(j + 1, i + 1) => SameBlock(j, i)'
    <2> SUFFICES ASSUME NEW i \in 1..Len(wire'), NEW j \in 1..Len(wire'), SameBlock(j + 1, i + 1),
                        NEW h \in 1..Len(wire'), j < h, h < i, wire'[h].k = "hdr"
                 PROVE  wire'[h].a = wire'[i].a
      BY DEF SameBlock
    <2>1. wire'[h] = wire[h + 1] /\ wire'[i] = wire[i + 1] /\ h + 1 \in 1..Len(wire) BY <1>2
    <2>2. j + 1 < h + 1 /\ h + 1 < i + 1 BY <1>2
    <2> QED BY <2>1, <2>2 DEF SameBlock
  <1>8. \A i \in 1..Len(wire') : SameBlock(1, i + 1) => SameBlock(0, i)'
    <2> SUFFICES ASSUME NEW i \in 1..Len(wire'), SameBlock(1, i + 1),
                        NEW h \in 1..Len(wire'), 0 < h, h < i, wire'[h].k = "hdr"
                 PROVE  wire'[h].a = wire'[i].a
      BY DEF SameBlock
    <2>1. wire'[h] = wire[h + 1] /\ wire'[i] = wire[i + 1] /\ h + 1 \in 1..Len(wire) BY <1>2
    <2>2. 1 < h + 1 /\ h + 1 < i + 1 BY <1>2
    <2> QED BY <2>1, <2>2 DEF SameBlock
  <1>9. \A i \in 1..Len(wire') : SameBlock(0, i + 1) => SameBlock(1, i + 1)
    BY DEF SameBlock
  \* A header further back is now one place nearer.
  <1>10. ASSUME NEW i \in 1..Len(wire'), HeaderBefore(i + 1)
         PROVE  \/ HeaderBefore(i)'
                \/ /\ wire[1].k = "hdr" /\ wire[1].part = 1 /\ wire[1].a = wire'[i].a
                   /\ SameBlock(0, i)'
    <2>1. PICK j \in 1..Len(wire) :
            /\ j < i + 1 /\ wire[j].k = "hdr" /\ wire[j].part = 1
            /\ wire[j].a = wire[i + 1].a /\ SameBlock(j, i + 1)
      BY <1>10 DEF HeaderBefore
    <2>2. wire'[i] = wire[i + 1] BY <1>2
    <2>3. CASE j = 1
      BY <1>8, <2>1, <2>2, <2>3
    <2>4. CASE j # 1
      <3>1. j - 1 \in 1..Len(wire') /\ (j - 1) + 1 = j /\ j - 1 < i BY <1>2, <2>1, <2>4
      <3>2. wire'[j - 1] = wire[j] BY <1>2, <3>1
      <3>3. SameBlock(j - 1, i)' BY <1>7, <2>1, <3>1
      <3> QED BY <2>1, <2>2, <3>1, <3>2, <3>3 DEF HeaderBefore
    <2> QED BY <2>3, <2>4
  <1>11. CASE wire[1].k = "hdr" /\ wire[1].part = 1
    <2>1. line.text = <<>>
      <3>1. wire[1] = Piece("hdr", wire[1].a, 1) BY <1>3, <1>11 DEF PieceType, Piece
      <3> QED BY <1>3, <3>1 DEF Feed
    <2>2. wire[1] \notin {Cr, Nl} BY <1>11 DEF Cr, Nl, Piece
    <2>3. line'.text # <<>> /\ line'.text[1].k = "hdr" BY <1>2, <1>11, <2>1, <2>2
    <2>0. PICK d : d = wire[1].a OBVIOUS
    <2>4. ASSUME NEW i \in 1..Len(wire'), wire'[i].k \in GpsField
          PROVE  (wire'[i].a = d /\ SameBlock(0, i)') \/ HeaderBefore(i)'
      <3>1. wire'[i] = wire[i + 1] /\ i + 1 \in 1..Len(wire) /\ 1 < i + 1 BY <1>2
      <3>2. (wire[i + 1].a = c /\ SameBlock(0, i + 1)) \/ HeaderBefore(i + 1)
        BY <1>4, <2>4, <3>1 DEF Block
      <3>3. CASE SameBlock(0, i + 1)
        <4>1. d = wire[i + 1].a BY <2>0, <1>3, <1>11, <3>1, <3>3 DEF SameBlock
        <4> QED BY <1>8, <1>9, <3>1, <3>3, <4>1
      <3>4. CASE HeaderBefore(i + 1)
        BY <1>10, <2>0, <3>4
      <3> QED BY <3>2, <3>3, <3>4
    <2>5. Text("hdr")' BY <2>3 DEF Text
    <2>6. line'.text[1].k \notin GpsField BY <1>6, <2>3
    <2>7. \A i \in 1..Len(wire') : wire'[i].k \in GpsField =>
            (wire'[i].a = d /\ SameBlock(0, i)') \/ HeaderBefore(i)'
      BY <2>4
    <2>8. Block(d)' BY <2>5, <2>6, <2>7 DEF Block
    <2> QED BY <2>8 DEF BlockOfOne
  <1>12. CASE ~(wire[1].k = "hdr" /\ wire[1].part = 1)
    <2>1. ASSUME NEW i \in 1..Len(wire'), wire'[i].k \in GpsField
          PROVE  (wire'[i].a = c /\ SameBlock(0, i)') \/ HeaderBefore(i)'
      <3>1. wire'[i] = wire[i + 1] /\ i + 1 \in 1..Len(wire) BY <1>2
      <3>2. (wire[i + 1].a = c /\ SameBlock(0, i + 1)) \/ HeaderBefore(i + 1)
        BY <1>4, <2>1, <3>1 DEF Block
      <3> QED BY <1>8, <1>9, <1>10, <1>12, <3>1, <3>2
    <2>2. ASSUME line'.text # <<>>, line'.text[1].k \in GpsField PROVE line'.text[1].a = c
      <3>1. CASE line.text # <<>>
        <4>1. line'.text[1] = line.text[1] BY <1>2, <3>1
        <4> QED BY <1>4, <2>2, <3>1, <4>1 DEF Block
      <3>2. CASE line.text = <<>>
        <4>1. line'.text[1] = wire[1] BY <1>2, <2>2, <3>2
        <4>2. ~HeaderBefore(1) BY DEF HeaderBefore
        <4> QED BY <1>3, <1>4, <2>2, <4>1, <4>2 DEF Block
      <3> QED BY <3>1, <3>2
    <2>3. parser'.inBlock => Text("hdr")' \/ GpsOf(c)' BY <1>1, <1>2, <1>4, <1>5 DEF Block
    <2> QED BY <2>1, <2>2, <2>3 DEF Block, BlockOfOne
  <1> QED BY <1>11, <1>12

\* A piece read changes no position.
LEMMA FeedFix == ASSUME LineInv, FixInv, Feed PROVE FixInv'
  <1>1. UNCHANGED <<parser, model, bursts>> /\ ~line.ready BY DEF Feed
  <1>2. /\ Len(wire) \in Nat /\ Len(wire) > 0 /\ Len(wire') = Len(wire) - 1
        /\ line.text # <<>> => line'.text # <<>> /\ line'.text[1] = line.text[1]
        /\ line.text = <<>> /\ line'.text # <<>> =>
             line'.text[1] = wire[1] /\ wire[1] \notin {Cr, Nl}
        /\ line.text = <<>> /\ line'.text = <<>> => wire[1] \in {Cr, Nl}
        /\ wire[1] = Nl => (line.text # <<>> /\ line'.ready) \/ (line'.text = <<>> /\ ~damaged')
        /\ line.text # <<>> => damaged' = damaged
        /\ ~damaged => ~damaged'
    BY FeedMoves
  <1>3. wire \in Seq(PieceType) /\ Orderly(wire) /\ wire # <<>> /\ Head(wire) = wire[1]
        /\ 1 \in 1..Len(wire) /\ wire[1] \in PieceType
    BY <1>2 DEF Feed, LineInv, Orderly
  <1>4. wire' = SubSeq(wire, 2, Len(wire)) BY <1>3 DEF Feed
  <1>5. /\ wire' = <<>> => wire[1] = Nl
        /\ wire' # <<>> => Follows(wire[1], wire'[1])
    BY <1>2, <1>3, <1>4, TailOrderly
  <1>6. headerLost' \in BOOLEAN /\ (headerLost => headerLost')
    BY DEF Feed, FixInv
  <1>7. ~headerLost' => ShownOfOne' /\ BlockOfOne'
    BY <1>1, <1>6, FeedBlock DEF FixInv, ShownOfOne
  <1>8. ASSUME ~headerLost' PROVE HeaderWhole'
    <2>1. HeaderWhole BY <1>6, <1>8 DEF FixInv
    <2>2. Text("hdr")' => ~damaged'
      BY <1>2, <1>3, <2>1 DEF Text, HeaderWhole
    <2>3. ASSUME wire' # <<>>, wire'[1].k = "hdr", line'.text = <<>> PROVE ~damaged'
      <3>1. line.text = <<>> /\ wire[1] \in {Cr, Nl} BY <1>2, <2>3
      <3>2. wire[1] # Cr BY <1>5, <2>3 DEF Follows, Cr, Nl, Piece, Texts
      <3> QED BY <1>2, <2>3, <3>1, <3>2
    <2> QED BY <2>2, <2>3 DEF HeaderWhole
  <1>9. wire' = <<>> /\ line'.text = <<>> => ~damaged' BY <1>2, <1>5
  <1>10. Shapes' BY <1>1 DEF FixInv, Shapes
  <1> QED BY <1>1, <1>2, <1>6, <1>7, <1>8, <1>9, <1>10 DEF FixInv

\* A line handled begins a block, fills one field of it, ends it or breaks it
\* off.
LEMMA HandleFix == ASSUME LineInv, FixInv, HandleReady PROVE FixInv'
  <1> DEFINE t == line.text
  <1>1. UNCHANGED <<wire, bursts, headerLost>> /\ damaged' = FALSE /\ line.ready BY DEF HandleReady
  <1>2. line'.text = <<>>
    BY DEF HandleReady, Consumed, LineInv, LineType
  <1>3. /\ t # <<>> /\ (~damaged => Done) /\ line.truncated \in BOOLEAN
    BY <1>1 DEF LineInv, Stage, LineType
  <1>4. \A i, j : SameBlock(j, i) <=> SameBlock(j, i)' BY <1>1 DEF SameBlock
  <1>5. \A i : HeaderBefore(i) <=> HeaderBefore(i)' BY <1>1, <1>4 DEF HeaderBefore
  <1>6. ASSUME NEW c, Block(c), parser'.inBlock => GpsOf(c)' PROVE BlockOfOne'
    <2>1. Block(c)' BY <1>1, <1>2, <1>4, <1>5, <1>6 DEF Block
    <2> QED BY <2>1 DEF BlockOfOne
  <1>7. ASSUME ~headerLost PROVE Text("hdr") => ~line.truncated /\ Whole(t, "hdr")
    BY <1>3, <1>7 DEF FixInv, HeaderWhole, Done, Text
  <1>8. ASSUME line.truncated PROVE Shapes' /\ (~headerLost => ShownOfOne' /\ BlockOfOne')
    <2>1. UNCHANGED <<parser, model>> BY <1>8 DEF HandleReady
    <2>2. ASSUME ~headerLost PROVE ShownOfOne' /\ BlockOfOne'
      <3>1. PICK c : Block(c) BY <2>2 DEF FixInv, BlockOfOne
      <3>2. ~Text("hdr") BY <1>7, <1>8, <2>2
      <3>3. parser'.inBlock => GpsOf(c)' BY <2>1, <3>1, <3>2 DEF Block, GpsOf
      <3>4. BlockOfOne' BY <1>6, <3>1, <3>3
      <3> QED BY <2>1, <2>2, <3>4 DEF FixInv, ShownOfOne
    <2> QED BY <2>1, <2>2 DEF FixInv, Shapes
  <1>9. ASSUME ~line.truncated PROVE Shapes' /\ (~headerLost => ShownOfOne' /\ BlockOfOne')
    <2> DEFINE filled == GpsFilled(parser, t)
    <2>1. /\ Shapes'
          /\ Whole(t, "hdr") => /\ parser'.inBlock /\ parser'.gps = NoFix
                                /\ model'.fix = model.fix
          /\ ~Whole(t, "hdr") /\ parser.inBlock /\ IsGpsField(t) =>
               IF t[1].k = "dt" THEN ~parser'.inBlock /\ model'.fix = filled
               ELSE parser'.inBlock /\ parser'.gps = filled /\ model'.fix = model.fix
          /\ ~Whole(t, "hdr") /\ ~(parser.inBlock /\ IsGpsField(t)) =>
               ~parser'.inBlock /\ model'.fix = model.fix
      BY <1>9, GpsIs DEF FixInv
    <2> SUFFICES ASSUME ~headerLost PROVE ShownOfOne' /\ BlockOfOne'
      BY <2>1
    <2>2. PICK c : Block(c) BY DEF FixInv, BlockOfOne
    <2>3. ShownOfOne BY DEF FixInv
    <2>4. CASE Whole(t, "hdr")
      <3>1. ShownOfOne' BY <2>1, <2>3, <2>4 DEF ShownOfOne
      <3>2. GpsOf(c)' BY <2>1, <2>4 DEF GpsOf, NoFix, GpsField
      <3> QED BY <1>6, <2>2, <3>1, <3>2
    <2>5. CASE ~Whole(t, "hdr") /\ parser.inBlock /\ IsGpsField(t)
      <3>1. t[1].k \in GpsField BY <2>5 DEF IsGpsField, Starts
      <3>2. t[1].a = c BY <1>3, <2>2, <3>1 DEF Block
      <3>3. ValueOf(t) \in {0, c} BY <3>2 DEF ValueOf
      <3>4. GpsOf(c) BY <1>7, <2>2, <2>5 DEF Block
      <3>5. \A k \in GpsField : filled[k] \in {0, c}
        BY <3>3, <3>4 DEF GpsFilled, GpsOf, FixInv, Shapes, ParserShape
      <3> HIDE DEF filled
      <3>6. CASE t[1].k = "dt"
        <4>1. ShownOfOne' BY <2>1, <2>5, <3>5, <3>6 DEF ShownOfOne
        <4> QED BY <1>6, <2>1, <2>2, <2>5, <3>6, <4>1
      <3>7. CASE t[1].k # "dt"
        <4>1. parser'.gps = filled /\ model'.fix = model.fix BY <2>1, <2>5, <3>7
        <4>2. GpsOf(c)' BY <3>5, <4>1 DEF GpsOf
        <4>3. ShownOfOne' BY <2>3, <4>1 DEF ShownOfOne
        <4> QED BY <1>6, <2>2, <4>2, <4>3
      <3> QED BY <3>6, <3>7
    <2>6. CASE ~Whole(t, "hdr") /\ ~(parser.inBlock /\ IsGpsField(t))
      <3>1. ShownOfOne' BY <2>1, <2>3, <2>6 DEF ShownOfOne
      <3> QED BY <1>6, <2>1, <2>2, <2>6, <3>1
    <2> QED BY <2>4, <2>5, <2>6
  <1>10. HeaderWhole' BY <1>1 DEF HeaderWhole
  <1>11. Shapes' /\ (~headerLost => ShownOfOne' /\ BlockOfOne') BY <1>3, <1>8, <1>9
  <1> QED BY <1>1, <1>10, <1>11 DEF FixInv

\* What the board goes on to say brings a header before its positions.
LEMMA AnswersFix == ASSUME LineInv, FixInv, BoardAnswers \/ BoardStreams PROVE FixInv'
  <1>1. PICK x \in Lines : wire' = wire \o x /\ AllOf(x, board.answers + 1) /\ Headed(x)
    BY BoardSays
  <1>2. UNCHANGED <<line, parser, model, bursts, damaged, headerLost>> BY BoardSays
  <1>3. Orderly(wire) BY DEF LineInv
  <1>4. PICK m \in Nat, n \in Nat : m = Len(wire) /\ n = Len(x) BY <1>3 DEF Orderly, Lines
  <1>5. /\ wire' # <<>> /\ (IF wire = <<>> THEN TRUE ELSE wire'[1] = wire[1])
        /\ Len(wire') = m + n
        /\ \A i \in 1..m : wire'[i] = wire[i]
        /\ \A i \in 1..n : wire'[m + i] = x[i]
        /\ \A i \in 1..(m + n) : i \in 1..m \/ (i > m /\ i - m \in 1..n /\ wire'[i] = x[i - m])
    BY <1>1, <1>3, <1>4, Behind
  <1>6. ASSUME ~headerLost PROVE ShownOfOne' /\ BlockOfOne' /\ HeaderWhole'
    <2>1. PICK c : Block(c) BY <1>6 DEF FixInv, BlockOfOne
    <2>2. ASSUME NEW i \in 1..m, NEW j, j < i, j \in Nat, SameBlock(j, i) PROVE SameBlock(j, i)'
      <3> SUFFICES ASSUME NEW h \in 1..(m + n), j < h, h < i, wire'[h].k = "hdr"
                   PROVE  wire'[h].a = wire'[i].a
        BY <1>5 DEF SameBlock
      <3>1. h \in 1..m BY <1>4
      <3> QED BY <1>4, <1>5, <2>2, <3>1 DEF SameBlock
    <2>3. ASSUME NEW i \in 1..(m + n), wire'[i].k \in GpsField
          PROVE  (wire'[i].a = c /\ SameBlock(0, i)') \/ HeaderBefore(i)'
      <3>1. CASE i \in 1..m
        <4>1. wire'[i] = wire[i] BY <1>5, <3>1
        <4>2. CASE wire[i].a = c /\ SameBlock(0, i)
          BY <2>2, <3>1, <4>1, <4>2
        <4>3. CASE HeaderBefore(i)
          <5>1. PICK j \in 1..m : /\ j < i /\ wire[j].k = "hdr" /\ wire[j].part = 1
                                  /\ wire[j].a = wire[i].a /\ SameBlock(j, i)
            BY <1>4, <4>3 DEF HeaderBefore
          <5>2. j \in 1..(m + n) /\ wire'[j] = wire[j] /\ SameBlock(j, i)' BY <1>5, <2>2, <3>1, <5>1
          <5> QED BY <1>5, <4>1, <5>1, <5>2 DEF HeaderBefore
        <4> QED BY <1>4, <2>1, <2>3, <3>1, <4>1, <4>2, <4>3 DEF Block
      <3>2. CASE i > m /\ i - m \in 1..n /\ wire'[i] = x[i - m]
        <4>1. PICK j \in 1..n : j < i - m /\ x[j].k = "hdr" /\ x[j].part = 1
          BY <1>1, <1>4, <2>3, <3>2 DEF Headed
        <4>2. m + j \in 1..(m + n) /\ m + j < i /\ wire'[m + j] = x[j] BY <1>5, <3>2, <4>1
        <4> DEFINE a == board.answers + 1
        <4>3. \A h \in 1..n : x[h].k \in GpsField \cup {"hdr"} => x[h].a = a
          BY <1>1, <1>4 DEF AllOf, Cr, Nl, Piece, GpsField
        <4>4. wire'[i].a = a /\ wire'[m + j].a = a BY <2>3, <3>2, <4>1, <4>2, <4>3
        <4> HIDE DEF a
        <4>5. SameBlock(m + j, i)'
          <5> SUFFICES ASSUME NEW h \in 1..(m + n), m + j < h, h < i, wire'[h].k = "hdr"
                       PROVE  wire'[h].a = a
            BY <1>5, <4>4 DEF SameBlock
          <5>1. h > m /\ h - m \in 1..n /\ wire'[h] = x[h - m] BY <1>5
          <5> QED BY <4>3, <5>1
        <4> QED BY <1>5, <4>1, <4>2, <4>4, <4>5 DEF HeaderBefore
      <3> QED BY <1>5, <3>1, <3>2
    <2>4. \A d : GpsOf(d) => GpsOf(d)' BY <1>2 DEF GpsOf
    <2>5. Block(c)' BY <1>2, <1>5, <2>1, <2>3, <2>4 DEF Block, Text
    <2>6. HeaderWhole' BY <1>2, <1>5, <1>6 DEF FixInv, HeaderWhole, Text
    <2>7. ShownOfOne' BY <1>2, <1>6 DEF FixInv, ShownOfOne
    <2> QED BY <2>5, <2>6, <2>7 DEF BlockOfOne
  <1>7. Shapes' BY <1>2 DEF FixInv, Shapes
  <1> QED BY <1>2, <1>5, <1>6, <1>7 DEF FixInv

\* A loss that takes no header leaves each to the positions behind it.
LEMMA BurstFix == ASSUME LineInv, FixInv, Burst PROVE FixInv'
  <1>1. PICK n \in 1..Len(wire) :
          /\ wire' = SubSeq(wire, n + 1, Len(wire))
          /\ damaged' = (wire[n] # Nl \/ line.text # <<>>)
          /\ headerLost' = (headerLost \/ Text("hdr") \/ \E i \in 1..n : wire[i].k = "hdr")
    BY DEF Burst
  <1>2. wire \in Seq(PieceType) /\ Orderly(wire) /\ Len(wire) \in Nat BY DEF LineInv, Orderly
  <1>3. \A i \in 1..Len(wire') : wire'[i] = wire[n + i] /\ n + i \in 1..Len(wire)
    BY <1>1, <1>2
  <1>4. UNCHANGED <<line, parser, model>> /\ bursts' = bursts + 1
    BY DEF Burst
  <1>5. /\ wire' = <<>> => wire[n] = Nl
        /\ wire' # <<>> => Follows(wire[n], wire'[1])
    <2>1. n < Len(wire) \/ n = Len(wire) BY <1>2
    <2> QED BY <1>1, <1>2, <2>1, TailOrderly
  <1>6. ASSUME ~headerLost' PROVE ShownOfOne' /\ BlockOfOne' /\ HeaderWhole'
    <2>1. ~headerLost /\ ~Text("hdr") /\ \A i \in 1..n : wire[i].k # "hdr" BY <1>1, <1>6
    <2>2. PICK c : Block(c) BY <2>1 DEF FixInv, BlockOfOne
    <2>3. ASSUME NEW i \in 1..Len(wire'), NEW j \in Nat, SameBlock(j, n + i)
          PROVE  /\ j > n => SameBlock(j - n, i)'
                 /\ j = 0 => SameBlock(0, i)'
      <3>1. ASSUME NEW h \in 1..Len(wire'), j < n + h, h < i, wire'[h].k = "hdr"
            PROVE  wire'[h].a = wire'[i].a
        <4>1. n + h \in 1..Len(wire) /\ n + h < n + i /\ wire'[h] = wire[n + h] BY <1>3, <3>1
        <4> QED BY <1>3, <2>3, <3>1, <4>1 DEF SameBlock
      <3>2. \A h \in 1..Len(wire') : (j > n /\ j - n < h => j < n + h) /\ (j = 0 => j < n + h)
        BY <1>2
      <3> QED BY <3>1, <3>2 DEF SameBlock
    <2>4. ASSUME NEW i \in 1..Len(wire'), wire'[i].k \in GpsField
          PROVE  (wire'[i].a = c /\ SameBlock(0, i)') \/ HeaderBefore(i)'
      <3>1. wire'[i] = wire[n + i] /\ n + i \in 1..Len(wire) BY <1>3
      <3>2. CASE wire[n + i].a = c /\ SameBlock(0, n + i)
        BY <2>3, <3>1, <3>2
      <3>3. CASE HeaderBefore(n + i)
        <4>1. PICK j \in 1..Len(wire) : /\ j < n + i /\ wire[j].k = "hdr" /\ wire[j].part = 1
                                        /\ wire[j].a = wire[n + i].a /\ SameBlock(j, n + i)
          BY <3>3 DEF HeaderBefore
        <4>2. j > n BY <1>2, <2>1, <4>1
        <4>3. j - n \in 1..Len(wire') /\ n + (j - n) = j /\ j - n < i BY <1>1, <1>2, <4>1, <4>2
        <4>4. wire'[j - n] = wire[j] /\ SameBlock(j - n, i)' BY <1>3, <2>3, <4>1, <4>2, <4>3
        <4> QED BY <3>1, <4>1, <4>3, <4>4 DEF HeaderBefore
      <3> QED BY <2>2, <2>4, <3>1, <3>2, <3>3 DEF Block
    <2>5. \A d : GpsOf(d) => GpsOf(d)' BY <1>4 DEF GpsOf
    <2>6. Block(c)' BY <1>4, <2>2, <2>4, <2>5 DEF Block, Text
    <2>7. ASSUME wire' # <<>>, wire'[1].k = "hdr", line.text = <<>> PROVE ~damaged'
      <3>1. n \in 1..n /\ wire[n].k # "hdr" BY <1>2, <2>1
      <3>2. wire[n] = Nl BY <1>5, <2>7, <3>1 DEF Follows, Cr, Nl, Piece, Texts
      <3> QED BY <1>1, <2>7, <3>2
    <2>8. HeaderWhole' BY <1>4, <2>1, <2>7 DEF HeaderWhole, Text
    <2>9. ShownOfOne' BY <1>4, <2>1 DEF FixInv, ShownOfOne
    <2> QED BY <2>6, <2>8, <2>9 DEF BlockOfOne
  <1>7. Shapes' BY <1>4 DEF FixInv, Shapes
  <1>8. wire' = <<>> /\ line'.text = <<>> => ~damaged' BY <1>1, <1>4, <1>5
  <1>9. bursts' \in Nat /\ bursts' # 0 BY <1>4 DEF FixInv
  <1>10. headerLost' \in BOOLEAN BY <1>1 DEF FixInv
  <1> QED BY <1>6, <1>7, <1>8, <1>9, <1>10 DEF FixInv

\* Nothing is shown yet.
LEMMA InitFix == Init => FixInv
  <1> SUFFICES ASSUME Init PROVE FixInv
    OBVIOUS
  <1>1. NoFix = [k \in GpsField |-> NoFix[k]] /\ \A k \in GpsField : NoFix[k] = 0
    BY DEF NoFix, GpsField
  <1>2. Shapes BY <1>1 DEF Init, Shapes, ParserShape, ModelShape, FwShape
  <1>3. wire = <<>> /\ line.text = <<>> /\ Len(wire) = 0 BY DEF Init, EmptyLine
  <1>4. ShownOfOne /\ ~damaged /\ ~parser.inBlock
    BY <1>1 DEF Init, ShownOfOne
  <1>7. headerLost = FALSE /\ bursts = 0 BY DEF Init
  <1>5. Block(0) BY <1>3, <1>4 DEF Block
  <1>6. BlockOfOne /\ HeaderWhole BY <1>3, <1>5 DEF BlockOfOne, HeaderWhole, Text
  <1> QED BY <1>2, <1>3, <1>4, <1>6, <1>7 DEF FixInv

\* Every step keeps position and block of one answer.
LEMMA NextFix == LineInv /\ FixInv /\ [Next]_vars => FixInv'
  <1> SUFFICES ASSUME LineInv, FixInv, [Next]_vars PROVE FixInv'
    OBVIOUS
  <1>1. CASE UNCHANGED <<wire, line, parser, model, board, bursts, damaged, headerLost>>
    <2>1. \A i, j : SameBlock(j, i) <=> SameBlock(j, i)' BY <1>1 DEF SameBlock
    <2>2. \A i : HeaderBefore(i) <=> HeaderBefore(i)' BY <1>1, <2>1 DEF HeaderBefore
    <2>3. \A c : Block(c) => Block(c)'
      BY <1>1, <2>1, <2>2 DEF Block, GpsOf, Text
    <2>4. (ShownOfOne => ShownOfOne') /\ (BlockOfOne => BlockOfOne') /\ (HeaderWhole => HeaderWhole')
      BY <1>1, <2>3 DEF ShownOfOne, BlockOfOne, HeaderWhole, Text
    <2> QED BY <1>1, <2>4 DEF FixInv, Shapes
  <1>2. CASE UNCHANGED vars
    BY <1>1, <1>2 DEF vars, intakeVars
  <1>3. CASE GuiArms \/ GuiDisarms \/ TickPulls \/ TickWrites \/ TickFails
    BY <1>1, <1>3 DEF GuiArms, GuiDisarms, TickPulls, TickWrites, TickFails, intakeVars
  <1> QED BY <1>2, <1>3, AnswersFix, BurstFix, FeedFix, HandleFix DEF Next

\* The position shown is of one block, however much is lost and whatever is
\* asked and answered in the meantime, unless a header line was lost
\* (marauder_feed, gps_fill_field).
THEOREM PositionIsOfOneAnswer == Spec => []FixOfOneAnswer
  <1>1. FixInv => FixOfOneAnswer
    <2> SUFFICES ASSUME FixInv, ~headerLost
                 PROVE  Cardinality({model.fix[k] : k \in GpsField} \ {0}) <= 1
      BY DEF FixOfOneAnswer
    <2> DEFINE S == {model.fix[k] : k \in GpsField} \ {0}
    <2>1. PICK c : \A k \in GpsField : model.fix[k] \in {0, c} BY DEF FixInv, ShownOfOne
    <2>2. S \subseteq {c} BY <2>1
    <2> HIDE DEF S
    <2>3. IsFiniteSet({c}) /\ Cardinality({c}) = 1 BY FS_Singleton
    <2>4. Cardinality(S) <= Cardinality({c}) BY <2>2, <2>3, FS_Subset
    <2> QED BY <2>3, <2>4 DEF S
  <1> QED BY <1>1, InitLines, NextLines, InitFix, NextFix, PTL DEF Spec

-----------------------------------------------------------------------------
(* Who the peer is, while nothing is lost.                                 *)

\* What a whole line is taken for.
LEMMA WholeIs ==
  ASSUME NEW k \in Texts \ {"long"}, NEW t, t \in Seq(PieceType), Whole(t, k)
  PROVE  /\ t[1].k = k /\ t[1].part = 1 /\ t[Len(t)].k = k /\ t[Len(t)].part = 2
         /\ 1 \in DOMAIN t
         /\ \A x : (Starts(t, x) <=> x = k) /\ (Whole(t, x) <=> x = k) /\ (Ends(t, x) => x = k)
  <1> DEFINE a == t[1].a
  <1>0. t # <<>> /\ t = Pieces(k, a) /\ a \in Nat
    <2>1. t = Pieces(k, a) BY DEF Whole
    <2>2. Len(Pieces(k, a)) = 2 BY DEF Pieces
    <2>3. Len(t) = 2 BY <2>1, <2>2
    <2>4. t[1] \in PieceType BY <2>3
    <2>5. t[1].a \in Nat BY <2>4 DEF PieceType
    <2>6. t # <<>> BY <2>3
    <2> QED BY <2>1, <2>5, <2>6
  <1> HIDE DEF a
  <1>1. /\ Len(t) = 2 /\ t[1] = Piece(k, a, 1) /\ t[2] = Piece(k, a, 2)
    BY <1>0, PiecesAre DEF Count
  <1>2. t[1].k = k /\ t[1].part = 1 /\ t[Len(t)].k = k /\ t[Len(t)].part = 2
    BY <1>1 DEF Piece
  <1>3. 1 \in DOMAIN t BY <1>1
  <1>4. \A x : Starts(t, x) <=> x = k BY <1>2 DEF Starts
  <1>5. \A x : Whole(t, x) <=> x = k BY <1>4 DEF Whole
  <1>6. \A x : Ends(t, x) => x = k BY <1>2 DEF Ends
  <1> QED BY <1>2, <1>3, <1>4, <1>5, <1>6

\* What a whole line makes of the peer's identity.
LEMMA FwIs ==
  ASSUME Shapes, HandleReady, ~line.truncated, NEW t, t = line.text,
         NEW k \in Texts \ {"long"}, t \in Seq(PieceType), Whole(t, k)
  PROVE  /\ parser'.fw.ver = IF k = "ver" THEN ValueOf(t) ELSE parser.fw.ver
         /\ parser'.fw.diag = IF k = "fw" THEN 0
                              ELSE IF k = "diag" THEN t[1].a ELSE parser.fw.diag
         /\ parser'.fw.cap = SigroamCap(parser.fw.cap, t)
         /\ model'.fw = model.fw \/ model'.fw = parser'.fw
  <1> DEFINE o == Parsed(t)
             q == Latched(t)
             c == SigroamCap(parser.fw.cap, t)
  <1>1. parser' = o.parser /\ model' = ApplyEvent(model, o.ev)
    BY Zenon DEF HandleReady
  <1>2. /\ ParserShape(q) /\ q.inBlock = parser.inBlock
        /\ q.fw.ver = parser.fw.ver /\ q.fw.diag = parser.fw.diag /\ q.fw.cap = c
    BY LatchedIs
  <1>3. /\ o.ev.kind = "fw" => model'.fw = o.ev.value
        /\ o.ev.kind # "fw" => model'.fw = model.fw
    BY <1>1, ApplyIs
  <1>4. o = IF Whole(t, "hdr") THEN Outcome(GpsHeader(q), "more", 0)
            ELSE IF q.inBlock /\ IsGpsField(t) THEN GpsFill(q, t)
            ELSE Dispatch([q EXCEPT !.inBlock = FALSE], t)
    BY Zenon DEF Parsed, Latched
  <1>5. \A kd, v, r : Outcome(r, kd, v).parser = r /\ Outcome(r, kd, v).ev.kind = kd
                      /\ Outcome(r, kd, v).ev.value = v
    BY DEF Outcome
  <1>6. /\ t[1].k = k /\ t[Len(t)].k = k
        /\ \A x : (Starts(t, x) <=> x = k) /\ (Whole(t, x) <=> x = k)
    BY WholeIs
  <1> HIDE DEF o, q, c
  <1>7. CASE k = "hdr"
    <2>1. parser' = GpsHeader(q) /\ o.ev.kind = "more" BY <1>1, <1>4, <1>5, <1>6, <1>7
    <2>2. parser'.fw = q.fw BY <1>2, <2>1 DEF GpsHeader, ParserShape
    <2> QED BY <1>2, <1>3, <1>7, <2>1, <2>2 DEF c
  <1>8. CASE k # "hdr" /\ q.inBlock /\ IsGpsField(t)
    <2>1. k \in GpsField BY <1>6, <1>8 DEF IsGpsField
    <2>2. o = GpsFill(q, t) BY <1>4, <1>6, <1>8
    <2> DEFINE g == GpsFilled(q, t)
    <2>3. \/ o = Outcome([q EXCEPT !.gps = g, !.inBlock = FALSE], "gps", g)
          \/ o = Outcome([q EXCEPT !.gps = g], "more", 0)
      BY <2>2 DEF GpsFill
    <2> HIDE DEF g
    <2>4. /\ parser' = [q EXCEPT !.gps = g, !.inBlock = FALSE] \/ parser' = [q EXCEPT !.gps = g]
          /\ o.ev.kind # "fw"
      BY <1>1, <1>5, <2>3
    <2>5. parser'.fw = q.fw BY <1>2, <2>4 DEF ParserShape
    <2> QED BY <1>2, <1>3, <2>1, <2>4, <2>5 DEF c, GpsField
  <1>9. CASE k # "hdr" /\ ~(q.inBlock /\ IsGpsField(t))
    <2> DEFINE r == [q EXCEPT !.inBlock = FALSE]
    <2>1. o = Dispatch(r, t) BY <1>4, <1>6, <1>9
    <2>2. ParserShape(r) /\ r.fw = q.fw
      <3>1. r.fw = q.fw BY <1>2 DEF ParserShape
      <3> QED BY <1>2, <3>1, OutOfBlock
    <2> HIDE DEF r
    <2>3. IsProbed(t) <=> k \in {"fw", "ver", "diag"} BY <1>6 DEF IsProbed, IsDiag
    <2>4. CASE k \notin {"fw", "ver", "diag"}
      <3>1. parser' = r BY <1>1, <2>1, <2>3, <2>4, DispatchIs
      <3>2. o.ev.kind # "fw"
        <4>1. CsvKind(t) \in {"row", "ble", "unknown"} BY DEF CsvKind
        <4>2. IsStatus(t) => t[1].k \in Status BY <1>6 DEF IsStatus
        <4> QED BY <1>5, <2>1, <2>3, <2>4, <4>1, <4>2 DEF Dispatch, Status
      <3> QED BY <1>2, <1>3, <2>2, <2>4, <3>1, <3>2 DEF c
    <2>5. CASE k \in {"fw", "ver", "diag"}
      <3> DEFINE f == Probed(r.fw, t)
                 s == [r EXCEPT !.fw = f]
      <3>1. ~IsCsv(t) /\ ~Whole(t, "started") /\ ~Whole(t, "wifiStop") /\ ~IsStatus(t) /\ IsProbed(t)
        BY <1>6, <2>3, <2>5 DEF IsCsv, IsStatus, Status
      <3>2. o = Outcome(s, "fw", f) BY <2>1, <3>1 DEF Dispatch
      <3>3. /\ FwShape(f)
            /\ f.ver = IF k = "ver" THEN ValueOf(t) ELSE r.fw.ver
            /\ f.diag = IF k = "fw" THEN 0 ELSE IF k = "diag" THEN t[1].a ELSE r.fw.diag
            /\ f.cap = r.fw.cap
        <4>1. f = CASE k = "fw" -> [r.fw EXCEPT !.fw = ValueOf(t), !.diag = 0]
                    [] k = "ver" -> [r.fw EXCEPT !.ver = ValueOf(t)]
                    [] k = "diag" -> [r.fw EXCEPT !.diag = t[1].a]
          BY <1>6, <2>5 DEF Probed, IsDiag
        <4> HIDE DEF f
        <4>2. CASE k = "fw"
          BY <2>2, <4>1, <4>2 DEF FwShape, ParserShape
        <4>3. CASE k = "ver"
          BY <2>2, <4>1, <4>3 DEF FwShape, ParserShape
        <4>4. CASE k = "diag"
          BY <2>2, <4>1, <4>4 DEF FwShape, ParserShape
        <4> QED BY <2>5, <4>2, <4>3, <4>4
      <3> HIDE DEF f
      <3>4. s.fw = f BY <2>2, <3>3, Renamed
      <3> HIDE DEF s
      <3>5. parser' = s /\ model'.fw = f BY <1>1, <1>3, <1>5, <3>2
      <3> QED BY <1>2, <2>2, <3>3, <3>4, <3>5 DEF c
    <2> QED BY <2>4, <2>5
  <1> QED BY <1>7, <1>8, <1>9

\* The latch of a whole line.
LEMMA CapIs ==
  ASSUME NEW k \in Texts \ {"long"}, NEW t, t \in Seq(PieceType), Whole(t, k), NEW cap
  PROVE  LET new == SigroamCap(cap, t)
         IN  /\ new = "yes" => cap = "yes" \/ (cap = "armed" /\ k \in {"diag", "sess"})
             /\ new = "armed" => k = "echoSigroam" \/ (cap = "armed" /\ k \notin Echo)
  <1>1. /\ t[1].k = k /\ t[1].part = 1 /\ 1 \in DOMAIN t
        /\ \A x : (Starts(t, x) <=> x = k) /\ (Ends(t, x) => x = k)
    BY WholeIs
  <1>2. k \in Echo => HasHash(t) BY <1>1 DEF HasHash
  <1>3. "diag" \notin Echo /\ "sess" \notin Echo BY DEF Echo
  <1> QED BY <1>1, <1>2, <1>3 DEF SigroamCap

\* No line s begins between the two on the wire.
NoneOf(s, j, i) == \A h \in 1..Len(wire) : j < h /\ h < i => wire[h].k # s

\* A piece of a line in T comes only when the state is clean: a line r that
\* cleans it is on the wire before, or under way, or it is clean, and no line
\* s that spoils it comes in between.
Clear(r, s, T, clean) ==
  /\ \A i \in 1..Len(wire) : wire[i].k \in T =>
       \/ \E j \in 1..Len(wire) : j < i /\ wire[j].k = r /\ NoneOf(s, j, i)
       \/ NoneOf(s, 0, i) /\ (Text(r) \/ (~Text(s) /\ clean))
  /\ \A k \in T : Text(k) => clean

\* A piece read moves the line that cleans with it.
LEMMA FeedClear ==
  ASSUME LineInv, Feed, ~damaged, NEW r, NEW s, NEW T, NEW clean \in BOOLEAN,
         {r, s} \cup T \subseteq Texts, r # s, r \notin T, s \notin T, Clear(r, s, T, clean)
  PROVE  Clear(r, s, T, clean)'
  <1>1. /\ Len(wire) \in Nat /\ Len(wire) > 0 /\ Len(wire') = Len(wire) - 1
        /\ \A i \in 1..Len(wire') : wire'[i] = wire[i + 1] /\ i + 1 \in 1..Len(wire)
        /\ \A k : Text(k) => Text(k)'
        /\ line.text # <<>> => line'.text # <<>> /\ line'.text[1] = line.text[1]
        /\ line.text = <<>> /\ line'.text # <<>> =>
             line'.text[1] = wire[1] /\ wire[1] \notin {Cr, Nl}
        /\ line.text = <<>> /\ line'.text = <<>> => wire[1] \in {Cr, Nl}
        /\ ~damaged /\ line.text # <<>> /\ wire[1] \notin {Cr, Nl} =>
             wire[1].k = line.text[1].k
    BY FeedMoves
  <1>2. /\ \A i \in 1..Len(wire) : wire[i].k \in T =>
             \/ \E j \in 1..Len(wire) : j < i /\ wire[j].k = r /\ NoneOf(s, j, i)
             \/ NoneOf(s, 0, i) /\ (Text(r) \/ (~Text(s) /\ clean))
        /\ \A k \in T : Text(k) => clean
    BY Zenon DEF Clear
  <1>3. 1 \in 1..Len(wire) BY <1>1
  <1>4. ASSUME NEW k \in Texts, wire[1].k = k PROVE Text(k)'
    <2>1. wire[1] \notin {Cr, Nl} BY <1>4 DEF Cr, Nl, Piece, Texts
    <2> QED BY <1>1, <1>4, <2>1 DEF Text
  <1>5. ASSUME NEW k, Text(k)', ~Text(k) PROVE wire[1].k = k
    BY <1>1, <1>5 DEF Text
  <1>6. \A k, l : Text(k) /\ Text(l) => k = l BY DEF Text
  <1>7. \A k, l : Text(k)' /\ Text(l)' => k = l BY DEF Text
  <1>11. ASSUME NEW i \in 1..Len(wire'), NEW j \in Nat, NoneOf(s, j, i + 1)
         PROVE  /\ j > 0 => NoneOf(s, j - 1, i)'
                /\ j = 0 => NoneOf(s, 0, i)'
    <2>1. ASSUME NEW h \in 1..Len(wire'), j < h + 1, h < i PROVE wire'[h].k # s
      <3>1. wire'[h] = wire[h + 1] /\ h + 1 \in 1..Len(wire) /\ h + 1 < i + 1 BY <1>1, <2>1
      <3> QED BY <1>11, <2>1, <3>1 DEF NoneOf
    <2>2. \A h \in 1..Len(wire') : (j > 0 /\ j - 1 < h => j < h + 1) /\ (j = 0 => j < h + 1)
      BY <1>1
    <2> QED BY <2>1, <2>2 DEF NoneOf
  <1>8. ASSUME NEW i \in 1..Len(wire'), wire'[i].k \in T
        PROVE  \/ \E j \in 1..Len(wire') : j < i /\ wire'[j].k = r /\ NoneOf(s, j, i)'
               \/ NoneOf(s, 0, i)' /\ (Text(r)' \/ (~Text(s)' /\ clean))
    <2>1. wire'[i] = wire[i + 1] /\ i + 1 \in 1..Len(wire) /\ 1 < i + 1 BY <1>1
    <2>2. CASE \E j \in 1..Len(wire) : j < i + 1 /\ wire[j].k = r /\ NoneOf(s, j, i + 1)
      <3>1. PICK j \in 1..Len(wire) : j < i + 1 /\ wire[j].k = r /\ NoneOf(s, j, i + 1) BY <2>2
      <3>2. CASE j = 1
        <4>1. Text(r)' BY <1>4, <3>1, <3>2
        <4>2. NoneOf(s, 0, i)' BY <1>11, <3>1, <3>2
        <4> QED BY <4>1, <4>2
      <3>3. CASE j # 1
        <4>1. j - 1 \in 1..Len(wire') /\ (j - 1) + 1 = j /\ j - 1 < i BY <1>1, <3>1, <3>3
        <4>2. wire'[j - 1] = wire[j] /\ NoneOf(s, j - 1, i)' BY <1>1, <1>11, <3>1, <4>1
        <4> QED BY <3>1, <4>1, <4>2
      <3> QED BY <3>2, <3>3
    <2>3. CASE NoneOf(s, 0, i + 1) /\ (Text(r) \/ (~Text(s) /\ clean))
      <3>1. NoneOf(s, 0, i)' BY <1>11, <2>3
      <3>2. wire[1].k # s BY <1>3, <2>1, <2>3 DEF NoneOf
      <3>3. Text(s)' => Text(s) BY <1>5, <3>2
      <3> QED BY <1>1, <2>3, <3>1, <3>3
    <2> QED BY <1>2, <1>8, <2>1, <2>2, <2>3
  <1>10. ASSUME NEW k \in T, Text(k)' PROVE clean
    <2>1. CASE Text(k)
      BY <1>2, <2>1
    <2>2. CASE ~Text(k)
      <3>1. wire[1].k = k BY <1>5, <1>10, <2>2
      <3>2. ~\E j \in 1..Len(wire) : j < 1 OBVIOUS
      <3>3. Text(r) => FALSE
        <4>1. Text(r) => Text(r)' BY <1>1
        <4> QED BY <1>7, <1>10, <4>1
      <3> QED BY <1>2, <1>3, <3>1, <3>2, <3>3
    <2> QED BY <2>1, <2>2
  <1> QED BY <1>8, <1>10, Zenon DEF Clear

\* The line under way is handled.
LEMMA HandleClear ==
  ASSUME NEW r, NEW s, NEW T, NEW clean \in BOOLEAN, Clear(r, s, T, clean),
         wire' = wire, line'.text = <<>>, NEW new \in BOOLEAN,
         Text(r) => new, ~Text(s) /\ clean => new
  PROVE  Clear(r, s, T, new)'
  <1>1. \A j, i : NoneOf(s, j, i) => NoneOf(s, j, i)' BY DEF NoneOf
  <1> QED BY <1>1 DEF Clear, Text

\* A new answer goes behind what is on the wire.
LEMMA AnswersClear ==
  ASSUME NEW r, NEW s, NEW T, NEW clean \in BOOLEAN, Clear(r, s, T, clean), line' = line,
         Orderly(wire), NEW x \in Lines, wire' = wire \o x,
         \A i \in 1..Len(x) : x[i].k \in T => \E j \in 1..Len(x) : j < i /\ x[j].k = r,
         \A i, j \in 1..Len(x) : x[i].k = s /\ x[j].k \in T => j < i
  PROVE  Clear(r, s, T, clean)'
  <1>1. PICK m \in Nat, n \in Nat : m = Len(wire) /\ n = Len(x) BY DEF Orderly, Lines
  <1>2. /\ Len(wire') = m + n
        /\ \A i \in 1..m : wire'[i] = wire[i]
        /\ \A i \in 1..n : wire'[m + i] = x[i]
        /\ \A i \in 1..(m + n) : i \in 1..m \/ (i > m /\ i - m \in 1..n /\ wire'[i] = x[i - m])
    BY <1>1, Behind
  <1>3. ASSUME NEW i \in 1..m, NEW j \in Nat, NoneOf(s, j, i) PROVE NoneOf(s, j, i)'
    <2> SUFFICES ASSUME NEW h \in 1..(m + n), j < h, h < i PROVE wire'[h].k # s
      BY <1>2 DEF NoneOf
    <2>1. h \in 1..m /\ wire'[h] = wire[h] BY <1>2
    <2> QED BY <1>1, <1>3, <2>1 DEF NoneOf
  <1>4. ASSUME NEW i \in 1..(m + n), wire'[i].k \in T
        PROVE  \/ \E j \in 1..(m + n) : j < i /\ wire'[j].k = r /\ NoneOf(s, j, i)'
               \/ NoneOf(s, 0, i)' /\ (Text(r) \/ (~Text(s) /\ clean))
    <2>1. CASE i \in 1..m
      <3>1. wire'[i] = wire[i] BY <1>2, <2>1
      <3>2. CASE \E j \in 1..m : j < i /\ wire[j].k = r /\ NoneOf(s, j, i)
        <4>1. PICK j \in 1..m : j < i /\ wire[j].k = r /\ NoneOf(s, j, i) BY <3>2
        <4>2. j \in 1..(m + n) /\ wire'[j] = wire[j] /\ NoneOf(s, j, i)' BY <1>2, <1>3, <2>1, <4>1
        <4> QED BY <4>1, <4>2
      <3>3. CASE NoneOf(s, 0, i) /\ (Text(r) \/ (~Text(s) /\ clean))
        BY <1>3, <2>1, <3>3
      <3> QED BY <1>1, <1>4, <2>1, <3>1, <3>2, <3>3 DEF Clear
    <2>2. CASE i > m /\ i - m \in 1..n /\ wire'[i] = x[i - m]
      <3>1. PICK j \in 1..n : j < i - m /\ x[j].k = r BY <1>1, <1>4, <2>2
      <3>2. m + j \in 1..(m + n) /\ m + j < i /\ wire'[m + j] = x[j] BY <1>2, <2>2, <3>1
      <3>3. NoneOf(s, m + j, i)'
        <4> SUFFICES ASSUME NEW h \in 1..(m + n), m + j < h, h < i, wire'[h].k = s PROVE FALSE
          BY <1>2 DEF NoneOf
        <4>1. h > m /\ h - m \in 1..n /\ wire'[h] = x[h - m] BY <1>2
        <4>2. i - m < h - m BY <1>1, <1>4, <2>2, <4>1
        <4> QED BY <2>2, <4>1, <4>2
      <3> QED BY <3>1, <3>2, <3>3
    <2> QED BY <1>2, <2>1, <2>2
  <1>5. \A k : Text(k) <=> Text(k)' BY DEF Text
  <1>6. \A k \in T : Text(k) => clean BY DEF Clear
  <1> QED BY <1>2, <1>4, <1>5, <1>6 DEF Clear

Sound(f) ==
  /\ f.diag # 0 => f.diag >= f.ver
  /\ f.cap = "yes" => board.kind = "lite"

IsText(p) == p \notin {Cr, Nl}

\* What is to come is of no older an answer than what has come.
Aged ==
  /\ \A i \in 1..Len(wire) : IsText(wire[i]) =>
       parser.fw.ver <= wire[i].a /\ wire[i].a <= board.answers
  /\ \A i, j \in 1..Len(wire) : i < j /\ IsText(wire[i]) /\ IsText(wire[j]) => wire[i].a <= wire[j].a
  /\ line.text # <<>> => /\ parser.fw.ver <= line.text[1].a /\ line.text[1].a <= board.answers
                         /\ \A i \in 1..Len(wire) : IsText(wire[i]) => line.text[1].a <= wire[i].a

IdInv ==
  bursts = 0 =>
    /\ parser.fw.ver \in Nat /\ parser.fw.diag \in Nat /\ parser.fw.ver <= board.answers
    /\ Aged /\ Sound(parser.fw) /\ Sound(model.fw)
    /\ Clear("fw", "diag", {"ver"}, parser.fw.diag = 0)
    /\ board.kind # "lite" =>
         Clear("echoInfo", "echoSigroam", {"diag", "sess"}, parser.fw.cap # "armed")

\* A piece read says nothing yet.
LEMMA FeedId == ASSUME LineInv, FixInv, IdInv, Feed PROVE IdInv'
  <1>1. UNCHANGED <<parser, model, bursts, board>> /\ wire # <<>> /\ ~line.ready BY DEF Feed
  <1> SUFFICES ASSUME bursts = 0
               PROVE  /\ Aged'
                      /\ Clear("fw", "diag", {"ver"}, parser.fw.diag = 0)'
                      /\ board.kind # "lite" =>
                           Clear("echoInfo", "echoSigroam", {"diag", "sess"}, parser.fw.cap # "armed")'
    BY <1>1 DEF IdInv, Sound
  <1>2. ~damaged BY DEF FixInv
  <1>3. {"fw", "diag", "ver", "echoInfo", "echoSigroam", "sess"} \subseteq Texts
    BY DEF Texts, LineKind, GpsField, Echo, Status
  <1>4. Clear("fw", "diag", {"ver"}, parser.fw.diag = 0)'
    <2>1. PICK clean \in BOOLEAN : clean = (parser.fw.diag = 0) OBVIOUS
    <2>2. Clear("fw", "diag", {"ver"}, clean) BY <2>1 DEF IdInv, Clear
    <2>3. Clear("fw", "diag", {"ver"}, clean)' BY <1>2, <1>3, <2>2, FeedClear
    <2> QED BY <1>1, <2>1, <2>3 DEF Clear
  <1>5. ASSUME board.kind # "lite"
        PROVE  Clear("echoInfo", "echoSigroam", {"diag", "sess"}, parser.fw.cap # "armed")'
    <2>1. PICK clean \in BOOLEAN : clean = (parser.fw.cap # "armed") OBVIOUS
    <2>2. Clear("echoInfo", "echoSigroam", {"diag", "sess"}, clean) BY <1>5, <2>1 DEF IdInv, Clear
    <2>3. Clear("echoInfo", "echoSigroam", {"diag", "sess"}, clean)' BY <1>2, <1>3, <2>2, FeedClear
    <2> QED BY <1>1, <2>1, <2>3 DEF Clear
  <1>6. Aged'
    <2>1. /\ Len(wire) \in Nat /\ Len(wire) > 0 /\ Len(wire') = Len(wire) - 1
          /\ \A i \in 1..Len(wire') : wire'[i] = wire[i + 1] /\ i + 1 \in 1..Len(wire)
          /\ line.text # <<>> => line'.text # <<>> /\ line'.text[1] = line.text[1]
          /\ line.text = <<>> /\ line'.text # <<>> =>
               line'.text[1] = wire[1] /\ wire[1] \notin {Cr, Nl}
      BY FeedMoves
    <2>2. Aged BY DEF IdInv
    <2>3. \A i \in 1..Len(wire') : IsText(wire'[i]) =>
            parser.fw.ver <= wire'[i].a /\ wire'[i].a <= board.answers
      BY <2>1, <2>2 DEF Aged
    <2>4. ASSUME NEW i \in 1..Len(wire'), NEW j \in 1..Len(wire'), i < j,
                 IsText(wire'[i]), IsText(wire'[j])
          PROVE  wire'[i].a <= wire'[j].a
      <3>1. i + 1 < j + 1 /\ i + 1 \in 1..Len(wire) /\ j + 1 \in 1..Len(wire)
            /\ wire'[i] = wire[i + 1] /\ wire'[j] = wire[j + 1]
        BY <2>1, <2>4
      <3> QED BY <2>2, <2>4, <3>1 DEF Aged
    <2>5. ASSUME line'.text # <<>>
          PROVE  /\ parser.fw.ver <= line'.text[1].a /\ line'.text[1].a <= board.answers
                 /\ \A i \in 1..Len(wire') : IsText(wire'[i]) => line'.text[1].a <= wire'[i].a
      <3>1. CASE line.text # <<>>
        BY <2>1, <2>2, <3>1 DEF Aged
      <3>2. CASE line.text = <<>>
        <4>1. line'.text[1] = wire[1] /\ IsText(wire[1]) /\ 1 \in 1..Len(wire)
          BY <2>1, <2>5, <3>2 DEF IsText
        <4>2. \A i \in 1..Len(wire') : 1 < i + 1 BY <2>1
        <4> QED BY <2>1, <2>2, <4>1, <4>2 DEF Aged
      <3> QED BY <3>1, <3>2
    <2> QED BY <1>1, <2>3, <2>4, <2>5 DEF Aged
  <1> QED BY <1>4, <1>5, <1>6

\* A new answer is younger than all that is known.
LEMMA AnswersId ==
  ASSUME LineInv, FixInv, IdInv, BoardAnswers \/ BoardStreams
  PROVE  IdInv'
  <1>1. PICK x \in Lines : /\ wire' = wire \o x /\ AllOf(x, board.answers + 1)
                           /\ NamedBy(board.kind, x)
    BY BoardSays
  <1>2. board.answers \in Nat BY DEF LineInv, Around, BoardType
  <1>3. Orderly(wire) /\ wire \in Seq(PieceType) /\ x \in Seq(PieceType) BY DEF LineInv, Orderly, Lines
  <1>4. UNCHANGED <<line, parser, model, bursts, damaged>> BY BoardSays
  <1>5. board'.kind = board.kind /\ board'.answers = board.answers + 1 BY BoardSays
  <1> SUFFICES ASSUME bursts = 0 PROVE IdInv'
    BY <1>4 DEF IdInv
  <1>6. Clear("fw", "diag", {"ver"}, parser.fw.diag = 0)'
    <2>1. PICK clean \in BOOLEAN : clean = (parser.fw.diag = 0) OBVIOUS
    <2>2. Clear("fw", "diag", {"ver"}, clean) BY <2>1 DEF IdInv, Clear
    <2>3. Clear("fw", "diag", {"ver"}, clean)'
      BY <1>1, <1>3, <1>4, <2>2, AnswersClear DEF NamedBy
    <2> QED BY <1>4, <2>1, <2>3 DEF Clear
  <1>7. ASSUME board.kind # "lite"
        PROVE  Clear("echoInfo", "echoSigroam", {"diag", "sess"}, parser.fw.cap # "armed")'
    <2>1. PICK clean \in BOOLEAN : clean = (parser.fw.cap # "armed") OBVIOUS
    <2>2. Clear("echoInfo", "echoSigroam", {"diag", "sess"}, clean) BY <1>7, <2>1 DEF IdInv, Clear
    <2>3. Clear("echoInfo", "echoSigroam", {"diag", "sess"}, clean)'
      BY <1>1, <1>3, <1>4, <1>7, <2>2, AnswersClear DEF NamedBy
    <2> QED BY <1>4, <2>1, <2>3 DEF Clear
  <1>8. /\ parser'.fw.ver \in Nat /\ parser'.fw.diag \in Nat /\ parser'.fw.ver <= board'.answers
        /\ Sound(parser.fw)' /\ Sound(model.fw)'
    BY <1>2, <1>4, <1>5 DEF IdInv, Sound
  <1>9. Aged'
    <2>1. PICK m \in Nat, n \in Nat : m = Len(wire) /\ n = Len(x) BY <1>3
    <2>2. /\ Len(wire') = m + n
          /\ \A i \in 1..m : wire'[i] = wire[i]
          /\ \A i \in 1..(m + n) : i \in 1..m \/ (i > m /\ i - m \in 1..n /\ wire'[i] = x[i - m])
      BY <1>1, <1>3, <2>1, Behind
    <2>3. Aged /\ parser.fw.ver \in Nat /\ parser.fw.ver <= board.answers BY DEF IdInv
    <2> DEFINE a == board.answers + 1
    <2>4. \A i \in 1..n : IsText(x[i]) => x[i].a = a BY <1>1, <2>1 DEF AllOf, IsText
    <2>5. \A i \in 1..m : wire[i].a \in Nat
      <3>1. \A i \in 1..m : wire[i] \in PieceType BY <1>3, <2>1
      <3> QED BY <3>1 DEF PieceType
    <2>6. ASSUME NEW i \in 1..(m + n), IsText(wire'[i])
          PROVE  /\ parser.fw.ver <= wire'[i].a /\ wire'[i].a <= a
                 /\ i > m => wire'[i].a = a
                 /\ i \in 1..m => wire'[i].a <= board.answers
      <3>1. CASE i \in 1..m
        BY <1>2, <2>1, <2>2, <2>3, <2>5, <2>6, <3>1 DEF Aged
      <3>2. CASE i > m /\ i - m \in 1..n /\ wire'[i] = x[i - m]
        BY <1>2, <2>3, <2>4, <2>6, <3>2
      <3> QED BY <2>2, <3>1, <3>2
    <2>7. ASSUME NEW i \in 1..(m + n), NEW j \in 1..(m + n), i < j,
                 IsText(wire'[i]), IsText(wire'[j])
          PROVE  wire'[i].a <= wire'[j].a
      <3>1. CASE j \in 1..m
        <4>1. i \in 1..m BY <2>7, <3>1
        <4> QED BY <2>1, <2>2, <2>3, <2>7, <3>1, <4>1 DEF Aged
      <3>2. CASE j > m
        <4>1. wire'[j].a = a /\ wire'[i].a <= a BY <2>6, <2>7, <3>2
        <4> QED BY <4>1
      <3> QED BY <3>1, <3>2
    <2>8. ASSUME line.text # <<>>
          PROVE  /\ parser.fw.ver <= line.text[1].a /\ line.text[1].a <= a
                 /\ \A i \in 1..(m + n) : IsText(wire'[i]) => line.text[1].a <= wire'[i].a
      <3>1. line.text[1] \in PieceType BY <2>8 DEF LineInv, LineType
      <3>2. line.text[1].a \in Nat BY <3>1 DEF PieceType
      <3>3. line.text[1].a <= board.answers /\ parser.fw.ver <= line.text[1].a
        BY <2>3, <2>8 DEF Aged
      <3>4. ASSUME NEW i \in 1..(m + n), IsText(wire'[i]) PROVE line.text[1].a <= wire'[i].a
        <4>1. CASE i \in 1..m
          BY <2>1, <2>2, <2>3, <2>8, <3>4, <4>1 DEF Aged
        <4>2. CASE i > m
          <5>1. wire'[i].a = a BY <2>6, <3>4, <4>2
          <5> QED BY <1>2, <3>2, <3>3, <5>1
        <4> QED BY <2>2, <4>1, <4>2
      <3> QED BY <1>2, <3>2, <3>3, <3>4
    <2> QED BY <1>4, <1>5, <2>2, <2>6, <2>7, <2>8 DEF Aged
  <1> QED BY <1>4, <1>5, <1>6, <1>7, <1>8, <1>9 DEF IdInv

\* A line handled is younger than the version known, and a Diag: comes to a
\* block its Firmware: has cleared.
LEMMA HandleId == ASSUME LineInv, FixInv, IdInv, HandleReady PROVE IdInv'
  <1> DEFINE t == line.text
  <1>1. UNCHANGED <<wire, board, bursts>> /\ line.ready BY DEF HandleReady
  <1>2. line'.text = <<>>
    BY DEF HandleReady, Consumed, LineInv, LineType
  <1> SUFFICES ASSUME bursts = 0 PROVE IdInv'
    BY <1>1 DEF IdInv
  <1>3. /\ t # <<>> /\ Done /\ line.truncated \in BOOLEAN /\ t \in Seq(PieceType)
    BY <1>1 DEF LineInv, Stage, LineType, FixInv
  <1>4. board.answers \in Nat /\ board.kind \in {"sigroam", "lite", "stock"}
    BY DEF LineInv, Around, BoardType
  <1> DEFINE k == t[1].k
  <1>5. \A x : Text(x) <=> x = k BY <1>3 DEF Text
  <1>6. CASE line.truncated
    <2>1. UNCHANGED <<parser, model>> BY <1>6 DEF HandleReady
    <2>2. k = "long" BY <1>3, <1>6 DEF Done
    <2>3. Clear("fw", "diag", {"ver"}, parser.fw.diag = 0)'
      <3>1. PICK clean \in BOOLEAN : clean = (parser.fw.diag = 0) OBVIOUS
      <3>2. Clear("fw", "diag", {"ver"}, clean) BY <3>1 DEF IdInv, Clear
      <3>3. ~Text("fw") BY <1>5, <2>2
      <3>4. Clear("fw", "diag", {"ver"}, clean)'
        BY <1>1, <1>2, <3>2, <3>3, HandleClear
      <3> QED BY <2>1, <3>1, <3>4 DEF Clear
    <2>4. ASSUME board.kind # "lite"
          PROVE  Clear("echoInfo", "echoSigroam", {"diag", "sess"}, parser.fw.cap # "armed")'
      <3>1. PICK clean \in BOOLEAN : clean = (parser.fw.cap # "armed") OBVIOUS
      <3>2. Clear("echoInfo", "echoSigroam", {"diag", "sess"}, clean) BY <2>4, <3>1 DEF IdInv, Clear
      <3>3. ~Text("echoInfo") BY <1>5, <2>2
      <3>4. Clear("echoInfo", "echoSigroam", {"diag", "sess"}, clean)'
        BY <1>1, <1>2, <3>2, <3>3, HandleClear
      <3> QED BY <2>1, <3>1, <3>4 DEF Clear
    <2>5. Aged' BY <1>1, <1>2, <2>1 DEF IdInv, Aged
    <2> QED BY <1>1, <1>2, <2>1, <2>3, <2>4, <2>5 DEF IdInv, Sound
  <1>7. CASE ~line.truncated
    <2>1. Whole(t, k) /\ k # "long" BY <1>3, <1>7 DEF Done
    <2>2. k \in Texts \ {"long"} BY <1>3, <2>1 DEF Done
    <2> DEFINE a == t[1].a
    <2>3. a \in Nat
      <3>1. t[1] \in PieceType BY <1>3
      <3> QED BY <3>1 DEF PieceType
    <2>4. /\ parser'.fw.ver = IF k = "ver" THEN a ELSE parser.fw.ver
          /\ parser'.fw.diag = IF k = "fw" THEN 0 ELSE IF k = "diag" THEN a ELSE parser.fw.diag
          /\ parser'.fw.cap = SigroamCap(parser.fw.cap, t)
          /\ model'.fw = model.fw \/ model'.fw = parser'.fw
      <3>1. ValueOf(t) = a BY <2>1 DEF ValueOf
      <3>2. Shapes BY DEF FixInv
      <3> QED BY <1>3, <1>7, <2>1, <2>2, <3>1, <3>2, FwIs
    <2> DEFINE cap == parser.fw.cap
               new == parser'.fw.cap
    <2>5. /\ new = "yes" => cap = "yes" \/ (cap = "armed" /\ k \in {"diag", "sess"})
          /\ new = "armed" => k = "echoSigroam" \/ (cap = "armed" /\ k \notin Echo)
      BY <1>3, <2>1, <2>2, <2>4, CapIs
    <2>6. parser.fw.ver <= a /\ a <= board.answers BY <1>3 DEF IdInv, Aged
    <2>15. Aged'
      <3>1. \A i \in 1..Len(wire) : IsText(wire[i]) => a <= wire[i].a BY <1>3 DEF IdInv, Aged
      <3>2. parser'.fw.ver \in {a, parser.fw.ver} BY <2>4
      <3> HIDE DEF a
      <3> QED BY <1>1, <1>2, <3>1, <3>2 DEF IdInv, Aged
    <2>7. k = "ver" => parser.fw.diag = 0 BY <1>5 DEF IdInv, Clear
    <2>8. board.kind # "lite" /\ k \in {"diag", "sess"} => cap # "armed"
      BY <1>5 DEF IdInv, Clear
    <2> HIDE DEF t, k, a, cap, new
    <2>9. parser'.fw.ver \in Nat /\ parser'.fw.diag \in Nat /\ parser'.fw.ver <= board.answers
      BY <2>3, <2>4, <2>6 DEF IdInv
    <2>10. parser'.fw.diag # 0 => parser'.fw.diag >= parser'.fw.ver
      BY <1>4, <2>3, <2>4, <2>6, <2>7 DEF IdInv, Sound
    <2>11. new = "yes" => board.kind = "lite"
      BY <2>5, <2>8 DEF IdInv, Sound, cap
    <2>12. Sound(parser.fw)' /\ Sound(model.fw)'
      BY <1>1, <2>4, <2>10, <2>11 DEF IdInv, Sound, new
    <2>13. Clear("fw", "diag", {"ver"}, parser.fw.diag = 0)'
      <3>1. PICK clean \in BOOLEAN : clean = (parser.fw.diag = 0) OBVIOUS
      <3>2. PICK after \in BOOLEAN : after = (parser'.fw.diag = 0) OBVIOUS
      <3>3. Clear("fw", "diag", {"ver"}, clean) BY <3>1 DEF IdInv, Clear
      <3>4. (Text("fw") => after) /\ (~Text("diag") /\ clean => after)
        BY <1>5, <2>4, <3>1, <3>2 DEF k
      <3>5. Clear("fw", "diag", {"ver"}, after)'
        BY <1>1, <1>2, <3>3, <3>4, HandleClear
      <3> QED BY <3>2, <3>5 DEF Clear
    <2>14. ASSUME board.kind # "lite"
           PROVE  Clear("echoInfo", "echoSigroam", {"diag", "sess"}, parser.fw.cap # "armed")'
      <3>1. PICK clean \in BOOLEAN : clean = (parser.fw.cap # "armed") OBVIOUS
      <3>2. PICK after \in BOOLEAN : after = (parser'.fw.cap # "armed") OBVIOUS
      <3>3. Clear("echoInfo", "echoSigroam", {"diag", "sess"}, clean)
        BY <2>14, <3>1 DEF IdInv, Clear
      <3>4. (Text("echoInfo") => after) /\ (~Text("echoSigroam") /\ clean => after)
        BY <1>5, <2>5, <3>1, <3>2 DEF k, cap, new, Echo
      <3>5. Clear("echoInfo", "echoSigroam", {"diag", "sess"}, after)'
        BY <1>1, <1>2, <3>3, <3>4, HandleClear
      <3> QED BY <3>2, <3>5 DEF Clear
    <2> QED BY <1>1, <1>2, <2>9, <2>12, <2>13, <2>14, <2>15 DEF IdInv
  <1> QED BY <1>3, <1>6, <1>7

\* Nobody is known yet.
LEMMA InitId == Init => IdInv
  <1> SUFFICES ASSUME Init PROVE IdInv
    OBVIOUS
  <1>1. wire = <<>> /\ line.text = <<>> /\ board.answers = 0 BY DEF Init, EmptyLine
  <1>2. /\ parser.fw = [fw |-> 0, ver |-> 0, diag |-> 0, cap |-> "none"]
        /\ model.fw = [fw |-> 0, ver |-> 0, diag |-> 0, cap |-> "none"]
    BY DEF Init
  <1>3. Len(wire) = 0 BY <1>1
  <1>4. Aged BY <1>1, <1>3 DEF Aged
  <1>5. \A r, s, T, clean : Clear(r, s, T, clean) BY <1>1, <1>3 DEF Clear, Text
  <1> QED BY <1>1, <1>2, <1>4, <1>5 DEF IdInv, Sound

\* Every step without a loss keeps the identity sound.
LEMMA NextId == LineInv /\ FixInv /\ IdInv /\ [Next]_vars => IdInv'
  <1> SUFFICES ASSUME LineInv, FixInv, IdInv, [Next]_vars PROVE IdInv'
    OBVIOUS
  <1>1. CASE UNCHANGED <<wire, line, parser, model, board, bursts>>
    <2>1. \A s, j, i : NoneOf(s, j, i) <=> NoneOf(s, j, i)' BY <1>1 DEF NoneOf
    <2>2. Aged <=> Aged' BY <1>1 DEF Aged
    <2> QED BY <1>1, <2>1, <2>2 DEF IdInv, Sound, Clear, Text
  <1>2. CASE UNCHANGED vars
    BY <1>1, <1>2 DEF vars, intakeVars
  <1>3. CASE GuiArms \/ GuiDisarms \/ TickPulls \/ TickWrites \/ TickFails
    BY <1>1, <1>3 DEF GuiArms, GuiDisarms, TickPulls, TickWrites, TickFails, intakeVars
  <1>4. CASE Burst
    <2>1. bursts' # 0 BY <1>4 DEF Burst, FixInv
    <2> QED BY <2>1 DEF IdInv
  <1> QED BY <1>2, <1>3, <1>4, AnswersId, FeedId, HandleId DEF Next

\* While nothing is lost the board's state is not older than its version
\* (sr_parse_marauder.c:880-881), and only a board that answers "sigroam" is
\* taken for one that does (sr_dialect.h:163-164).
THEOREM IdentityIsSound == Spec => []IdentitySound
  <1>1. IdInv => IdentitySound BY DEF IdInv, Sound, IdentitySound
  <1> QED BY <1>1, InitLines, NextLines, InitFix, NextFix, InitId, NextId, PTL DEF Spec
=============================================================================

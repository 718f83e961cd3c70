------------------------- MODULE HttpResponseProofs -------------------------
(***************************************************************************)
(* Proofs about HttpResponse, for any files, cuts, number of responses and *)
(* of clients.  A response is h cells of the write buffer and n cells of   *)
(* the file.  Sending says how the iovecs and the counters stand when      *)
(* s cells of it are out: before the first call, after the one call that   *)
(* may end inside the header, and in the file; what writev is offered then *)
(* is the rest of the response.                                            *)
(***************************************************************************)
EXTENDS HttpResponse, SequenceTheorems, TLAPS

CellSet == {"buf", "file"} \X Int

Answer(h, n) == Cells("buf", 0, h) \o Cells("file", 0, n)

Counted(h, n, s) ==
  /\ s < h + n
  /\ m_write_idx = h
  /\ bytes_have_send = s /\ bytes_to_send = h + n - s
  /\ m_iv_count = IF n = 0 THEN 1 ELSE 2

Pointed(h, n, s) ==
  /\ \/ s = 0 /\ iov0 = [base |-> 0, len |-> h]
     \/ /\ s \in 1 .. h - 1 /\ pieces = 1
        /\ iov0 = [base |-> s, len |-> h - s]
     \/ s >= h /\ iov0.len = 0
  /\ n # 0 => iov1 = IF s >= h THEN [base |-> s - h, len |-> h + n - s]
                               ELSE [base |-> 0, len |-> n]

Sending(h, n, s) == Counted(h, n, s) /\ Pointed(h, n, s)

Stands(h, n) ==
  /\ response = Answer(h, n)
  /\ phase \in {"armed", "writing"} =>
       IF h \in 1 .. 127 THEN Sending(h, n, Len(sent))
                         ELSE h > 127 /\ iov0.len = TooLong
  /\ phase \in {"reading", "closed"} /\ ~hungUp /\ h \in 0 .. 127 =>
       sent = response

ResponseInv ==
  /\ TypeOK
  /\ sent \in Seq(CellSet) /\ IsPrefix(sent, response)
  /\ pieces \in Nat
  /\ phase = "reading" => m_write_idx = 0 /\ bytes_have_send = 0
  /\ \E h, n \in Nat : Stands(h, n)

-----------------------------------------------------------------------------
(* Cells and prefixes.                                                     *)
LEMMA CellsAre ==
  ASSUME NEW tag \in {"buf", "file"}, NEW base \in Int, NEW len \in Nat
  PROVE  /\ Cells(tag, base, len) \in Seq(CellSet)
         /\ Len(Cells(tag, base, len)) = len
         /\ \A i \in 1 .. len : Cells(tag, base, len)[i] = <<tag, base + i>>
<1>1. \A i \in 1 .. len : <<tag, base + i>> \in CellSet
  BY DEF CellSet
<1>2. [i \in 1 .. len |-> <<tag, base + i>>] \in Seq(CellSet)
  BY <1>1, IsASeq
<1>3. PICK c : c = Cells(tag, base, len)
  OBVIOUS
<1>4. c = [i \in 1 .. len |-> <<tag, base + i>>]
  BY <1>3 DEF Cells
<1>5. c \in Seq(CellSet) /\ \A i \in 1 .. len : c[i] = <<tag, base + i>>
  BY <1>2, <1>4
<1>6. Len(c) = len
  <2>1. DOMAIN c = 1 .. len /\ DOMAIN c = 1 .. Len(c) /\ Len(c) \in Nat
    BY <1>4, <1>5, LenProperties
  <2>2. QED
    BY <2>1
<1>7. QED
  BY <1>3, <1>5, <1>6

(* c is l0 cells of the buffer from b0 on and then l1 of the file.         *)
Joined(c, b0, l0, b1, l1) ==
  /\ c \in Seq(CellSet)
  /\ Len(c) = l0 + l1
  /\ \A i \in 1 .. l0 + l1 :
       c[i] = IF i <= l0 THEN <<"buf", b0 + i>> ELSE <<"file", b1 + i - l0>>

LEMMA BufferThenFile ==
  ASSUME NEW b0 \in Int, NEW l0 \in Nat, NEW b1 \in Int, NEW l1 \in Nat,
         NEW c, c = Cells("buf", b0, l0) \o Cells("file", b1, l1)
  PROVE  Joined(c, b0, l0, b1, l1)
<1>1. PICK x : x = Cells("buf", b0, l0)
  OBVIOUS
<1>2. PICK y : y = Cells("file", b1, l1)
  OBVIOUS
<1>3. /\ x \in Seq(CellSet) /\ Len(x) = l0
      /\ \A i \in 1 .. l0 : x[i] = <<"buf", b0 + i>>
  BY <1>1, CellsAre
<1>4. /\ y \in Seq(CellSet) /\ Len(y) = l1
      /\ \A i \in 1 .. l1 : y[i] = <<"file", b1 + i>>
  BY <1>2, CellsAre
<1>5. c = x \o y
  BY <1>1, <1>2
<1>6. /\ x \o y \in Seq(CellSet) /\ Len(x \o y) = Len(x) + Len(y)
      /\ \A i \in 1 .. Len(x) + Len(y) :
           (x \o y)[i] = IF i <= Len(x) THEN x[i] ELSE y[i - Len(x)]
  BY <1>3, <1>4, ConcatProperties
<1>7. c \in Seq(CellSet) /\ Len(c) = l0 + l1
  BY <1>3, <1>4, <1>5, <1>6
<1>8. ASSUME NEW i \in 1 .. l0 + l1
      PROVE  c[i] = IF i <= l0 THEN <<"buf", b0 + i>>
                               ELSE <<"file", b1 + i - l0>>
  <2>1. i \in 1 .. Len(x) + Len(y) /\ Len(x) = l0
    BY <1>3, <1>4
  <2>2. c[i] = IF i <= Len(x) THEN x[i] ELSE y[i - Len(x)]
    BY <2>1, <1>5, <1>6
  <2>3. CASE i <= l0
    <3>1. c[i] = x[i]
      BY <2>1, <2>2, <2>3
    <3>2. i \in 1 .. l0
      BY <2>3
    <3>3. x[i] = <<"buf", b0 + i>>
      BY <3>2, <1>3
    <3>4. QED
      BY <3>1, <3>3, <2>3
  <2>4. CASE ~(i <= l0)
    <3>1. PICK k : k = i - l0
      OBVIOUS
    <3>2. k \in 1 .. l1 /\ b1 + k = b1 + i - l0
      BY <3>1, <2>4
    <3>3. c[i] = y[k]
      BY <3>1, <2>1, <2>2, <2>4
    <3>4. y[k] = <<"file", b1 + k>>
      BY <3>2, <1>4
    <3>5. QED
      BY <3>2, <3>3, <3>4, <2>4
  <2>5. QED
    BY <2>3, <2>4
<1>9. QED
  BY <1>7, <1>8 DEF Joined

IsAnswer(c, h, n) ==
  /\ c \in Seq(CellSet)
  /\ Len(c) = h + n
  /\ \A i \in 1 .. h + n :
       c[i] = IF i <= h THEN <<"buf", i>> ELSE <<"file", i - h>>

LEMMA AnswerIs ==
  ASSUME NEW h \in Nat, NEW n \in Nat, NEW c, c = Answer(h, n)
  PROVE  IsAnswer(c, h, n)
<1>1. PICK z \in Int : z = 0
  OBVIOUS
<1>2. c = Cells("buf", z, h) \o Cells("file", z, n)
  BY <1>1 DEF Answer
<1>3. Joined(c, z, h, z, n)
  BY <1>2, BufferThenFile
<1>4. ASSUME NEW i \in 1 .. h + n
      PROVE  c[i] = IF i <= h THEN <<"buf", i>> ELSE <<"file", i - h>>
  <2>1. z + i = i /\ z + i - h = i - h
    BY <1>1
  <2>2. c[i] = IF i <= h THEN <<"buf", z + i>> ELSE <<"file", z + i - h>>
    BY <1>3 DEF Joined
  <2>3. QED
    BY <2>1, <2>2
<1>5. QED
  BY <1>3, <1>4 DEF Joined, IsAnswer

LEMMA Fields ==
  ASSUME TypeOK
  PROVE  /\ iov0.base \in 0 .. 127 /\ iov0.len \in (0 .. 127) \union {TooLong}
         /\ iov0' = [iov0 EXCEPT !.len = 0] =>
              iov0'.base = iov0.base /\ iov0'.len = 0
         /\ iov1.base \in Nat /\ iov1.len \in Nat
<1>1. /\ iov0 \in [base : 0 .. 127, len : (0 .. 127) \union {TooLong}]
      /\ iov1 \in [base : Nat, len : Nat]
  BY DEF TypeOK
<1>2. QED
  BY <1>1

(* No length of the buffer is too long for writev.                         *)
LEMMA NotTooLong == TooLong \notin 0 .. 127
  BY DEF TooLong

(* r is what is left of a after s cells.                                   *)
Rest(r, a, s) ==
  /\ r \in Seq(CellSet)
  /\ Len(r) = Len(a) - s
  /\ \A i \in 1 .. Len(r) : r[i] = a[s + i]

(* What follows a prefix makes it a longer prefix, and the whole of it all *)
(* of the sequence.                                                        *)
Begins(g, q, k) ==
  /\ g \in Seq(CellSet) /\ IsPrefix(g, q) /\ Len(g) = k
  /\ k = Len(q) => g = q

LEMMA PrefixGrows ==
  ASSUME NEW p \in Seq(CellSet), NEW q \in Seq(CellSet), IsPrefix(p, q),
         NEW k, k = Len(p), NEW r, Rest(r, q, k), NEW t \in 0 .. Len(r),
         NEW g, g = p \o SubSeq(r, 1, t)
  PROVE  Begins(g, q, k + t)
<1>0. /\ r \in Seq(CellSet) /\ Len(r) = Len(q) - Len(p)
      /\ \A i \in 1 .. Len(r) : r[i] = q[Len(p) + i]
  BY DEF Rest
<1>1. PICK x : x = SubSeq(r, 1, t)
  OBVIOUS
<1>2. Len(p) \in Nat /\ Len(q) \in Nat /\ Len(r) \in Nat
  BY <1>0, LenProperties
<1>3. \A i \in 1 .. t : r[i] \in CellSet
  BY <1>0, <1>2, ElementOfSeq
<1>4. /\ x \in Seq(CellSet) /\ Len(x) = t /\ \A i \in 1 .. t : x[i] = r[i]
  BY <1>1, <1>2, <1>3, SubSeqProperties
<1>5. /\ g \in Seq(CellSet) /\ Len(g) = Len(p) + t
      /\ \A i \in 1 .. Len(p) + t :
           g[i] = IF i <= Len(p) THEN p[i] ELSE x[i - Len(p)]
  BY <1>1, <1>4, ConcatProperties
<1>6. Len(p) <= Len(q) /\ SubSeq(p, 1, Len(p)) = SubSeq(q, 1, Len(p))
  BY DEF IsPrefix
<1>7. SubSeq(q, 1, Len(p)) = p
  BY <1>6, SubSeqFull
<1>8. \A i \in 1 .. Len(p) : p[i] = q[i]
  <2>1. \A i \in 1 .. Len(p) : q[i] \in CellSet
    BY <1>2, <1>6, ElementOfSeq
  <2>2. \A i \in 1 .. Len(p) : SubSeq(q, 1, Len(p))[i] = q[i]
    BY <2>1, <1>2, SubSeqProperties
  <2>3. QED
    BY <2>2, <1>7
<1>9. ASSUME NEW i \in 1 .. Len(g)
      PROVE  g[i] = q[i]
  <2>1. CASE i <= Len(p)
    BY <2>1, <1>2, <1>5, <1>8
  <2>2. CASE ~(i <= Len(p))
    <3>1. PICK j : j = i - Len(p)
      OBVIOUS
    <3>2. j \in 1 .. t /\ j \in 1 .. Len(r) /\ Len(p) + j = i
      BY <2>2, <3>1, <1>2, <1>5
    <3>3. x[j] = r[j] /\ r[j] = q[Len(p) + j]
      BY <3>2, <1>0, <1>4
    <3>4. g[i] = x[j]
      BY <2>2, <3>1, <1>2, <1>5
    <3>5. QED
      BY <3>2, <3>3, <3>4
  <2>3. QED
    BY <2>1, <2>2
<1>10. Len(g) \in Nat /\ Len(g) <= Len(q)
  BY <1>0, <1>2, <1>5
<1>11. SubSeq(g, 1, Len(g)) = g
  BY <1>5, SubSeqFull
<1>12. SubSeq(q, 1, Len(g)) = g
  <2>1. \A i \in 1 .. Len(g) : q[i] \in CellSet
    BY <1>2, <1>10, ElementOfSeq
  <2>2. PICK y : y = SubSeq(q, 1, Len(g))
    OBVIOUS
  <2>3. /\ y \in Seq(CellSet) /\ Len(y) = Len(g)
        /\ \A i \in 1 .. Len(g) : y[i] = q[i]
    BY <2>1, <2>2, <1>10, SubSeqProperties
  <2>4. y = g
    BY <2>3, <1>5, <1>9, SeqEqual
  <2>5. QED
    BY <2>2, <2>4
<1>13. IsPrefix(g, q)
  BY <1>10, <1>11, <1>12 DEF IsPrefix
<1>14. k + t = Len(q) => g = q
  <2>1. HAVE k + t = Len(q)
  <2>2. Len(g) = Len(q)
    BY <2>1, <1>2, <1>5
  <2>3. QED
    BY <2>2, <1>12, SubSeqFull
<1>15. QED
  BY <1>5, <1>13, <1>14 DEF Begins

LEMMA NoPrefix ==
  ASSUME NEW S, NEW q \in Seq(S)
  PROVE  <<>> \in Seq(S) /\ IsPrefix(<<>>, q) /\ Len(<<>>) = 0
<1>1. <<>> \in Seq(S) /\ Len(<<>>) = 0
  BY EmptySeq
<1>2. SubSeq(<<>>, 1, 0) = <<>> /\ SubSeq(q, 1, 0) = <<>>
  BY SubSeqEmpty
<1>3. Len(q) \in Nat
  BY LenProperties
<1>4. QED
  BY <1>1, <1>2, <1>3 DEF IsPrefix

-----------------------------------------------------------------------------
(* What process_write() prints, and where it leaves the char m_write_idx.  *)
Added(x, k) == x = IF k <= 127 THEN k ELSE k - 256

LEMMA Adds ==
  ASSUME NEW idx \in 0 .. 127, NEW len \in 0 .. 127,
         NEW x, x = add_response(idx, len)
  PROVE  Added(x, idx + len)
<1>1. x = Char(idx + len)
  BY DEF add_response, WRITE_BUFFER_SIZE
<1>2. PICK k \in Int : k = idx + len
  OBVIOUS
<1>3. /\ k \in 0 .. 127 => Char(k) = k
      /\ k \in 128 .. 255 => Char(k) = k - 256
  BY <1>2 DEF Char
<1>4. QED
  BY <1>1, <1>2, <1>3 DEF Added

Prints(l, x) ==
  /\ l \in 1 .. 255 /\ x \in -128 .. 127
  /\ x = IF l <= 127 THEN l ELSE l - 256

LEMMA PrintedIs ==
  ASSUME NEW ret \in Rets, NEW linger \in BOOLEAN, NEW size \in Nat,
         NEW l, l = Length(ret, linger, size),
         NEW x, x = Printed(0, ret, linger, size)
  PROVE  Prints(l, x)
<1>1. PICK a : a = StatusLine(ret)
  OBVIOUS
<1>2. PICK b : b = ContentLength(Digits(ret, size))
  OBVIOUS
<1>3. PICK c : c = LingerLine(linger)
  OBVIOUS
<1>4. PICK t : t = Text(ret)
  OBVIOUS
<1>5. a \in 17 .. 26 /\ t \in 26 .. 68
  <2>1. ret \in {"FILE_REQUEST", "FORBIDDEN_REQUEST", "BAD_REQUEST"}
    BY ResponseAssumption DEF ResponseAssumption
  <2>2. QED
    BY <2>1, <1>1, <1>4 DEF StatusLine, Text, ErrorForm, OkString
<1>6. b \in 19 .. 21 /\ c \in 18 .. 23
  BY <1>2, <1>3 DEF ContentLength, Digits, LingerLine
<1>7. PICK i1 : i1 = add_response(0, a)
  OBVIOUS
<1>8. PICK i2 : i2 = add_response(i1, b)
  OBVIOUS
<1>9. PICK i3 : i3 = add_response(i2, c)
  OBVIOUS
<1>10. PICK i4 : i4 = add_response(i3, 2)
  OBVIOUS
<1>11. i1 = a /\ i1 \in 0 .. 127
  <2>1. 0 \in 0 .. 127 /\ a \in 0 .. 127
    BY <1>5
  <2>2. Added(i1, 0 + a)
    BY <2>1, <1>7, Adds
  <2>3. QED
    BY <2>2, <1>5 DEF Added
<1>12. i2 = a + b /\ i2 \in 0 .. 127
  <2>1. b \in 0 .. 127
    BY <1>6
  <2>2. Added(i2, i1 + b)
    BY <2>1, <1>8, <1>11, Adds
  <2>3. QED
    BY <2>2, <1>5, <1>6, <1>11 DEF Added
<1>13. i3 = a + b + c /\ i3 \in 0 .. 127
  <2>1. c \in 0 .. 127
    BY <1>6
  <2>2. Added(i3, i2 + c)
    BY <2>1, <1>9, <1>12, Adds
  <2>3. QED
    BY <2>2, <1>5, <1>6, <1>12 DEF Added
<1>14. i4 = a + b + c + 2 /\ i4 \in 0 .. 127
  <2>1. 2 \in 0 .. 127
    OBVIOUS
  <2>2. Added(i4, i3 + 2)
    BY <2>1, <1>10, <1>13, Adds
  <2>3. QED
    BY <2>2, <1>5, <1>6, <1>13 DEF Added
<1>15. i4 = add_headers(add_response(0, StatusLine(ret)),
                        Digits(ret, size), linger)
  <2>1. i4 = add_headers(i1, Digits(ret, size), linger)
    BY <1>2, <1>3, <1>8, <1>9, <1>10 DEF add_headers, BlankLine
  <2>2. QED
    BY <2>1, <1>1, <1>7
<1>16. CASE Maps(ret, size)
  <2>1. x = i4
    BY <1>15, <1>16 DEF Printed
  <2>2. l = a + b + c + 2 + 0
    BY <1>1, <1>2, <1>3, <1>16 DEF Length, BlankLine
  <2>3. QED
    BY <2>1, <2>2, <1>5, <1>6, <1>14 DEF Prints
<1>17. CASE ~Maps(ret, size)
  <2>1. x = add_response(i4, t)
    BY <1>4, <1>15, <1>17 DEF Printed
  <2>2. l = a + b + c + 2 + t
    BY <1>1, <1>2, <1>3, <1>4, <1>17 DEF Length, BlankLine
  <2>3. t \in 0 .. 127
    BY <1>5
  <2>4. Added(x, i4 + t)
    BY <2>1, <2>3, <1>14, Adds
  <2>5. l = i4 + t /\ l \in 1 .. 255
    BY <2>2, <1>5, <1>6, <1>14
  <2>6. QED
    BY <2>4, <2>5 DEF Prints, Added
<1>18. QED
  BY <1>16, <1>17

-----------------------------------------------------------------------------
(* What is offered to writev is what is left of the response.              *)
LEMMA NoCells == Cells("file", 0, 0) = <<>>
<1>1. PICK c : c = Cells("file", 0, 0)
  OBVIOUS
<1>2. c \in Seq(CellSet) /\ Len(c) = 0
  BY <1>1, CellsAre
<1>3. QED
  BY <1>1, <1>2, EmptySeq

(* The two iovecs hold l0 cells of the buffer from b0 on and m of the file *)
(* from f on.                                                              *)
Offers(h, n, s, b0, l0, f, m) ==
  /\ l0 \in Nat /\ m \in Nat /\ b0 \in Nat /\ f \in Nat
  /\ s < h => b0 = s /\ l0 = h - s /\ f = 0 /\ m = n
  /\ s >= h => l0 = 0 /\ f = s - h /\ m = h + n - s

LEMMA Offered ==
  ASSUME TypeOK, NEW h \in 1 .. 127, NEW n \in Nat, NEW s \in Nat,
         Sending(h, n, s)
  PROVE  \E b0, l0, f, m \in Nat :
           /\ Offers(h, n, s, b0, l0, f, m)
           /\ ToWrite = Cells("buf", b0, l0) \o Cells("file", f, m)
<1>1. PICK b0, l0 : b0 = iov0.base /\ l0 = iov0.len
  OBVIOUS
<1>2. /\ s < h => b0 = s /\ l0 = h - s
      /\ s >= h => l0 = 0
      /\ b0 \in Nat /\ l0 \in Nat
  <2>1. iov0.base \in Nat
    BY Fields
  <2>2. /\ s < h => iov0 = [base |-> s, len |-> h - s]
        /\ s >= h => iov0.len = 0
    BY DEF Sending, Pointed
  <2>3. /\ s < h => b0 = s /\ l0 = h - s
        /\ s >= h => l0 = 0
    BY <2>2, <1>1
  <2>4. QED
    BY <2>1, <2>3, <1>1
<1>3. CASE n = 0
  <2>1. m_iv_count = 1 /\ s < h
    BY <1>3 DEF Sending, Counted
  <2>2. ToWrite = Cells("buf", b0, l0) \o Cells("file", 0, 0)
    <3>1. ToWrite = Cells("buf", iov0.base, iov0.len) \o <<>>
      BY <2>1 DEF ToWrite
    <3>2. QED
      BY <3>1, <1>1, NoCells
  <2>3. Offers(h, n, s, b0, l0, 0, 0)
    BY <2>1, <1>2, <1>3 DEF Offers
  <2>4. QED
    BY <2>2, <2>3, <1>2
<1>4. CASE n # 0
  <2>1. PICK f, m : f = iov1.base /\ m = iov1.len
    OBVIOUS
  <2>2. /\ m_iv_count = 2
        /\ iov1 = IF s >= h THEN [base |-> s - h, len |-> h + n - s]
                            ELSE [base |-> 0, len |-> n]
    BY <1>4 DEF Sending, Counted, Pointed
  <2>3. ToWrite = Cells("buf", b0, l0) \o Cells("file", f, m)
    BY <2>1, <2>2, <1>1 DEF ToWrite
  <2>4. f \in Nat /\ m \in Nat
    BY <2>1 DEF TypeOK
  <2>5. /\ s < h => f = 0 /\ m = n
        /\ s >= h => f = s - h /\ m = h + n - s
    BY <2>1, <2>2
  <2>6. Offers(h, n, s, b0, l0, f, m)
    BY <2>4, <2>5, <1>2 DEF Offers
  <2>7. QED
    BY <2>3, <2>4, <2>6, <1>2
<1>5. QED
  BY <1>3, <1>4

LEMMA RestIsOffered ==
  ASSUME TypeOK, NEW h \in 1 .. 127, NEW n \in Nat, NEW s \in Nat,
         Sending(h, n, s), NEW a, a = Answer(h, n), NEW r, r = ToWrite
  PROVE  Rest(r, a, s)
<1>1. PICK b0, l0, f, m \in Nat :
        /\ Offers(h, n, s, b0, l0, f, m)
        /\ ToWrite = Cells("buf", b0, l0) \o Cells("file", f, m)
  BY Offered
<1>2. Joined(r, b0, l0, f, m)
  <2>1. b0 \in Int /\ f \in Int
    OBVIOUS
  <2>2. QED
    BY <2>1, <1>1, BufferThenFile
<1>3. /\ Len(a) = h + n
      /\ \A i \in 1 .. h + n :
           a[i] = IF i <= h THEN <<"buf", i>> ELSE <<"file", i - h>>
  <2>1. h \in Nat
    OBVIOUS
  <2>2. IsAnswer(a, h, n)
    BY <2>1, AnswerIs
  <2>3. QED
    BY <2>2 DEF IsAnswer
<1>4. s < h + n
  BY DEF Sending, Counted
<1>5. l0 + m = h + n - s
  BY <1>1, <1>4 DEF Offers
<1>6. Len(r) = Len(a) - s
  BY <1>2, <1>3, <1>5 DEF Joined
<1>7. ASSUME NEW i \in 1 .. Len(r)
      PROVE  r[i] = a[s + i]
  <2>1. PICK k : k = s + i
    OBVIOUS
  <2>2. k \in 1 .. h + n /\ i \in 1 .. l0 + m
    BY <2>1, <1>3, <1>4, <1>5, <1>6
  <2>3. r[i] = IF i <= l0 THEN <<"buf", b0 + i>> ELSE <<"file", f + i - l0>>
    BY <2>2, <1>2 DEF Joined
  <2>4. a[k] = IF k <= h THEN <<"buf", k>> ELSE <<"file", k - h>>
    BY <2>2, <1>3
  <2>5. /\ i <= l0 <=> k <= h
        /\ i <= l0 => b0 + i = k
        /\ ~(i <= l0) => f + i - l0 = k - h
    BY <2>1, <2>2, <1>1, <1>4 DEF Offers
  <2>6. r[i] = a[k]
    BY <2>3, <2>4, <2>5
  <2>7. QED
    BY <2>1, <2>6
<1>8. QED
  BY <1>2, <1>6, <1>7 DEF Rest, Joined

-----------------------------------------------------------------------------
(* The inductive invariant.                                                *)
LEMMA InitInv == Init => ResponseInv
<1> SUFFICES ASSUME Init PROVE ResponseInv
  OBVIOUS
<1>1. PICK a : a = Answer(0, 0)
  OBVIOUS
<1>2. a \in Seq(CellSet) /\ Len(a) = 0
  <2>1. IsAnswer(a, 0, 0)
    BY <1>1, AnswerIs
  <2>2. QED
    BY <2>1 DEF IsAnswer
<1>3. a = <<>>
  BY <1>2, EmptySeq
<1>4. Stands(0, 0)
  BY <1>1, <1>3 DEF Init, Stands
<1>5. sent \in Seq(CellSet) /\ IsPrefix(sent, response)
  BY NoPrefix, EmptySeq DEF Init
<1>6. Len(response) = 0
  BY EmptySeq DEF Init
<1>7. TypeOK
  <2>1. /\ iov0 \in [base : 0 .. 127, len : (0 .. 127) \union {TooLong}]
        /\ iov1 \in [base : Nat, len : Nat]
    BY DEF Init
  <2>2. {m_linger, room, hungUp} \subseteq BOOLEAN
    BY DEF Init
  <2>3. QED
    BY <2>1, <2>2, <1>6 DEF Init, TypeOK
<1>8. QED
  BY <1>4, <1>5, <1>7 DEF Init, ResponseInv

(* A new response stands as process_write() left it.                       *)
LEMMA ProcessInv ==
  ASSUME ResponseInv, NEW ret \in Rets, NEW linger \in BOOLEAN,
         NEW size \in FileSizes, Process(ret, linger, size)
  PROVE  ResponseInv'
<1>1. size \in Nat
  BY ResponseAssumption DEF ResponseAssumption
<1>2. PICK l, x : /\ l = Length(ret, linger, size)
                  /\ x = Printed(0, ret, linger, size)
  OBVIOUS
<1>3. Prints(l, x)
  BY <1>1, <1>2, PrintedIs
<1>4. PICK n : n = IF Maps(ret, size) THEN size ELSE 0
  OBVIOUS
<1>5. /\ n \in Nat /\ (n = 0 <=> ~Maps(ret, size))
      /\ Maps(ret, size) => n = size
  BY <1>1, <1>4 DEF Maps
<1>6. phase = "reading" /\ m_write_idx = 0 /\ bytes_have_send = 0
  BY DEF Process, ResponseInv
<1>7. /\ m_write_idx' = x
      /\ iov0' = [base |-> 0, len |-> SizeT(x)]
      /\ IF n # 0 THEN iov1' = [base |-> 0, len |-> n] /\ m_iv_count' = 2
                  ELSE m_iv_count' = 1 /\ iov1' = iov1
      /\ bytes_to_send' = x + n
      /\ bytes_have_send' = 0
      /\ phase' = "armed" /\ pieces' = 0 /\ sent' = <<>>
      /\ UNCHANGED <<room, hungUp>>
  BY <1>2, <1>4, <1>5, <1>6 DEF Process
<1>8. response' = Answer(l, n)
  BY <1>2, <1>4 DEF Process, Answer
<1>9. l \in Nat /\ l \in 1 .. 255
  BY <1>3 DEF Prints
<1>10. response' \in Seq(CellSet) /\ Len(response') = l + n
  BY <1>5, <1>8, <1>9, AnswerIs DEF IsAnswer
<1>11. Len(sent') = 0 /\ sent' \in Seq(CellSet) /\ IsPrefix(sent', response')
  BY <1>7, <1>10, NoPrefix
<1>12. TypeOK'
  <2>1. phase' \in {"reading", "armed", "writing", "closed"}
    BY <1>7
  <2>2. m_write_idx' \in -128 .. 127
    BY <1>3, <1>7 DEF Prints
  <2>3. SizeT(x) \in (0 .. 127) \union {TooLong}
    BY <1>3 DEF Prints, SizeT
  <2>4. iov0' \in [base : 0 .. 127, len : (0 .. 127) \union {TooLong}]
    BY <2>3, <1>7
  <2>5. iov1' \in [base : Nat, len : Nat]
    BY <1>5, <1>7 DEF ResponseInv, TypeOK
  <2>6. m_iv_count' \in 0 .. 2
    BY <1>7
  <2>7. bytes_to_send' \in -128 .. Len(response')
    BY <1>3, <1>5, <1>7, <1>10 DEF Prints
  <2>8. bytes_have_send' \in 0 .. Len(response')
    BY <1>5, <1>7, <1>9, <1>10
  <2>9. {m_linger', room', hungUp'} \subseteq BOOLEAN
    BY <1>7 DEF Process, ResponseInv, TypeOK
  <2>10. st_size' \in FileSizes \union {0}
    BY DEF Process, Looked, ResponseInv, TypeOK
  <2>11. m_file_address' \in {0, MAP_FAILED} \union FileSizes
    BY DEF Process, Looked, Mapping, ResponseInv, TypeOK
  <2>12. QED
    BY <2>1, <2>2, <2>4, <2>5, <2>6, <2>7, <2>8, <2>9, <2>10, <2>11
       DEF TypeOK
<1>13. CASE l <= 127
  <2>1. x = l /\ SizeT(x) = l
    BY <1>3, <1>13 DEF Prints, SizeT
  <2>2. Sending(l, n, 0)'
    BY <2>1, <1>5, <1>7, <1>9 DEF Sending, Counted, Pointed
  <2>3. Stands(l, n)'
    BY <2>2, <1>7, <1>8, <1>9, <1>11, <1>13 DEF Stands
  <2>4. QED
    BY <2>3, <1>5, <1>7, <1>9, <1>11, <1>12 DEF ResponseInv
<1>14. CASE ~(l <= 127)
  <2>1. x < 0
    BY <1>3, <1>14 DEF Prints
  <2>2. iov0'.len = TooLong
    BY <2>1, <1>7 DEF SizeT
  <2>3. Stands(l, n)'
    BY <2>2, <1>7, <1>8, <1>9, <1>14 DEF Stands
  <2>4. QED
    BY <2>3, <1>5, <1>7, <1>9, <1>11, <1>12 DEF ResponseInv
<1>15. QED
  BY <1>13, <1>14

(* A call of writev that leaves some of the response to be sent.           *)
LEMMA WritevGoesOn ==
  ASSUME TypeOK, HeaderPieces <= 1, pieces \in Nat,
         NEW h \in 1 .. 127, NEW n \in Nat, NEW s \in Nat,
         Sending(h, n, s),
         NEW temp \in Takes, temp \in 1 .. h + n - s,
         Writev(temp), ~AllSent(temp), NEW g, g = s + temp
  PROVE  Sending(h, n, g)' /\ phase' = "writing" /\ pieces' \in Nat
<1>1. /\ g < h + n /\ g \in Nat
      /\ bytes_have_send' = g /\ bytes_to_send' = h + n - g
      /\ m_write_idx' = h /\ m_iv_count' = IF n = 0 THEN 1 ELSE 2
      /\ phase' = "writing"
  BY DEF Writev, AllSent, Sending, Counted
<1>2. /\ pieces' = IF temp < iov0.len THEN pieces + 1 ELSE pieces
      /\ MoveIovs(temp)
  BY DEF Writev
<1>3. PICK len : len = iov0.len
  OBVIOUS
<1>4. len # TooLong
  BY <1>3 DEF Takes
<1>5. len \in 0 .. 127
  BY <1>3, <1>4 DEF TypeOK
<1>6. temp >= len \/ pieces = 0
  <2>1. \/ temp >= len
        \/ temp = 0
        \/ pieces < HeaderPieces
    BY <1>3 DEF Takes
  <2>2. QED
    BY <2>1, ResponseAssumption DEF ResponseAssumption
<1>7. CASE g >= len
  <2>1. /\ iov0'.len = 0
        /\ iov1' = [base |-> g - h, len |-> h + n - g]
    <3>1. /\ g = bytes_have_send + temp /\ bytes_to_send - temp = h + n - g
          /\ m_write_idx = h /\ bytes_have_send = s
      BY DEF Sending, Counted
    <3>2. bytes_have_send + temp >= iov0.len
      BY <3>1, <1>3, <1>7
    <3>3. /\ iov0' = [iov0 EXCEPT !.len = 0]
          /\ iov1' = [base |-> bytes_have_send + temp - m_write_idx,
                      len |-> bytes_to_send - temp]
      BY <3>2, <1>2 DEF MoveIovs
    <3>4. iov0'.len = 0
      BY <3>3, Fields
    <3>5. bytes_have_send + temp - m_write_idx = g - h
      BY <3>1
    <3>6. QED
      BY <3>1, <3>3, <3>4, <3>5
  <2>2. g >= h
    <3>1. CASE s = 0 /\ len = h
      BY <3>1, <1>7
    <3>2. CASE s \in 1 .. h - 1 /\ pieces = 1 /\ len = h - s
      BY <3>2, <1>6
    <3>3. CASE s >= h
      BY <3>3
    <3>4. QED
      BY <3>1, <3>2, <3>3, <1>3 DEF Sending, Pointed
  <2>3. QED
    BY <2>1, <2>2, <1>1, <1>2, <1>3 DEF Sending, Counted, Pointed
<1>8. CASE ~(g >= len)
  <2>1. /\ iov0' = [base |-> g, len |-> len - temp]
        /\ iov1' = iov1
    BY <1>2, <1>3, <1>8 DEF MoveIovs, Sending, Counted
  <2>2. temp < len
    BY <1>5, <1>8
  <2>3. pieces = 0 /\ pieces' = 1
    BY <2>2, <1>2, <1>3, <1>5, <1>6
  <2>4. s = 0 /\ len = h
    <3>1. s >= h => len = 0
      BY <1>3 DEF Sending, Pointed
    <3>2. ~(s >= h)
      BY <3>1, <1>8, <1>1, <1>5
    <3>3. QED
      BY <3>2, <2>3, <1>3 DEF Sending, Pointed
  <2>5. g = temp /\ g \in 1 .. h - 1
    BY <2>2, <2>4
  <2>6. /\ iov0' = [base |-> g, len |-> h - g]
        /\ n # 0 => iov1' = [base |-> 0, len |-> n]
    BY <2>1, <2>4, <2>5 DEF Sending, Pointed
  <2>7. QED
    BY <2>3, <2>5, <2>6, <1>1 DEF Sending, Counted, Pointed
<1>9. QED
  BY <1>7, <1>8

LEMMA WritevInv ==
  ASSUME ResponseInv, HeaderPieces <= 1, NEW temp \in Takes, Writev(temp)
  PROVE  ResponseInv'
<1>1. PICK h, n \in Nat : Stands(h, n)
  BY DEF ResponseInv
<1>2. phase = "writing" /\ response' = response
  BY DEF Writev
<1>3. h \in 1 .. 127
  BY <1>1, <1>2 DEF Stands, Takes
<1>4. PICK s : s = Len(sent)
  OBVIOUS
<1>5. Sending(h, n, s) /\ response = Answer(h, n)
  BY <1>1, <1>2, <1>3, <1>4 DEF Stands
<1>6. s \in Nat /\ sent \in Seq(CellSet)
  BY <1>4, LenProperties DEF ResponseInv
<1>7. PICK r : r = ToWrite
  OBVIOUS
<1>8. Rest(r, response, s)
  BY <1>3, <1>5, <1>6, <1>7, RestIsOffered DEF ResponseInv
<1>9. response \in Seq(CellSet) /\ Len(response) = h + n
  <2>1. IsAnswer(response, h, n)
    BY <1>5, AnswerIs
  <2>2. QED
    BY <2>1 DEF IsAnswer
<1>10. Len(r) = h + n - s /\ s < h + n
  BY <1>5, <1>6, <1>8, <1>9 DEF Rest, Sending, Counted
<1>11. temp \in 1 .. h + n - s
  <2>1. r # <<>>
    BY <1>6, <1>8, <1>10, EmptySeq DEF Rest
  <2>2. QED
    BY <2>1, <1>7, <1>10 DEF Takes
<1>12. sent' = sent \o SubSeq(r, 1, temp)
  BY <1>7 DEF Writev
<1>13. /\ sent' \in Seq(CellSet) /\ IsPrefix(sent', response)
       /\ Len(sent') = s + temp
       /\ temp = h + n - s => sent' = response
  <2>1. temp \in 0 .. Len(r)
    BY <1>6, <1>10, <1>11
  <2>2. PICK z : z = sent'
    OBVIOUS
  <2>3. IsPrefix(sent, response)
    BY DEF ResponseInv
  <2>4. z = sent \o SubSeq(r, 1, temp)
    BY <2>2, <1>12
  <2>5. Begins(z, response, s + temp)
    BY <2>1, <2>3, <2>4, <1>4, <1>6, <1>8, <1>9, PrefixGrows
  <2>6. temp = h + n - s => s + temp = Len(response)
    BY <1>6, <1>9
  <2>7. QED
    BY <2>2, <2>5, <2>6 DEF Begins
<1>14. {m_linger', room', hungUp'} \subseteq BOOLEAN
  BY DEF Writev, Reset, ResponseInv, TypeOK
<1>15. /\ st_size' \in FileSizes \union {0}
       /\ m_file_address' \in {0, MAP_FAILED} \union FileSizes
       /\ m_iv_count' \in 0 .. 2
  BY DEF Writev, unmap, ResponseInv, TypeOK
<1>16. iov0' \in [base : 0 .. 127, len : (0 .. 127) \union {TooLong}]
  <2>1. iov0.len \in 0 .. 127
    BY Fields DEF ResponseInv, Takes
  <2>2. CASE bytes_have_send + temp >= iov0.len
    <3>1. iov0' = [iov0 EXCEPT !.len = 0]
      BY <2>2 DEF Writev, MoveIovs
    <3>2. iov0 \in [base : 0 .. 127, len : (0 .. 127) \union {TooLong}]
      BY DEF ResponseInv, TypeOK
    <3>3. QED
      BY <3>1, <3>2
  <2>3. CASE ~(bytes_have_send + temp >= iov0.len)
    <3>1. iov0' = [base |-> s + temp, len |-> iov0.len - temp]
      BY <2>3, <1>5 DEF Writev, MoveIovs, Sending, Counted
    <3>2. PICK len \in 0 .. 127 : len = iov0.len
      BY <2>1
    <3>3. ~(s + temp >= len)
      BY <3>2, <2>3, <1>5 DEF Sending, Counted
    <3>4. s + temp \in 0 .. 127 /\ len - temp \in 0 .. 127
      BY <3>3, <1>6, <1>11
    <3>5. QED
      BY <3>1, <3>2, <3>4
  <2>4. QED
    BY <2>2, <2>3
<1>17. CASE AllSent(temp)
  <2>1. temp = h + n - s
    BY <1>5, <1>11, <1>17 DEF AllSent, Sending, Counted
  <2>2. sent' = response'
    BY <2>1, <1>2, <1>13
  <2>3. iov1' \in [base : Nat, len : Nat]
    <3>1. \/ iov1' = iov1
          \/ iov1' = [base |-> s + temp - h, len |-> h + n - s - temp]
      <4>1. /\ m_write_idx = h /\ bytes_have_send = s
            /\ bytes_to_send = h + n - s
        BY <1>5 DEF Sending, Counted
      <4>2. \/ iov1' = iov1
            \/ iov1' = [base |-> bytes_have_send + temp - m_write_idx,
                        len |-> bytes_to_send - temp]
        BY DEF Writev, MoveIovs
      <4>3. /\ bytes_have_send + temp - m_write_idx = s + temp - h
            /\ bytes_to_send - temp = h + n - s - temp
        BY <4>1, <1>3, <1>6, <1>11
      <4>4. QED
        BY <4>2, <4>3
    <3>2. s + temp - h \in Nat /\ h + n - s - temp \in Nat
      BY <2>1, <1>3, <1>6
    <3>3. QED
      BY <3>1, <3>2 DEF ResponseInv, TypeOK
  <2>4. /\ phase' \in {"reading", "closed"}
        /\ phase' = "reading" =>
             m_write_idx' = 0 /\ bytes_have_send' = 0 /\ bytes_to_send' = 0
        /\ phase' = "closed" =>
             /\ m_write_idx' = m_write_idx
             /\ bytes_have_send' = s + temp /\ bytes_to_send' = h + n - s - temp
    <3>1. bytes_have_send = s /\ bytes_to_send = h + n - s
      BY <1>5 DEF Sending, Counted
    <3>2. CASE m_linger
      BY <3>2, <1>17 DEF Writev, Reset
    <3>3. CASE ~m_linger
      <4>1. /\ phase' = "closed" /\ m_write_idx' = m_write_idx
            /\ bytes_have_send' = bytes_have_send + temp
            /\ bytes_to_send' = bytes_to_send - temp
        BY <3>3, <1>17 DEF Writev
      <4>2. QED
        BY <4>1, <3>1, <1>3, <1>6, <1>11
    <3>4. QED
      BY <3>2, <3>3
  <2>5. /\ m_write_idx' \in -128 .. 127
        /\ bytes_to_send' \in -128 .. Len(response')
        /\ bytes_have_send' \in 0 .. Len(response')
    <3>1. Len(response') = h + n
      BY <1>2, <1>9
    <3>2. m_write_idx \in -128 .. 127
      BY DEF ResponseInv, TypeOK
    <3>3. CASE phase' = "reading"
      BY <3>1, <3>3, <2>4, <1>3
    <3>4. CASE phase' = "closed"
      <4>1. s + temp = h + n /\ h + n - s - temp = 0
        BY <2>1, <1>6
      <4>2. QED
        BY <4>1, <3>1, <3>2, <3>4, <2>4, <1>3
    <3>5. QED
      BY <3>3, <3>4, <2>4
  <2>6. phase' \in {"reading", "armed", "writing", "closed"}
    BY <2>4
  <2>7. TypeOK'
    BY <2>3, <2>5, <2>6, <1>14, <1>15, <1>16 DEF TypeOK
  <2>8. Stands(h, n)'
    BY <2>2, <2>4, <1>2, <1>5 DEF Stands
  <2>9. pieces' \in Nat
    BY DEF Writev, ResponseInv
  <2>10. QED
    BY <2>4, <2>7, <2>8, <2>9, <1>2, <1>13 DEF ResponseInv
<1>18. CASE ~AllSent(temp)
  <2>1. PICK g : g = s + temp
    OBVIOUS
  <2>2. Sending(h, n, g)' /\ phase' = "writing" /\ pieces' \in Nat
    BY <2>1, <1>3, <1>5, <1>6, <1>11, <1>18, WritevGoesOn DEF ResponseInv
  <2>3. g = Len(sent')
    BY <2>1, <1>13
  <2>4. Stands(h, n)'
    BY <2>2, <2>3, <1>2, <1>3, <1>5 DEF Stands
  <2>5. g \in Nat /\ g < h + n
    BY <2>1, <2>2, <1>6, <1>11 DEF Sending, Counted
  <2>6. /\ m_write_idx' = h
        /\ bytes_have_send' = g /\ bytes_to_send' = h + n - g
    BY <2>2 DEF Sending, Counted
  <2>7. iov1' \in [base : Nat, len : Nat]
    <3>1. CASE n = 0
      <4>1. g < h
        BY <3>1, <2>5
      <4>2. ~(g >= iov0.len)
        <5>1. iov0'.len # 0
          BY <4>1, <2>2, <2>5, <1>3 DEF Sending, Pointed
        <5>2. g >= iov0.len => iov0' = [iov0 EXCEPT !.len = 0]
          BY <2>1, <1>5 DEF Sending, Counted, Writev, MoveIovs
        <5>3. QED
          BY <5>1, <5>2, Fields DEF ResponseInv
      <4>3. iov1' = iov1
        BY <4>2, <2>1, <1>5 DEF Writev, MoveIovs, Sending, Counted
      <4>4. QED
        BY <4>3 DEF ResponseInv, TypeOK
    <3>2. CASE n # 0
      BY <3>2, <2>2, <2>5, <1>3 DEF Sending, Pointed
    <3>3. QED
      BY <3>1, <3>2
  <2>8. /\ m_write_idx' \in -128 .. 127
        /\ bytes_to_send' \in -128 .. Len(response')
        /\ bytes_have_send' \in 0 .. Len(response')
    BY <2>5, <2>6, <1>2, <1>3, <1>9
  <2>9. phase' \in {"reading", "armed", "writing", "closed"}
    BY <2>2
  <2>10. TypeOK'
    BY <2>7, <2>8, <2>9, <1>14, <1>15, <1>16 DEF TypeOK
  <2>11. QED
    BY <2>2, <2>4, <2>10, <1>2, <1>13 DEF ResponseInv
<1>19. QED
  BY <1>17, <1>18

(* A new client finds the counters at zero and nothing sent.               *)
LEMMA NewClientInv ==
  ASSUME ResponseInv, NewClient
  PROVE  ResponseInv'
<1>1. PICK a : a = Answer(0, 0)
  OBVIOUS
<1>2. a \in Seq(CellSet) /\ Len(a) = 0
  <2>1. IsAnswer(a, 0, 0)
    BY <1>1, AnswerIs
  <2>2. QED
    BY <2>1 DEF IsAnswer
<1>3. a = <<>>
  BY <1>2, EmptySeq
<1>4. Stands(0, 0)'
  BY <1>1, <1>3 DEF NewClient, Stands
<1>5. sent' \in Seq(CellSet) /\ IsPrefix(sent', response')
  BY NoPrefix, EmptySeq DEF NewClient
<1>6. Len(response') = 0
  BY EmptySeq DEF NewClient
<1>7. TypeOK'
  <2>1. /\ UNCHANGED <<iov0, iov1, m_iv_count, m_file_address, st_size>>
        /\ m_write_idx' = 0 /\ bytes_to_send' = 0 /\ bytes_have_send' = 0
        /\ phase' = "reading"
    BY DEF NewClient, Reset, iovs
  <2>2. {m_linger', room', hungUp'} \subseteq BOOLEAN
    BY DEF NewClient, Reset
  <2>3. QED
    BY <2>1, <2>2, <1>6 DEF ResponseInv, TypeOK
<1>8. QED
  BY <1>4, <1>5, <1>7 DEF NewClient, Reset, iovs, ResponseInv

(* The steps that send nothing leave the iovecs and the counters alone.    *)
Calm ==
  /\ phase' \in {phase, "armed", "writing", "closed"}
  /\ phase' \in {"armed", "writing"} => phase \in {"armed", "writing"}
  /\ phase' = "closed" /\ phase # "closed" =>
       hungUp' \/ (phase = "writing" /\ iov0.len = TooLong)
  /\ {room', hungUp'} \subseteq BOOLEAN /\ (hungUp => hungUp')
  /\ m_file_address' \in {0, m_file_address}
  /\ UNCHANGED <<m_write_idx, iovs, counters, m_linger, st_size, response,
                 sent, pieces>>

LEMMA CalmInv ==
  ASSUME ResponseInv, Calm
  PROVE  ResponseInv'
<1>1. PICK h, n \in Nat : Stands(h, n)
  BY DEF ResponseInv
<1>2. UNCHANGED <<m_write_idx, iov0, iov1, m_iv_count, bytes_to_send,
                  bytes_have_send, m_linger, st_size, response, sent, pieces>>
  BY DEF Calm, iovs, counters
<1>3. TypeOK'
  BY <1>2 DEF Calm, ResponseInv, TypeOK
<1>4. phase' \in {"armed", "writing"} =>
        IF h \in 1 .. 127 THEN Sending(h, n, Len(sent))'
                          ELSE h > 127 /\ iov0'.len = TooLong
  BY <1>1, <1>2 DEF Calm, Stands, Sending, Counted, Pointed
<1>5. phase' \in {"reading", "closed"} /\ ~hungUp' /\ h \in 0 .. 127 =>
        sent' = response'
  <2>1. CASE phase \in {"reading", "closed"}
    BY <2>1, <1>1, <1>2 DEF Calm, Stands, ResponseInv, TypeOK
  <2>2. CASE phase \in {"armed", "writing"}
    <3>1. SUFFICES ASSUME phase' \in {"reading", "closed"}, ~hungUp',
                          h \in 0 .. 127
                   PROVE  FALSE
      OBVIOUS
    <3>2. phase = "writing" /\ iov0.len = TooLong
      BY <3>1, <2>2 DEF Calm
    <3>3. h > 127
      <4>1. SUFFICES ASSUME h \in 1 .. 127
                     PROVE  FALSE
        BY <3>2, <1>1 DEF Stands
      <4>2. PICK s : s = Len(sent)
        OBVIOUS
      <4>3. Pointed(h, n, s)
        BY <4>1, <4>2, <3>2, <1>1 DEF Stands, Sending
      <4>4. \/ iov0.len = h
            \/ iov0.len = h - s /\ s \in 1 .. h - 1
            \/ iov0.len = 0
        BY <4>3 DEF Pointed
      <4>5. iov0.len \in 0 .. 127
        BY <4>4, <4>1
      <4>6. QED
        BY <4>5, <3>2, NotTooLong
    <3>4. QED
      BY <3>1, <3>3
  <2>3. QED
    BY <2>1, <2>2 DEF ResponseInv, TypeOK
<1>6. Stands(h, n)'
  BY <1>1, <1>2, <1>4, <1>5 DEF Stands
<1>7. QED
  BY <1>2, <1>3, <1>6 DEF Calm, ResponseInv

LEMMA CalmSteps ==
  ASSUME ResponseInv,
         Writable \/ WriteAgain \/ WriteFails \/ ErrorEvent \/ Drain \/ Hangup
           \/ UNCHANGED vars
  PROVE  Calm
<1>1. /\ {room, hungUp} \subseteq BOOLEAN
      /\ phase \in {"reading", "armed", "writing", "closed"}
  BY DEF ResponseInv, TypeOK
<1>2. CASE Writable
  BY <1>1, <1>2 DEF Writable, Calm
<1>3. CASE WriteAgain
  BY <1>1, <1>3 DEF WriteAgain, Calm
<1>4. CASE WriteFails
  BY <1>1, <1>4 DEF WriteFails, unmap, Calm
<1>5. CASE ErrorEvent
  BY <1>1, <1>5 DEF ErrorEvent, Calm
<1>6. CASE Drain
  BY <1>1, <1>6 DEF Drain, Calm
<1>7. CASE Hangup
  BY <1>1, <1>7 DEF Hangup, Calm
<1>8. CASE UNCHANGED vars
  BY <1>1, <1>8 DEF vars, Calm
<1>9. QED
  BY <1>2, <1>3, <1>4, <1>5, <1>6, <1>7, <1>8

LEMMA NextInv ==
  ASSUME ResponseInv, HeaderPieces <= 1, [Next]_vars
  PROVE  ResponseInv'
<1>1. CASE NewClient
  BY <1>1, NewClientInv
<1>2. CASE \E ret \in Rets, linger \in BOOLEAN, size \in FileSizes :
             Process(ret, linger, size)
  BY <1>2, ProcessInv
<1>3. CASE \E temp \in Takes : Writev(temp)
  BY <1>3, WritevInv
<1>4. CASE Writable \/ WriteAgain \/ WriteFails \/ ErrorEvent \/ Drain
             \/ Hangup \/ UNCHANGED vars
  BY <1>4, CalmSteps, CalmInv
<1>5. QED
  BY <1>1, <1>2, <1>3, <1>4 DEF Next, WriteEvent

LEMMA AlwaysInv ==
  ASSUME HeaderPieces <= 1
  PROVE  Spec => []ResponseInv
<1>1. ResponseInv /\ [Next]_vars => ResponseInv'
  BY NextInv
<1>2. QED
  BY <1>1, InitInv, PTL DEF Spec

(* Whatever files are asked for, by however many clients, what the kernel  *)
(* has taken of a response is its beginning, provided that at most one     *)
(* call of writev per response ends inside the header                      *)
(* (http_conn.cpp:842-864).                                                *)
THEOREM SentIsAlwaysPrefix ==
  ASSUME HeaderPieces <= 1
  PROVE  Spec => []SentIsPrefix
<1>1. ResponseInv => SentIsPrefix
  BY DEF ResponseInv, SentIsPrefix
<1>2. QED
  BY <1>1, AlwaysInv, PTL

LEMMA ShortIsAnswered ==
  ASSUME ResponseInv,
         \A i \in 1 .. Len(response) : i > 127 => response[i][1] = "file"
  PROVE  AnsweredInFull
<1>1. PICK h, n \in Nat : Stands(h, n)
  BY DEF ResponseInv
<1>2. /\ Len(response) = h + n
      /\ \A i \in 1 .. h + n :
           response[i] = IF i <= h THEN <<"buf", i>> ELSE <<"file", i - h>>
  <2>1. IsAnswer(response, h, n)
    BY <1>1, AnswerIs DEF Stands
  <2>2. QED
    BY <2>1 DEF IsAnswer
<1>3. h \in 0 .. 127
  <2>1. SUFFICES ASSUME h > 127
                 PROVE  FALSE
    <3>1. h <= 127 \/ h > 127
      OBVIOUS
    <3>2. QED
      BY <3>1
  <2>2. h \in 1 .. h + n /\ h <= h
    BY <2>1
  <2>3. response[h] = <<"buf", h>>
    BY <2>2, <1>2
  <2>4. response[h][1] = "file"
    BY <2>1, <2>2, <1>2
  <2>5. QED
    BY <2>3, <2>4
<1>4. QED
  BY <1>1, <1>3 DEF Stands, AnsweredInFull

(* A response whose text a char can count is answered in full before the   *)
(* connection reads again or is closed, unless the client has hung up      *)
(* (http_conn.cpp:866-881).                                                *)
THEOREM ShortIsAnsweredInFull ==
  ASSUME HeaderPieces <= 1
  PROVE  Spec => []ShortAnsweredInFull
<1>1. ResponseInv => ShortAnsweredInFull
  BY ShortIsAnswered DEF ShortAnsweredInFull
<1>2. QED
  BY <1>1, AlwaysInv, PTL
=============================================================================

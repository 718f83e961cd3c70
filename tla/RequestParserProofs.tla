------------------------- MODULE RequestParserProofs -------------------------
(***************************************************************************)
(* Proofs about RequestParser, for any requests but those of the URL /,    *)
(* any number of headers, length of the body and of the buffer, cut in any *)
(* way.  A request has a number of lines, three cells each, then the empty *)
(* line and the body.  ParserInv says that what was read and not yet cut   *)
(* in lines is still what was sent, that parsing stands at the start of a  *)
(* line or before the line feed of one, and that m_linger and              *)
(* m_content_length tell of the headers before it.                         *)
(***************************************************************************)
EXTENDS RequestParser, SequenceTheorems, TLAPS

CellSet == {"file", "root", "bad", "keep", "other", "length",
            "CR", "LF", "NUL", "body"}

(* Lines of a request with its first, the first cell of its body, and the  *)
(* carriage return at the end of the j-th line; line 0 is the first.       *)
Lines(a) == 1 + Len(a.headers)

BodyStart(a) == 3 * Lines(a) + 2

EndOf(a, j) == IF j < Lines(a) THEN 3 * j + 1 ELSE 3 * Lines(a)

TextOf(a, j) == IF j = 0 THEN a.first ELSE a.headers[j]

IsWire(w, a) ==
  /\ w \in Seq(CellSet)
  /\ Len(w) = BodyStart(a) + Len(Body(a))
  /\ \A j \in 0 .. Lines(a) - 1 : w[3 * j + 1] = TextOf(a, j)
  /\ \A j \in 0 .. Lines(a) :
       w[EndOf(a, j) + 1] = "CR" /\ w[EndOf(a, j) + 2] = "LF"
  /\ \A i \in BodyStart(a) + 1 .. Len(w) : w[i] = "body"

-----------------------------------------------------------------------------
(* The requests, cell by cell.                                             *)
LEMMA AskIs ==
  ASSUME NEW a \in Asks
  PROVE  /\ a.first \in Firsts /\ a.headers \in Seq(Headers)
         /\ Len(a.headers) \in Nat
         /\ \A j \in 1 .. Len(a.headers) : a.headers[j] \in Headers
<1>1. a.first \in Firsts /\ a.headers \in BoundedSeq(Headers, MaxHeaders)
  BY DEF Asks
<1>2. PICK m \in Nat : a.headers \in [1 .. m -> Headers]
  BY <1>1, ParserAssumption DEF BoundedSeq, SeqOf, ParserAssumption
<1>3. a.headers \in Seq(Headers)
  BY <1>2
<1>4. QED
  BY <1>1, <1>3, ElementOfSeq, LenProperties

LEMMA TextIs ==
  ASSUME NEW a \in Asks, NEW j \in 0 .. Lines(a) - 1
  PROVE  /\ TextOf(a, j) \in CellSet \ {"CR", "LF", "NUL", "body"}
         /\ j = 0 => TextOf(a, j) \in Firsts
         /\ j # 0 => TextOf(a, j) \in Headers
<1>1. /\ Firsts \subseteq {"file", "root", "bad"}
      /\ Headers \subseteq {"keep", "other", "length"}
  BY ParserAssumption DEF ParserAssumption
<1>2. CASE j = 0
  BY <1>1, <1>2, AskIs DEF TextOf, CellSet
<1>3. CASE j # 0
  <2>1. j \in 1 .. Len(a.headers)
    BY <1>3, AskIs DEF Lines
  <2>2. a.headers[j] \in Headers
    BY <2>1, AskIs
  <2>3. QED
    BY <2>2, <1>1, <1>3 DEF TextOf, CellSet
<1>4. QED
  BY <1>2, <1>3

LEMMA BodyIs ==
  ASSUME NEW a \in Asks, NEW b, b = Body(a)
  PROVE  /\ b \in Seq(CellSet)
         /\ Len(b) = IF Contains(a.headers, "length") THEN BodyLen ELSE 0
         /\ \A i \in 1 .. Len(b) : b[i] = "body"
<1>1. BodyLen \in Nat
  BY ParserAssumption DEF ParserAssumption
<1>2. CASE Contains(a.headers, "length")
  <2>1. b = [i \in 1 .. BodyLen |-> "body"]
    BY <1>2 DEF Body
  <2>2. b \in Seq(CellSet) /\ Len(b) = BodyLen
    <3>1. \A i \in 1 .. BodyLen : "body" \in CellSet
      BY DEF CellSet
    <3>2. [i \in 1 .. BodyLen |-> "body"] \in Seq(CellSet)
      BY <3>1, <1>1, IsASeq
    <3>3. DOMAIN b = 1 .. BodyLen /\ DOMAIN b = 1 .. Len(b) /\ Len(b) \in Nat
      BY <2>1, <3>2, LenProperties
    <3>4. QED
      BY <2>1, <3>2, <3>3, <1>1
  <2>3. QED
    BY <2>1, <2>2, <1>2
<1>3. CASE ~Contains(a.headers, "length")
  <2>1. b = <<>>
    BY <1>3 DEF Body
  <2>2. b \in Seq(CellSet) /\ Len(b) = 0
    BY <2>1, EmptySeq
  <2>3. QED
    BY <2>2, <1>3
<1>4. QED
  BY <1>2, <1>3

LEMMA FunctionIsSeq ==
  ASSUME NEW C, NEW m \in Nat, NEW f \in [1 .. m -> C]
  PROVE  f \in Seq(C)
  OBVIOUS

LEMMA SameLength == \A m, n \in Nat : 1 .. m = 1 .. n => m = n
<1>1. TAKE m, n \in Nat
<1>2. HAVE 1 .. m = 1 .. n
<1>3. m <= n
  <2>1. m = 0 \/ m \in 1 .. m
    OBVIOUS
  <2>2. m = 0 \/ m \in 1 .. n
    BY <1>2, <2>1
  <2>3. QED
    BY <2>2
<1>4. n <= m
  <2>1. n = 0 \/ n \in 1 .. n
    OBVIOUS
  <2>2. n = 0 \/ n \in 1 .. m
    BY <1>2, <2>1
  <2>3. QED
    BY <2>2
<1>5. QED
  BY <1>3, <1>4

LEMMA LinesOf ==
  ASSUME NEW a \in Asks, NEW l, l = <<a.first>> \o a.headers
  PROVE  \A j \in 0 .. Lines(a) - 1 : l[j + 1] = TextOf(a, j)
<1>1. PICK f : f = <<a.first>>
  OBVIOUS
<1>2. PICK h : h = a.headers
  OBVIOUS
<1>3. f \in Seq(Firsts \union Headers) /\ Len(f) = 1 /\ f[1] = a.first
  BY <1>1, AskIs
<1>4. h \in Seq(Firsts \union Headers) /\ Len(h) \in Nat
  BY <1>2, AskIs, SeqMonotonic
<1>5. \A i \in 1 .. Len(f) + Len(h) :
        (f \o h)[i] = IF i <= Len(f) THEN f[i] ELSE h[i - Len(f)]
  BY <1>3, <1>4, ConcatProperties
<1>6. l = f \o h
  BY <1>1, <1>2
<1>7. ASSUME NEW j \in 0 .. Lines(a) - 1
      PROVE  l[j + 1] = TextOf(a, j)
  <2>1. PICK i \in 1 .. 1 + Len(h) : i = j + 1
    BY <1>2, <1>4 DEF Lines
  <2>2. l[i] = IF i <= 1 THEN f[i] ELSE h[i - 1]
    BY <1>3, <1>5, <1>6
  <2>3. CASE j = 0
    BY <2>1, <2>2, <2>3, <1>3 DEF TextOf
  <2>4. CASE j # 0
    <3>1. ~(i <= 1) /\ i - 1 = j
      BY <2>1, <2>4
    <3>2. QED
      BY <3>1, <2>1, <2>2, <2>4, <1>2 DEF TextOf
  <2>5. QED
    BY <2>3, <2>4
<1>8. QED
  BY <1>7

LEMMA LineCell ==
  \A x : Line(x)[1] = x /\ Line(x)[2] = "CR" /\ Line(x)[3] = "LF"
  BY DEF Line

LEMMA Thirds ==
  \A j \in Nat :
    /\ (3 * j + 1 + 2) \div 3 = j + 1 /\ (3 * j + 1 + 2) % 3 = 0
    /\ (3 * j + 2 + 2) \div 3 = j + 1 /\ (3 * j + 2 + 2) % 3 = 1
    /\ (3 * j + 3 + 2) \div 3 = j + 1 /\ (3 * j + 3 + 2) % 3 = 2
  OBVIOUS

(* The three cells of each line, as Wire() puts them together.             *)
IsLines(c, a) ==
  /\ c \in Seq(CellSet) /\ Len(c) = 3 * Lines(a)
  /\ \A j \in 0 .. Lines(a) - 1 :
       c[3 * j + 1] = TextOf(a, j) /\ c[3 * j + 2] = "CR"
         /\ c[3 * j + 3] = "LF"

LEMMA LinesAre ==
  ASSUME NEW a \in Asks, NEW l, l = <<a.first>> \o a.headers,
         NEW c, c = [i \in 1 .. 3 * Lines(a) |->
                       Line(l[(i + 2) \div 3])[1 + ((i + 2) % 3)]]
  PROVE  IsLines(c, a)
<1>1. PICK n : n = Lines(a)
  OBVIOUS
<1>2. n \in Nat
  BY <1>1, AskIs DEF Lines
<1>3. ASSUME NEW j \in 0 .. n - 1
      PROVE  /\ c[3 * j + 1] = TextOf(a, j) /\ c[3 * j + 2] = "CR"
             /\ c[3 * j + 3] = "LF"
  <2>1. l[j + 1] = TextOf(a, j)
    BY <1>1, LinesOf
  <2>2. /\ 3 * j + 1 \in 1 .. 3 * n /\ 3 * j + 2 \in 1 .. 3 * n
        /\ 3 * j + 3 \in 1 .. 3 * n
    BY <1>2
  <2>3. \A i \in 1 .. 3 * n :
          c[i] = Line(l[(i + 2) \div 3])[1 + ((i + 2) % 3)]
    BY <1>1
  <2>4. PICK p1, p2, p3 \in 1 .. 3 * n :
          p1 = 3 * j + 1 /\ p2 = 3 * j + 2 /\ p3 = 3 * j + 3
    BY <2>2
  <2>5. /\ (p1 + 2) \div 3 = j + 1 /\ 1 + ((p1 + 2) % 3) = 1
        /\ (p2 + 2) \div 3 = j + 1 /\ 1 + ((p2 + 2) % 3) = 2
        /\ (p3 + 2) \div 3 = j + 1 /\ 1 + ((p3 + 2) % 3) = 3
    BY <2>4, Thirds
  <2>6. /\ c[p1] = Line(l[j + 1])[1] /\ c[p2] = Line(l[j + 1])[2]
        /\ c[p3] = Line(l[j + 1])[3]
    BY <2>3, <2>5
  <2>7. QED
    BY <2>1, <2>4, <2>6, LineCell
<1>4. \A i \in 1 .. 3 * n : c[i] \in CellSet
  <2>1. TAKE i \in 1 .. 3 * n
  <2>2. PICK j \in 0 .. n - 1 : i = 3 * j + 1 \/ i = 3 * j + 2 \/ i = 3 * j + 3
    <3>1. (i - 1) \div 3 \in 0 .. n - 1
      BY <1>2
    <3>2. PICK j \in 0 .. n - 1 : j = (i - 1) \div 3
      BY <3>1
    <3>3. i = 3 * j + 1 \/ i = 3 * j + 2 \/ i = 3 * j + 3
      BY <3>2
    <3>4. QED
      BY <3>3
  <2>3. TextOf(a, j) \in CellSet
    BY <1>1, TextIs
  <2>4. QED
    BY <2>2, <2>3, <1>3 DEF CellSet
<1>5. c \in Seq(CellSet) /\ Len(c) = 3 * n
  <2>1. PICK m \in Nat : m = 3 * n
    BY <1>2
  <2>2. \A i \in 1 .. m : c[i] \in CellSet
    BY <2>1, <1>4
  <2>3. c = [i \in 1 .. m |-> c[i]]
    BY <1>1, <2>1
  <2>4. c \in [1 .. m -> CellSet]
    BY <2>2, <2>3
  <2>5. c \in Seq(CellSet)
    BY <2>4, FunctionIsSeq
  <2>6. 1 .. m = 1 .. Len(c) /\ Len(c) \in Nat
    BY <2>4, <2>5, LenProperties
  <2>7. Len(c) = m
    BY <2>1, <2>6, SameLength
  <2>8. QED
    BY <2>1, <2>5, <2>7
<1>6. QED
  BY <1>1, <1>3, <1>5 DEF IsLines

LEMMA WireIs ==
  ASSUME NEW a \in Asks, NEW w, w = Wire(a)
  PROVE  IsWire(w, a)
<1>1. PICK l : l = <<a.first>> \o a.headers
  OBVIOUS
<1>2. PICK n : n = Lines(a)
  OBVIOUS
<1>3. n \in Nat \ {0}
  BY <1>2, AskIs DEF Lines
<1>4. Len(l) = n
  <2>1. <<a.first>> \in Seq(Firsts \union Headers) /\ Len(<<a.first>>) = 1
    BY AskIs
  <2>2. a.headers \in Seq(Firsts \union Headers)
    BY AskIs, SeqMonotonic
  <2>3. QED
    BY <2>1, <2>2, <1>1, <1>2, ConcatProperties DEF Lines
<1>5. PICK c : c = [i \in 1 .. 3 * Lines(a) |->
                      Line(l[(i + 2) \div 3])[1 + ((i + 2) % 3)]]
  OBVIOUS
<1>6. IsLines(c, a)
  BY <1>1, <1>5, LinesAre
<1>7. PICK e, b : e = <<"CR", "LF">> /\ b = Body(a)
  OBVIOUS
<1>8. w = c \o e \o b
  BY <1>1, <1>2, <1>4, <1>5, <1>7 DEF Wire
<1>9. /\ c \in Seq(CellSet) /\ Len(c) = 3 * n
      /\ e \in Seq(CellSet) /\ Len(e) = 2 /\ e[1] = "CR" /\ e[2] = "LF"
      /\ b \in Seq(CellSet) /\ Len(b) \in Nat
  BY <1>2, <1>6, <1>7, BodyIs, LenProperties DEF IsLines, CellSet
<1>10. PICK ce : ce = c \o e
  OBVIOUS
<1>11. /\ ce \in Seq(CellSet) /\ Len(ce) = 3 * n + 2
       /\ \A i \in 1 .. 3 * n + 2 :
            ce[i] = IF i <= 3 * n THEN c[i] ELSE e[i - 3 * n]
  <2>1. PICK m \in Nat : m = 3 * n
    BY <1>3
  <2>2. Len(c) = m /\ Len(e) = 2
    BY <2>1, <1>9
  <2>3. /\ c \o e \in Seq(CellSet) /\ Len(c \o e) = m + 2
        /\ \A i \in 1 .. m + 2 :
             (c \o e)[i] = IF i <= m THEN c[i] ELSE e[i - m]
    <3>1. PICK k \in Nat : k = 2
      OBVIOUS
    <3>2. Len(e) = k
      BY <3>1, <2>2
    <3>3. /\ c \o e \in Seq(CellSet) /\ Len(c \o e) = m + k
          /\ \A i \in 1 .. m + k :
               (c \o e)[i] = IF i <= m THEN c[i] ELSE e[i - m]
      <4>1. c \in Seq(CellSet) /\ e \in Seq(CellSet) /\ Len(c) = m
        BY <2>2, <1>9
      <4>2. QED
        BY <4>1, <3>2, ConcatProperties
    <3>4. QED
      BY <3>1, <3>3
  <2>4. QED
    BY <2>1, <2>3, <1>10
<1>12. /\ w \in Seq(CellSet) /\ Len(w) = 3 * n + 2 + Len(b)
       /\ \A i \in 1 .. 3 * n + 2 + Len(b) :
            w[i] = IF i <= 3 * n + 2 THEN ce[i] ELSE b[i - (3 * n + 2)]
  <2>1. w = ce \o b
    BY <1>8, <1>10
  <2>2. PICK p \in Nat : p = 3 * n + 2
    BY <1>3
  <2>3. Len(ce) = p
    BY <2>2, <1>11
  <2>4. /\ ce \o b \in Seq(CellSet) /\ Len(ce \o b) = p + Len(b)
        /\ \A i \in 1 .. p + Len(b) :
             (ce \o b)[i] = IF i <= p THEN ce[i] ELSE b[i - p]
    <3>1. ce \in Seq(CellSet) /\ b \in Seq(CellSet)
      BY <1>9, <1>11
    <3>2. QED
      BY <3>1, <2>3, ConcatProperties
  <2>5. QED
    BY <2>1, <2>2, <2>4
<1>13. \A i \in 1 .. 3 * n : w[i] = c[i]
  BY <1>3, <1>9, <1>11, <1>12
<1>14. ASSUME NEW j \in 0 .. n - 1
       PROVE  /\ w[3 * j + 1] = TextOf(a, j)
              /\ w[3 * j + 2] = "CR" /\ w[3 * j + 3] = "LF"
  <2>1. PICK p1, p2, p3 \in 1 .. 3 * n :
          p1 = 3 * j + 1 /\ p2 = 3 * j + 2 /\ p3 = 3 * j + 3
    BY <1>3
  <2>2. c[p1] = TextOf(a, j) /\ c[p2] = "CR" /\ c[p3] = "LF"
    BY <2>1, <1>2, <1>6 DEF IsLines
  <2>3. w[p1] = c[p1] /\ w[p2] = c[p2] /\ w[p3] = c[p3]
    BY <1>13
  <2>4. QED
    BY <2>1, <2>2, <2>3
<1>15. w[3 * n + 1] = "CR" /\ w[3 * n + 2] = "LF"
  <2>1. PICK p1, p2 \in 1 .. 3 * n + 2 : p1 = 3 * n + 1 /\ p2 = 3 * n + 2
    BY <1>3
  <2>2. ce[p1] = e[1] /\ ce[p2] = e[2]
    BY <2>1, <1>3, <1>11
  <2>3. w[p1] = ce[p1] /\ w[p2] = ce[p2]
    BY <1>3, <1>9, <1>12
  <2>4. QED
    BY <2>1, <2>2, <2>3, <1>9
<1>16. ASSUME NEW j \in 0 .. n
       PROVE  w[EndOf(a, j) + 1] = "CR" /\ w[EndOf(a, j) + 2] = "LF"
  <2>1. CASE j < n
    <3>1. EndOf(a, j) + 1 = 3 * j + 2 /\ EndOf(a, j) + 2 = 3 * j + 3
      BY <2>1, <1>2 DEF EndOf
    <3>2. j \in 0 .. n - 1
      BY <2>1, <1>3
    <3>3. QED
      BY <3>1, <3>2, <1>14
  <2>2. CASE ~(j < n)
    <3>1. EndOf(a, j) + 1 = 3 * n + 1 /\ EndOf(a, j) + 2 = 3 * n + 2
      BY <2>2, <1>2 DEF EndOf
    <3>2. QED
      BY <3>1, <1>15
  <2>3. QED
    BY <2>1, <2>2
<1>17. ASSUME NEW i \in BodyStart(a) + 1 .. Len(w)
       PROVE  w[i] = "body"
  <2>1. i \in 3 * n + 3 .. 3 * n + 2 + Len(b)
    BY <1>2, <1>3, <1>12 DEF BodyStart
  <2>2. PICK k : k = i - (3 * n + 2)
    OBVIOUS
  <2>3. k \in 1 .. Len(b) /\ ~(i <= 3 * n + 2) /\ i \in 1 .. 3 * n + 2 + Len(b)
    BY <2>1, <2>2, <1>3, <1>9
  <2>4. w[i] = b[k]
    BY <2>2, <2>3, <1>12
  <2>5. QED
    BY <2>3, <2>4, <1>7, BodyIs
<1>18. QED
  BY <1>2, <1>7, <1>12, <1>14, <1>16, <1>17 DEF IsWire, BodyStart

-----------------------------------------------------------------------------
(* What parsing has done when it stands in a line, in the headers or in    *)
(* the body: s is m_start_line, c m_check_idx, k m_linger and n            *)
(* m_content_length.                                                       *)
Among(a, j, h) == \E i \in 1 .. j - 1 : a.headers[i] = h

LineAt(a, j, s, c) == s = 3 * j /\ c \in 3 * j .. EndOf(a, j)

HeaderAt(a, j, s, c, k, n) ==
  /\ LineAt(a, j, s, c)
  /\ k = Among(a, j, "keep")
  /\ n = IF Among(a, j, "length") THEN BodyLen ELSE 0

ContentAt(a, s, c, k, n) ==
  /\ s \in BodyStart(a) .. c
  /\ k = Contains(a.headers, "keep")
  /\ n = BodyLen
  /\ Contains(a.headers, "length")

(* What was read from s on is what was sent.                               *)
Whole(buf, s, w) == \A i \in s + 1 .. Len(buf) : buf[i] = w[i]

Parsing ==
  /\ Whole(m_read_buf, m_start_line, Wire(asked))
  /\ m_check_state = "LINE" =>
       /\ LineAt(asked, 0, m_start_line, m_check_idx)
       /\ m_linger = FALSE /\ m_content_length = 0
  /\ m_check_state # "LINE" => asked.first # "bad"
  /\ m_check_state = "HEADER" =>
       \E j \in 1 .. Lines(asked) :
         HeaderAt(asked, j, m_start_line, m_check_idx, m_linger,
                  m_content_length)
  /\ m_check_state = "CONTENT" =>
       ContentAt(asked, m_start_line, m_check_idx, m_linger,
                 m_content_length)

(* No cell is lost or made between the client and the buffer.              *)
Conserved ==
  /\ m_trig_model \in TrigModels /\ asked \in Asks
  /\ m_read_buf \in Seq(CellSet) /\ wire \in Seq(CellSet)
  /\ m_read_idx + Len(wire) = Len(Wire(asked))
  /\ ClosedOnlyWhenFull

Coming(q, r, w) == \A i \in 1 .. Len(q) : q[i] = w[r + i]

ParserInv ==
  /\ TypeOK /\ Conserved
  /\ Coming(wire, m_read_idx, Wire(asked))
  /\ pc \in {"epoll", "loop"} => Parsing
  /\ MeaningKept /\ DataIsBody

-----------------------------------------------------------------------------
LEMMA MinIs ==
  ASSUME NEW S, S \subseteq Int, NEW m \in S, \A x \in S : m <= x
  PROVE  Min(S) = m
<1>1. Min(S) \in S /\ \A y \in S : Min(S) <= y
  BY DEF Min
<1>2. PICK x \in S : x = Min(S)
  BY <1>1
<1>3. x <= m /\ m <= x /\ x \in Int /\ m \in Int
  BY <1>1, <1>2
<1>4. x = m
  BY <1>3
<1>5. QED
  BY <1>2, <1>4

LEMMA ExceptAny ==
  ASSUME NEW C, NEW s \in Seq(C), NEW x \in C, NEW i
  PROVE  /\ [s EXCEPT ![i] = x] \in Seq(C)
         /\ Len([s EXCEPT ![i] = x]) = Len(s)
         /\ \A j \in 1 .. Len(s) :
              [s EXCEPT ![i] = x][j] = IF j = i THEN x ELSE s[j]
<1>1. PICK m \in Nat : m = Len(s)
  BY LenProperties
<1>2. s \in [1 .. m -> C] /\ DOMAIN s = 1 .. m
  BY <1>1, LenProperties
<1>3. PICK t : t = [s EXCEPT ![i] = x]
  OBVIOUS
<1>4. t \in [1 .. m -> C] /\ DOMAIN t = 1 .. m
  BY <1>2, <1>3
<1>5. t \in Seq(C)
  BY <1>4, FunctionIsSeq
<1>6. 1 .. m = 1 .. Len(t) /\ Len(t) \in Nat
  BY <1>4, <1>5, LenProperties
<1>7. Len(t) = m
  BY <1>6, SameLength
<1>8. \A j \in 1 .. m : t[j] = IF j = i THEN x ELSE s[j]
  BY <1>2, <1>3
<1>9. QED
  BY <1>1, <1>3, <1>5, <1>7, <1>8

(* The end of a line overwritten.                                          *)
LEMMA TerminatedIs ==
  ASSUME m_read_buf \in Seq(CellSet), NEW e
  PROVE  /\ Terminated(e) \in Seq(CellSet)
         /\ Len(Terminated(e)) = m_read_idx
         /\ \A i \in 1 .. m_read_idx :
              Terminated(e)[i] = IF i = e + 1 \/ i = e + 2
                                 THEN "NUL" ELSE m_read_buf[i]
<1>1. PICK x, y : x = e + 1 /\ y = e + 2
  OBVIOUS
<1>2. PICK s : s = m_read_buf
  OBVIOUS
<1>3. PICK t : t = [s EXCEPT ![x] = "NUL"]
  OBVIOUS
<1>4. "NUL" \in CellSet
  BY DEF CellSet
<1>5. /\ t \in Seq(CellSet) /\ Len(t) = Len(s)
      /\ \A j \in 1 .. Len(s) : t[j] = IF j = x THEN "NUL" ELSE s[j]
  BY <1>2, <1>3, <1>4, ExceptAny
<1>6. PICK u : u = [t EXCEPT ![y] = "NUL"]
  OBVIOUS
<1>7. /\ u \in Seq(CellSet) /\ Len(u) = Len(t)
      /\ \A j \in 1 .. Len(t) : u[j] = IF j = y THEN "NUL" ELSE t[j]
  BY <1>4, <1>5, <1>6, ExceptAny
<1>8. u = Terminated(e)
  BY <1>1, <1>2, <1>3, <1>6 DEF Terminated
<1>9. \A j \in 1 .. Len(s) :
        u[j] = IF j = x \/ j = y THEN "NUL" ELSE s[j]
  BY <1>5, <1>7
<1>10. QED
  BY <1>1, <1>2, <1>5, <1>7, <1>8, <1>9 DEF m_read_idx

-----------------------------------------------------------------------------
(* Parsing overwrites cells and loses none.                                *)
LEMMA ScanKeeps ==
  ASSUME m_read_buf \in Seq(CellSet)
  PROVE  /\ NextLine.buf \in Seq(CellSet)
         /\ Len(NextLine.buf) = m_read_idx
<1>1. \E x : parse_line.buf = m_read_buf \/ parse_line.buf = Terminated(x)
  BY DEF parse_line, Scan
<1>2. PICK x : NextLine.buf = m_read_buf \/ NextLine.buf = Terminated(x)
  BY <1>1 DEF NextLine, Scan
<1>3. QED
  BY <1>2, TerminatedIs DEF m_read_idx

LEMMA PageKeeps ==
  ASSUME m_read_buf \in Seq(CellSet), NEW scan, scan = NextLine
  PROVE  /\ WithDefaultPage(scan) \in Seq(CellSet)
         /\ Len(WithDefaultPage(scan)) = m_read_idx
<1>1. PICK b : b = scan.buf
  OBVIOUS
<1>2. b \in Seq(CellSet) /\ Len(b) = m_read_idx
  BY <1>1, ScanKeeps
<1>3. PICK i : i = scan.idx + 1
  OBVIOUS
<1>4. "NUL" \in CellSet
  BY DEF CellSet
<1>5. /\ [b EXCEPT ![i] = "NUL"] \in Seq(CellSet)
      /\ Len([b EXCEPT ![i] = "NUL"]) = Len(b)
  BY <1>2, <1>4, ExceptAny
<1>6. WithDefaultPage(scan) \in {b, [b EXCEPT ![i] = "NUL"]}
  BY <1>1, <1>3 DEF WithDefaultPage
<1>7. QED
  BY <1>2, <1>5, <1>6

(* How much of what has arrived a read() takes.                            *)
LEMMA TakenIs ==
  ASSUME NEW r \in Nat, NEW n \in Nat, NEW k \in 1 .. n, r < BufferSize
  PROVE  Min({k, BufferSize - r}) \in 1 .. k
<1>1. BufferSize \in Nat
  BY ParserAssumption DEF ParserAssumption
<1>2. PICK d \in Nat \ {0} : d = BufferSize - r
  BY <1>1
<1>3. {k, d} \subseteq Int
  BY <1>2
<1>4. CASE k <= d
  <2>1. \A x \in {k, d} : k <= x
    BY <1>4, <1>2
  <2>2. Min({k, d}) = k
    BY <2>1, <1>3, MinIs
  <2>3. QED
    BY <2>2, <1>2
<1>5. CASE ~(k <= d)
  <2>1. \A x \in {k, d} : d <= x
    BY <1>5, <1>2
  <2>2. Min({k, d}) = d
    BY <2>1, <1>3, MinIs
  <2>3. QED
    BY <2>2, <1>2, <1>5
<1>6. QED
  BY <1>4, <1>5

LEMMA RoomIs ==
  ASSUME NEW k \in Nat, m_read_buf \in Seq(CellSet), m_trig_model \in TrigModels
  PROVE  /\ Room(k) => m_read_idx < BufferSize
         /\ ~Room(k) => m_read_idx + k >= BufferSize
<1>1. BufferSize \in Nat /\ m_read_idx \in Nat
  BY ParserAssumption, LenProperties DEF ParserAssumption, m_read_idx
<1>2. QED
  BY <1>1 DEF Room

(* The part of the wire a read() takes, and what it leaves.                *)
LEMMA Cutting ==
  ASSUME NEW q \in Seq(CellSet), NEW n \in Nat, n = Len(q), NEW t \in 0 .. n
  PROVE  /\ SubSeq(q, 1, t) \in Seq(CellSet) /\ Len(SubSeq(q, 1, t)) = t
         /\ \A i \in 1 .. t : SubSeq(q, 1, t)[i] = q[i]
         /\ SubSeq(q, t + 1, n) \in Seq(CellSet)
         /\ Len(SubSeq(q, t + 1, n)) = n - t
         /\ \A i \in 1 .. n - t : SubSeq(q, t + 1, n)[i] = q[t + i]
<1>1. \A i \in 1 .. n : q[i] \in CellSet
  BY ElementOfSeq
<1>2. /\ SubSeq(q, 1, t) \in Seq(CellSet) /\ Len(SubSeq(q, 1, t)) = t
      /\ \A i \in 1 .. t : SubSeq(q, 1, t)[i] = q[i]
  <2>1. \A i \in 1 .. t : q[i] \in CellSet
    BY <1>1
  <2>2. QED
    BY <2>1, SubSeqProperties
<1>3. PICK x : x = SubSeq(q, t + 1, n)
  OBVIOUS
<1>4. x \in Seq(CellSet) /\ Len(x) = n - t
  BY <1>1, <1>3, SubSeqProperties
<1>5. \A i \in 1 .. n - t : x[i] = q[t + i]
  BY <1>1, <1>3, SubSeqProperties
<1>6. QED
  BY <1>2, <1>3, <1>4, <1>5

LEMMA ArrivalsAre ==
  ASSUME Conserved, NEW k \in Arrivals
  PROVE  Len(wire) \in Nat /\ m_read_idx \in Nat /\ k \in 1 .. Len(wire)
  BY LenProperties DEF Conserved, Arrivals, m_read_idx

(* A read() that finds room moves cells from the wire to the buffer.       *)
Moved(t) ==
  /\ t \in 1 .. Len(wire)
  /\ m_read_buf' \in Seq(CellSet) /\ wire' \in Seq(CellSet)
  /\ m_read_idx' = m_read_idx + t /\ Len(wire') = Len(wire) - t
  /\ \A i \in 1 .. m_read_idx : m_read_buf'[i] = m_read_buf[i]
  /\ \A i \in 1 .. t : m_read_buf'[m_read_idx + i] = wire[i]
  /\ \A i \in 1 .. Len(wire) - t : wire'[i] = wire[t + i]

LEMMA ReadMoves ==
  ASSUME Conserved, NEW k \in Arrivals, Read(k), Room(k)
  PROVE  \E t \in Nat : Moved(t)
<1>1. PICK r, n \in Nat : r = m_read_idx /\ n = Len(wire)
  BY ArrivalsAre
<1>2. PICK q, b \in Seq(CellSet) : q = wire /\ b = m_read_buf
  BY DEF Conserved
<1>3. Len(q) = n /\ Len(b) = r
  BY <1>1, <1>2 DEF m_read_idx
<1>4. k \in 1 .. n /\ r < BufferSize
  BY <1>1, ArrivalsAre, RoomIs DEF Conserved
<1>5. PICK t \in 1 .. n : t = Min({k, BufferSize - r})
  BY <1>4, TakenIs
<1>6. PICK x, y : x = SubSeq(q, 1, t) /\ y = SubSeq(q, t + 1, n)
  OBVIOUS
<1>7. /\ x \in Seq(CellSet) /\ Len(x) = t /\ \A i \in 1 .. t : x[i] = q[i]
      /\ y \in Seq(CellSet) /\ Len(y) = n - t
      /\ \A i \in 1 .. n - t : y[i] = q[t + i]
  BY <1>3, <1>6, Cutting
<1>8. m_read_buf' = b \o x /\ wire' = y
  BY <1>1, <1>2, <1>5, <1>6 DEF Read
<1>9. /\ b \o x \in Seq(CellSet) /\ Len(b \o x) = r + t
      /\ \A i \in 1 .. r + t :
           (b \o x)[i] = IF i <= r THEN b[i] ELSE x[i - r]
  <2>1. t \in Nat /\ r \in Nat /\ Len(b) = r /\ Len(x) = t
    BY <1>1, <1>3, <1>5, <1>7
  <2>2. b \in Seq(CellSet) /\ x \in Seq(CellSet)
    BY <1>2, <1>7
  <2>3. QED
    BY <2>1, <2>2, ConcatProperties
<1>10. \A i \in 1 .. r : (b \o x)[i] = b[i]
  BY <1>9
<1>11. ASSUME NEW i \in 1 .. t
       PROVE  (b \o x)[r + i] = q[i]
  <2>1. PICK p \in 1 .. r + t : p = r + i
    OBVIOUS
  <2>2. ~(p <= r) /\ p - r = i
    BY <2>1
  <2>3. (b \o x)[p] = x[i]
    BY <2>2, <1>9
  <2>4. QED
    BY <2>1, <2>3, <1>7
<1>12. m_read_idx' = r + t
  BY <1>8, <1>9 DEF m_read_idx
<1>13. Moved(t)
  BY <1>1, <1>2, <1>7, <1>8, <1>9, <1>10, <1>11, <1>12 DEF Moved
<1>14. QED
  BY <1>13

LEMMA ParseKeeps ==
  ASSUME Conserved, Parse \/ UNCHANGED vars
  PROVE  /\ m_trig_model' = m_trig_model /\ asked' = asked /\ wire' = wire
         /\ m_read_buf' \in Seq(CellSet) /\ m_read_idx' = m_read_idx
<1>1. m_trig_model' = m_trig_model /\ asked' = asked /\ wire' = wire
  BY DEF Parse, LineNotOk, ParseRequestLine, ParseHeader, EndOfHeaders,
         ParseContent, given, vars
<1>2. m_read_buf' \in {m_read_buf, NextLine.buf, WithDefaultPage(NextLine)}
  BY DEF Parse, LineNotOk, ParseRequestLine, ParseHeader, EndOfHeaders,
         ParseContent, vars
<1>3. m_read_buf' \in Seq(CellSet) /\ m_read_idx' = m_read_idx
  BY <1>2, ScanKeeps, PageKeeps DEF Conserved, m_read_idx
<1>4. QED
  BY <1>1, <1>3

LEMMA ConservedStep ==
  ASSUME Conserved, [Next]_vars
  PROVE  Conserved'
<1>1. CASE \E k \in Arrivals : Read(k)
  <2>1. PICK k \in Arrivals : Read(k)
    BY <1>1
  <2>2. Len(wire) \in Nat /\ m_read_idx \in Nat /\ k \in 1 .. Len(wire)
    BY ArrivalsAre
  <2>3. given' = given
    BY <2>1 DEF Read
  <2>4. CASE Room(k)
    <3>1. PICK t \in Nat : Moved(t)
      BY <2>1, <2>4, ReadMoves
    <3>2. m_read_idx' + Len(wire') = m_read_idx + Len(wire)
      BY <3>1, <2>2 DEF Moved
    <3>3. pc' # "closed"
      BY <2>1, <2>4 DEF Read
    <3>4. QED
      BY <3>1, <3>2, <3>3, <2>3
      DEF Conserved, Moved, given, ClosedOnlyWhenFull
  <2>5. CASE ~Room(k)
    <3>1. m_read_idx + Len(wire) >= BufferSize
      <4>1. m_read_idx + k >= BufferSize
        BY <2>2, <2>5, RoomIs DEF Conserved
      <4>2. BufferSize \in Nat
        BY ParserAssumption DEF ParserAssumption
      <4>3. QED
        BY <4>1, <4>2, <2>2
    <3>2. m_read_buf' = m_read_buf /\ wire' = wire
      BY <2>1, <2>5 DEF Read
    <3>3. QED
      BY <3>1, <3>2, <2>3
      DEF Conserved, given, ClosedOnlyWhenFull, m_read_idx
  <2>6. QED
    BY <2>4, <2>5
<1>2. CASE Parse \/ UNCHANGED vars
  <2>1. pc' = pc \/ pc' # "closed"
    BY <1>2 DEF Parse, LineNotOk, ParseRequestLine, ParseHeader, EndOfHeaders,
                ParseContent, Finish, vars
  <2>2. QED
    BY <1>2, <2>1, ParseKeeps DEF Conserved, ClosedOnlyWhenFull
<1>3. QED
  BY <1>1, <1>2 DEF Next

LEMMA ConservedInit == Init => Conserved
<1>1. HAVE Init
<1>2. PICK w : w = Wire(asked)
  OBVIOUS
<1>3. asked \in Asks
  BY <1>1 DEF Init
<1>4. w \in Seq(CellSet) /\ Len(w) \in Nat
  BY <1>2, <1>3, WireIs, LenProperties DEF IsWire
<1>5. m_read_buf = <<>> /\ m_read_idx = 0 /\ wire = w
  BY <1>1, <1>2 DEF Init, m_read_idx
<1>6. QED
  BY <1>1, <1>2, <1>3, <1>4, <1>5 DEF Init, Conserved, ClosedOnlyWhenFull

(* A request that leaves room in the buffer is never refused for its       *)
(* length, whatever it asks and however it is cut (http_conn.cpp:241-289). *)
THEOREM RefusedOnlyWhenFull == Spec => []ClosedOnlyWhenFull
<1>1. Init => Conserved
  BY ConservedInit
<1>2. Conserved /\ [Next]_vars => Conserved'
  BY ConservedStep
<1>3. Conserved => ClosedOnlyWhenFull
  BY DEF Conserved
<1>4. QED
  BY <1>1, <1>2, <1>3, PTL DEF Spec

-----------------------------------------------------------------------------
(* parse_line() from within line j: it stops for want of data, or at the   *)
(* end of this line.                                                       *)
Stopped(scan, a, j) ==
  /\ scan.status = "OPEN" /\ scan.buf = m_read_buf
  /\ scan.idx \in 3 * j .. EndOf(a, j) /\ scan.idx <= m_read_idx

Ended(scan, a, j) ==
  /\ scan = Scan("OK", EndOf(a, j) + 2, Terminated(EndOf(a, j)))
  /\ EndOf(a, j) + 2 <= m_read_idx

InLine(a, j) ==
  /\ m_read_buf \in Seq(CellSet) /\ m_read_idx <= Len(Wire(a))
  /\ LineAt(a, j, m_start_line, m_check_idx) /\ m_check_idx <= m_read_idx
  /\ Whole(m_read_buf, m_start_line, Wire(a))

LEMMA EndIs ==
  ASSUME NEW a \in Asks, NEW j \in 0 .. Lines(a)
  PROVE  /\ Lines(a) \in Nat \ {0} /\ EndOf(a, j) \in Nat
         /\ \/ j < Lines(a) /\ EndOf(a, j) = 3 * j + 1
            \/ j = Lines(a) /\ EndOf(a, j) = 3 * j
<1>1. Lines(a) \in Nat \ {0}
  BY AskIs DEF Lines
<1>2. QED
  BY <1>1 DEF EndOf

(* The cells of a line before and at its end.                              *)
LEMMA LineCells ==
  ASSUME NEW a \in Asks, NEW j \in 0 .. Lines(a), InLine(a, j),
         NEW e, e = EndOf(a, j)
  PROVE  /\ \A i \in m_check_idx .. m_read_idx - 1 :
              i < e => Cell(m_read_buf, i) \notin {"CR", "LF"}
         /\ e < m_read_idx => Cell(m_read_buf, e) = "CR"
         /\ e + 1 < m_read_idx => Cell(m_read_buf, e + 1) = "LF"
<1>1. PICK b : b = m_read_buf
  OBVIOUS
<1>2. PICK w : w = Wire(a)
  OBVIOUS
<1>3. PICK r \in Nat : r = Len(b) /\ r = m_read_idx
  BY <1>1, LenProperties DEF InLine, m_read_idx
<1>4. IsWire(w, a)
  BY <1>2, WireIs
<1>5. /\ Lines(a) \in Nat \ {0} /\ e \in Nat
      /\ \/ j < Lines(a) /\ e = 3 * j + 1
         \/ j = Lines(a) /\ e = 3 * j
  BY EndIs
<1>6. /\ \A i \in 3 * j + 1 .. r : b[i] = w[i]
      /\ m_check_idx \in 3 * j .. e
  BY <1>1, <1>2, <1>3 DEF InLine, LineAt, Whole
<1>7. ASSUME NEW i \in m_check_idx .. r - 1, i < e
      PROVE  b[i + 1] \notin {"CR", "LF"}
  <2>1. i = 3 * j /\ j \in 0 .. Lines(a) - 1
    BY <1>5, <1>6, <1>7
  <2>2. 3 * j + 1 \in 3 * j + 1 .. r
    BY <2>1, <1>3, <1>7
  <2>3. b[3 * j + 1] = w[3 * j + 1]
    BY <2>2, <1>6
  <2>4. w[3 * j + 1] = TextOf(a, j)
    BY <2>1, <1>4 DEF IsWire
  <2>5. QED
    BY <2>1, <2>3, <2>4, TextIs
<1>8. w[e + 1] = "CR" /\ w[e + 2] = "LF"
  BY <1>4 DEF IsWire
<1>9. ASSUME e < r PROVE b[e + 1] = "CR"
  <2>1. e + 1 \in 3 * j + 1 .. r
    BY <1>3, <1>5, <1>9
  <2>2. QED
    BY <2>1, <1>6, <1>8
<1>10. ASSUME e + 1 < r PROVE b[(e + 1) + 1] = "LF"
  <2>1. e + 2 \in 3 * j + 1 .. r /\ (e + 1) + 1 = e + 2
    BY <1>3, <1>5, <1>10
  <2>2. QED
    BY <2>1, <1>6, <1>8
<1>11. QED
  BY <1>1, <1>3, <1>7, <1>9, <1>10 DEF Cell

LEMMA ScanLine ==
  ASSUME NEW a \in Asks, NEW j \in 0 .. Lines(a), InLine(a, j)
  PROVE  Stopped(parse_line, a, j) \/ Ended(parse_line, a, j)
<1>1. PICK e \in Nat : e = EndOf(a, j)
  BY EndIs
<1>2. PICK r \in Nat : r = m_read_idx
  BY LenProperties DEF InLine, m_read_idx
<1>3. PICK c \in 3 * j .. e : c = m_check_idx /\ c <= r
  BY <1>1, <1>2 DEF InLine, LineAt
<1>4. PICK S : S = {i \in c .. r - 1 : Cell(m_read_buf, i) \in {"CR", "LF"}}
  OBVIOUS
<1>5. /\ \A i \in c .. r - 1 : i < e => Cell(m_read_buf, i) \notin {"CR", "LF"}
      /\ e < r => Cell(m_read_buf, e) = "CR"
      /\ e + 1 < r => Cell(m_read_buf, e + 1) = "LF"
  BY <1>1, <1>2, <1>3, LineCells
<1>6. CASE r <= e
  <2>1. S = {}
    BY <1>4, <1>5, <1>6
  <2>2. parse_line = Scan("OPEN", r, m_read_buf)
    BY <2>1, <1>2, <1>3, <1>4 DEF parse_line
  <2>3. r \in 3 * j .. e
    BY <1>3, <1>6
  <2>4. QED
    BY <2>2, <2>3, <1>1, <1>2 DEF Stopped, Scan
<1>7. CASE ~(r <= e)
  <2>1. e \in S
    BY <1>3, <1>4, <1>5, <1>7
  <2>2. S \subseteq Int /\ \A i \in S : e <= i
    BY <1>3, <1>4, <1>5
  <2>3. Min(S) = e
    BY <2>1, <2>2, MinIs
  <2>4. Cell(m_read_buf, e) = "CR"
    BY <1>5, <1>7
  <2>5. parse_line = IF e + 1 = r
                     THEN Scan("OPEN", e, m_read_buf)
                     ELSE IF Cell(m_read_buf, e + 1) = "LF"
                          THEN Scan("OK", e + 2, Terminated(e))
                          ELSE Scan("BAD", e, m_read_buf)
    <3>1. S # {}
      BY <2>1
    <3>2. QED
      BY <3>1, <2>3, <2>4, <1>2, <1>3, <1>4 DEF parse_line
  <2>6. CASE e + 1 = r
    <3>1. parse_line = Scan("OPEN", e, m_read_buf)
      BY <2>5, <2>6
    <3>2. e \in 3 * j .. e /\ e <= r
      BY <1>3, <2>6
    <3>3. QED
      BY <3>1, <3>2, <1>1, <1>2 DEF Stopped, Scan
  <2>7. CASE e + 1 # r
    <3>1. e + 1 < r
      BY <2>7, <1>7
    <3>2. parse_line = Scan("OK", e + 2, Terminated(e))
      BY <3>1, <2>5, <2>7, <1>5
    <3>3. e + 2 <= r
      BY <3>1
    <3>4. QED
      BY <3>2, <3>3, <1>1, <1>2 DEF Ended
  <2>8. QED
    BY <2>6, <2>7
<1>8. QED
  BY <1>6, <1>7

(* A line that ended: its text, and the rest of the buffer as it was.      *)
LEMMA EndedIs ==
  ASSUME NEW a \in Asks, NEW j \in 0 .. Lines(a), InLine(a, j),
         NEW scan, Ended(scan, a, j)
  PROVE  /\ scan.status = "OK"
         /\ scan.idx = IF j < Lines(a) THEN 3 * (j + 1) ELSE BodyStart(a)
         /\ scan.idx <= m_read_idx
         /\ scan.buf \in Seq(CellSet) /\ Len(scan.buf) = m_read_idx
         /\ j < Lines(a) => Cell(scan.buf, m_start_line) = TextOf(a, j)
         /\ j = Lines(a) => Cell(scan.buf, m_start_line) = "NUL"
         /\ Whole(scan.buf, scan.idx, Wire(a))
<1>1. PICK e \in Nat : e = EndOf(a, j)
  BY EndIs
<1>2. PICK w : w = Wire(a)
  OBVIOUS
<1>3. PICK r \in Nat : r = m_read_idx
  BY LenProperties DEF InLine, m_read_idx
<1>4. PICK t : t = Terminated(e)
  OBVIOUS
<1>5. scan.status = "OK" /\ scan.idx = e + 2 /\ scan.buf = t /\ e + 2 <= r
  BY <1>1, <1>3, <1>4 DEF Ended, Scan
<1>6. /\ t \in Seq(CellSet) /\ Len(t) = r
      /\ \A i \in 1 .. r :
           t[i] = IF i = e + 1 \/ i = e + 2 THEN "NUL" ELSE m_read_buf[i]
  BY <1>3, <1>4, TerminatedIs DEF InLine
<1>7. /\ Lines(a) \in Nat \ {0}
      /\ \/ j < Lines(a) /\ e = 3 * j + 1
         \/ j = Lines(a) /\ e = 3 * j
  BY <1>1, EndIs
<1>8. m_start_line = 3 * j /\ \A i \in 3 * j + 1 .. r : m_read_buf[i] = w[i]
  BY <1>2, <1>3 DEF InLine, LineAt, Whole, m_read_idx
<1>9. e + 2 = IF j < Lines(a) THEN 3 * (j + 1) ELSE BodyStart(a)
  BY <1>7 DEF BodyStart
<1>10. ASSUME j < Lines(a)
       PROVE  t[m_start_line + 1] = TextOf(a, j)
  <2>1. PICK i \in 3 * j + 1 .. r : i = 3 * j + 1
    BY <1>5, <1>7, <1>10
  <2>2. m_read_buf[i] = w[i]
    BY <1>8
  <2>3. i \in 1 .. r /\ i # e + 1 /\ i # e + 2
    BY <2>1, <1>7, <1>10
  <2>4. t[i] = m_read_buf[i]
    BY <2>3, <1>6
  <2>5. w[i] = TextOf(a, j)
    <3>1. j \in 0 .. Lines(a) - 1
      BY <1>7, <1>10
    <3>2. IsWire(w, a)
      BY <1>2, WireIs
    <3>3. QED
      BY <3>1, <3>2, <2>1 DEF IsWire
  <2>6. QED
    BY <2>1, <2>2, <2>4, <2>5, <1>8
<1>11. ASSUME j = Lines(a)
       PROVE  t[m_start_line + 1] = "NUL"
  <2>1. m_start_line + 1 = e + 1 /\ e + 1 \in 1 .. r
    BY <1>3, <1>5, <1>7, <1>8, <1>11
  <2>2. QED
    BY <2>1, <1>6
<1>12. ASSUME NEW i \in e + 3 .. r
       PROVE  t[i] = w[i]
  <2>1. i \in 1 .. r /\ i # e + 1 /\ i # e + 2 /\ i \in 3 * j + 1 .. r
    BY <1>7
  <2>2. QED
    BY <2>1, <1>6, <1>8
<1>13. Whole(scan.buf, scan.idx, Wire(a))
  BY <1>2, <1>5, <1>6, <1>12 DEF Whole
<1>14. QED
  BY <1>3, <1>5, <1>6, <1>9, <1>10, <1>11, <1>13 DEF Cell

-----------------------------------------------------------------------------
(* Where parsing stands under the invariant.                               *)
LEMMA Bounds ==
  ASSUME ParserInv, pc \in {"epoll", "loop"}
  PROVE  /\ asked \in Asks /\ Parsing
         /\ m_read_idx \in Nat /\ m_check_idx \in 0 .. m_read_idx
         /\ m_start_line \in 0 .. m_check_idx
         /\ m_read_buf \in Seq(CellSet)
         /\ m_read_idx <= Len(Wire(asked))
<1>1. Conserved /\ TypeOK /\ Parsing
  BY DEF ParserInv
<1>2. m_read_idx \in Nat /\ Len(wire) \in Nat
  BY <1>1, LenProperties DEF Conserved, m_read_idx
<1>3. QED
  BY <1>1, <1>2 DEF Conserved, TypeOK

LEMMA InFirstLine ==
  ASSUME ParserInv, pc \in {"epoll", "loop"}, m_check_state = "LINE"
  PROVE  0 \in 0 .. Lines(asked) /\ InLine(asked, 0)
<1>1. Lines(asked) \in Nat
  BY Bounds, AskIs DEF Lines
<1>2. LineAt(asked, 0, m_start_line, m_check_idx)
  BY Bounds DEF Parsing
<1>3. InLine(asked, 0)
  <2>1. Whole(m_read_buf, m_start_line, Wire(asked))
    BY Bounds DEF Parsing
  <2>2. m_check_idx <= m_read_idx
    BY Bounds
  <2>3. QED
    BY <1>2, <2>1, <2>2, Bounds DEF InLine
<1>4. QED
  BY <1>1, <1>3

LEMMA InHeaders ==
  ASSUME ParserInv, pc \in {"epoll", "loop"}, m_check_state = "HEADER"
  PROVE  \E j \in 1 .. Lines(asked) :
           /\ j \in 0 .. Lines(asked) /\ InLine(asked, j)
           /\ HeaderAt(asked, j, m_start_line, m_check_idx, m_linger,
                       m_content_length)
<1>1. Lines(asked) \in Nat
  BY Bounds, AskIs DEF Lines
<1>2. PICK j \in 1 .. Lines(asked) :
        HeaderAt(asked, j, m_start_line, m_check_idx, m_linger,
                 m_content_length)
  BY Bounds DEF Parsing
<1>3. InLine(asked, j)
  BY <1>2, Bounds DEF Parsing, InLine, HeaderAt
<1>4. QED
  BY <1>1, <1>2, <1>3

(* The cells of the body hold no end of a line.                            *)
LEMMA BodyScan ==
  ASSUME ParserInv, pc \in {"epoll", "loop"}, m_check_state = "CONTENT"
  PROVE  NextLine = IF line_status = "OK"
                    THEN Scan("OK", m_check_idx, m_read_buf)
                    ELSE Scan("OPEN", m_read_idx, m_read_buf)
<1>1. PICK w : w = Wire(asked)
  OBVIOUS
<1>2. PICK n \in Nat : n = BodyStart(asked)
  BY Bounds, AskIs DEF BodyStart, Lines
<1>3. IsWire(w, asked)
  BY <1>1, Bounds, WireIs
<1>4. PICK c, s \in Nat : c = m_check_idx /\ s = m_start_line
  BY Bounds
<1>5. n <= s /\ s <= c
  BY <1>2, <1>4, Bounds DEF Parsing, ContentAt
<1>6. PICK r \in Nat : r = m_read_idx /\ r <= Len(w) /\ Len(w) \in Nat
  BY <1>1, <1>3, Bounds, LenProperties DEF IsWire
<1>7. \A i \in s + 1 .. r : m_read_buf[i] = w[i]
  BY <1>1, <1>4, <1>6, Bounds DEF Parsing, Whole, m_read_idx
<1>8. \A i \in n + 1 .. Len(w) : w[i] = "body"
  BY <1>2, <1>3 DEF IsWire
<1>9. ASSUME NEW i \in c .. r - 1
      PROVE  Cell(m_read_buf, i) \notin {"CR", "LF"}
  <2>1. PICK k \in s + 1 .. r : k = i + 1
    BY <1>5
  <2>2. k \in n + 1 .. Len(w)
    BY <1>5, <1>6
  <2>3. m_read_buf[k] = "body"
    BY <2>2, <1>7, <1>8
  <2>4. QED
    BY <2>1, <2>3 DEF Cell
<1>10. parse_line = Scan("OPEN", m_read_idx, m_read_buf)
  <2>1. {i \in m_check_idx .. m_read_idx - 1 :
           Cell(m_read_buf, i) \in {"CR", "LF"}} = {}
    BY <1>4, <1>6, <1>9
  <2>2. QED
    BY <2>1 DEF parse_line
<1>11. QED
  BY <1>10 DEF NextLine

-----------------------------------------------------------------------------
(* One lemma for each action.                                              *)
LEMMA ReadStep ==
  ASSUME ParserInv, NEW k \in Arrivals, Read(k)
  PROVE  ParserInv'
<1>1. Conserved'
  <2>1. Conserved /\ [Next]_vars
    BY DEF ParserInv, Next
  <2>2. QED
    BY <2>1, ConservedStep
<1>2. /\ asked' = asked /\ m_trig_model' = m_trig_model
      /\ m_check_idx' = m_check_idx /\ m_start_line' = m_start_line
      /\ m_check_state' = m_check_state
      /\ m_content_length' = m_content_length /\ m_linger' = m_linger
      /\ m_resquest_data' = m_resquest_data /\ ret' = ret
      /\ pc = "epoll"
  BY DEF Read, given
<1>3. /\ TypeOK /\ Parsing /\ m_read_idx \in Nat /\ m_start_line \in Nat
      /\ Conserved
  BY <1>2, Bounds DEF ParserInv
<1>4. CASE Room(k)
  <2>1. PICK t \in Nat : Moved(t)
    BY <1>3, <1>4, ReadMoves
  <2>2. PICK r \in Nat : r = m_read_idx
    BY <1>3
  <2>3. PICK n \in Nat : n = Len(wire) /\ t \in 1 .. n
    BY <2>1, <1>3, LenProperties DEF Moved, Conserved
  <2>4. m_read_idx' = r + t /\ Len(m_read_buf') = r + t
    BY <2>1, <2>2 DEF Moved, m_read_idx
  <2>5. PICK w : w = Wire(asked) /\ w = Wire(asked')
    BY <1>2
  <2>6. \A i \in 1 .. n : wire[i] = w[r + i]
    BY <2>2, <2>3, <2>5 DEF ParserInv, Coming
  <2>7. Coming(wire', m_read_idx', Wire(asked'))
    <3>1. ASSUME NEW i \in 1 .. n - t
          PROVE  wire'[i] = w[(r + t) + i]
      <4>1. PICK p \in 1 .. n : p = t + i /\ r + p = (r + t) + i
        BY <2>3
      <4>2. wire'[i] = wire[p]
        BY <4>1, <2>1, <2>3 DEF Moved
      <4>3. QED
        BY <4>1, <4>2, <2>6
    <3>2. Len(wire') = n - t
      BY <2>1, <2>3 DEF Moved
    <3>3. QED
      BY <3>1, <3>2, <2>4, <2>5 DEF Coming
  <2>8. Whole(m_read_buf', m_start_line', Wire(asked'))
    <3>1. \A i \in m_start_line + 1 .. r : m_read_buf[i] = w[i]
      BY <1>3, <2>2, <2>5 DEF Parsing, Whole, m_read_idx
    <3>2. ASSUME NEW i \in m_start_line + 1 .. r + t
          PROVE  m_read_buf'[i] = w[i]
      <4>1. CASE i <= r
        <5>1. i \in 1 .. r /\ i \in m_start_line + 1 .. r
          BY <4>1, <1>3
        <5>2. m_read_buf'[i] = m_read_buf[i]
          BY <5>1, <2>1, <2>2 DEF Moved
        <5>3. QED
          BY <5>1, <5>2, <3>1
      <4>2. CASE ~(i <= r)
        <5>1. PICK p \in 1 .. t : i = r + p
          <6>1. i - r \in 1 .. t /\ i = r + (i - r)
            BY <4>2, <1>3
          <6>2. QED
            BY <6>1
        <5>2. m_read_buf'[i] = wire[p]
          BY <5>1, <2>1, <2>2 DEF Moved
        <5>3. p \in 1 .. n
          BY <2>3
        <5>4. QED
          BY <5>1, <5>2, <5>3, <2>6
      <4>3. QED
        BY <4>1, <4>2
    <3>3. QED
      BY <3>2, <2>4, <2>5, <1>2 DEF Whole
  <2>9. pc' = "loop" /\ line_status' = "OK"
    BY <1>4 DEF Read
  <2>10. Parsing'
    BY <2>8, <1>2, <1>3 DEF Parsing
  <2>11. TypeOK'
    <3>1. \A i \in 0 .. m_read_idx : i \in 0 .. m_read_idx'
      BY <2>2, <2>4
    <3>2. QED
      BY <3>1, <1>2, <1>3, <2>9 DEF TypeOK
  <2>12. QED
    BY <1>1, <2>7, <2>9, <2>10, <2>11 DEF ParserInv, MeaningKept, DataIsBody
<1>5. CASE ~Room(k)
  <2>1. /\ m_read_buf' = m_read_buf /\ wire' = wire
        /\ line_status' = line_status /\ pc' = "closed"
    BY <1>5 DEF Read
  <2>2. TypeOK'
    BY <2>1, <1>2, <1>3 DEF TypeOK, m_read_idx
  <2>3. Coming(wire', m_read_idx', Wire(asked'))
    BY <2>1, <1>2 DEF ParserInv, m_read_idx
  <2>4. QED
    BY <1>1, <2>1, <2>2, <2>3 DEF ParserInv, MeaningKept, DataIsBody
<1>6. QED
  BY <1>4, <1>5

(* What every step of process_read() leaves alone.                         *)
LEMMA ParseFrame ==
  ASSUME ParserInv, Parse
  PROVE  /\ asked' = asked /\ m_trig_model' = m_trig_model
         /\ m_read_idx' = m_read_idx /\ Conserved'
         /\ Coming(wire', m_read_idx', Wire(asked'))
<1>1. Conserved'
  <2>1. Conserved /\ [Next]_vars
    BY DEF ParserInv, Next
  <2>2. QED
    BY <2>1, ConservedStep
<1>2. /\ m_trig_model' = m_trig_model /\ asked' = asked /\ wire' = wire
      /\ m_read_idx' = m_read_idx
  BY ParseKeeps DEF ParserInv
<1>3. QED
  BY <1>1, <1>2 DEF ParserInv

LEMMA LineNotOkStep ==
  ASSUME ParserInv, LineNotOk
  PROVE  ParserInv'
<1>1. /\ pc = "loop" /\ NextLine.status # "OK"
      /\ m_check_idx' = NextLine.idx /\ line_status' = NextLine.status
      /\ ret' = "NO_REQUEST" /\ pc' = "epoll"
      /\ m_read_buf' = m_read_buf /\ m_start_line' = m_start_line
      /\ m_check_state' = m_check_state
      /\ m_content_length' = m_content_length /\ m_linger' = m_linger
      /\ m_resquest_data' = m_resquest_data
  BY DEF LineNotOk
<1>2. /\ asked' = asked /\ m_trig_model' = m_trig_model
      /\ m_read_idx' = m_read_idx /\ Conserved'
      /\ Coming(wire', m_read_idx', Wire(asked'))
  BY ParseFrame DEF Parse
<1>3. /\ asked \in Asks /\ Parsing /\ m_read_idx \in Nat
      /\ m_check_idx \in 0 .. m_read_idx /\ m_start_line \in 0 .. m_check_idx
  BY <1>1, Bounds
<1>4. PICK r, s \in Nat : r = m_read_idx /\ s = m_start_line
  BY <1>3
<1>5. ASSUME m_check_state # "CONTENT",
             NEW j \in 0 .. Lines(asked), InLine(asked, j)
      PROVE  /\ m_check_idx' \in s .. r /\ line_status' = "OPEN"
             /\ LineAt(asked, j, m_start_line, m_check_idx')
  <2>1. NextLine = parse_line
    BY <1>5 DEF NextLine
  <2>2. Stopped(NextLine, asked, j)
    BY <2>1, <1>1, <1>3, <1>5, ScanLine DEF Ended, Scan
  <2>3. s = 3 * j /\ EndOf(asked, j) \in Nat
    BY <1>3, <1>4, <1>5, EndIs DEF InLine, LineAt
  <2>4. QED
    BY <2>2, <2>3, <1>1, <1>4 DEF Stopped, LineAt
<1>6. /\ m_check_idx' \in s .. r /\ line_status' = "OPEN" /\ Parsing'
  <2>1. Whole(m_read_buf', m_start_line', Wire(asked'))
    BY <1>1, <1>2, <1>3 DEF Parsing
  <2>2. CASE m_check_state = "LINE"
    <3>1. 0 \in 0 .. Lines(asked) /\ InLine(asked, 0)
      BY <1>1, <2>2, InFirstLine
    <3>2. /\ m_check_idx' \in s .. r /\ line_status' = "OPEN"
          /\ LineAt(asked, 0, m_start_line, m_check_idx')
      BY <3>1, <2>2, <1>5
    <3>3. QED
      BY <3>2, <2>1, <2>2, <1>1, <1>2, <1>3 DEF Parsing
  <2>3. CASE m_check_state = "HEADER"
    <3>1. PICK j \in 1 .. Lines(asked) :
            /\ j \in 0 .. Lines(asked) /\ InLine(asked, j)
            /\ HeaderAt(asked, j, m_start_line, m_check_idx, m_linger,
                        m_content_length)
      BY <1>1, <2>3, InHeaders
    <3>2. /\ m_check_idx' \in s .. r /\ line_status' = "OPEN"
          /\ LineAt(asked, j, m_start_line, m_check_idx')
      BY <3>1, <2>3, <1>5
    <3>3. HeaderAt(asked', j, m_start_line', m_check_idx', m_linger',
                   m_content_length')
      BY <3>1, <3>2, <1>1, <1>2 DEF HeaderAt
    <3>4. QED
      BY <3>2, <3>3, <2>1, <2>3, <1>1, <1>2, <1>3 DEF Parsing
  <2>4. CASE m_check_state = "CONTENT"
    <3>1. m_check_idx' = r /\ line_status' = "OPEN"
      BY <2>4, <1>1, <1>4, BodyScan DEF Scan
    <3>2. ContentAt(asked, m_start_line, m_check_idx, m_linger,
                    m_content_length)
      BY <2>4, <1>3 DEF Parsing
    <3>3. BodyStart(asked) \in Nat
      BY <1>3, AskIs DEF BodyStart, Lines
    <3>4. s <= r
      BY <1>3, <1>4
    <3>5. ContentAt(asked', m_start_line', m_check_idx', m_linger',
                    m_content_length')
      BY <3>1, <3>2, <3>3, <3>4, <1>1, <1>2, <1>4 DEF ContentAt
    <3>6. QED
      BY <3>1, <3>4, <3>5, <2>1, <2>4, <1>1, <1>2, <1>3, <1>4 DEF Parsing
  <2>5. QED
    BY <2>2, <2>3, <2>4 DEF ParserInv, TypeOK
<1>7. TypeOK'
  <2>1. m_check_idx' \in 0 .. m_read_idx' /\ m_start_line' \in 0 .. m_check_idx'
    BY <1>1, <1>2, <1>4, <1>6
  <2>2. QED
    BY <2>1, <1>1, <1>2, <1>6 DEF ParserInv, TypeOK
<1>8. QED
  BY <1>1, <1>2, <1>6, <1>7 DEF ParserInv, MeaningKept, DataIsBody

(* A step that ends line j leaves parsing at the start of what follows.    *)
LEMMA LineDone ==
  ASSUME ParserInv, pc = "loop", m_check_state # "CONTENT",
         NEW j \in 0 .. Lines(asked), InLine(asked, j),
         NextLine.status = "OK", NEW next,
         next = IF j < Lines(asked) THEN 3 * (j + 1) ELSE BodyStart(asked)
  PROVE  /\ NextLine.idx = next /\ next \in 0 .. m_read_idx
         /\ j < Lines(asked) =>
              Cell(NextLine.buf, m_start_line) = TextOf(asked, j)
         /\ j = Lines(asked) => Cell(NextLine.buf, m_start_line) = "NUL"
         /\ Whole(NextLine.buf, next, Wire(asked))
<1>1. NextLine = parse_line /\ asked \in Asks
  BY Bounds DEF NextLine
<1>2. Ended(NextLine, asked, j)
  BY <1>1, ScanLine DEF Stopped
<1>3. next \in Nat
  BY <1>1, EndIs DEF BodyStart
<1>4. QED
  BY <1>1, <1>2, <1>3, EndedIs

LEMMA ParseRequestLineStep ==
  ASSUME "root" \notin Firsts, ParserInv, ParseRequestLine
  PROVE  ParserInv'
<1>1. PICK scan : scan = NextLine
  OBVIOUS
<1>2. /\ pc = "loop" /\ m_check_state = "LINE" /\ scan.status = "OK"
      /\ m_check_idx' = scan.idx /\ m_start_line' = scan.idx
      /\ line_status' = "OK"
      /\ m_content_length' = m_content_length /\ m_linger' = m_linger
      /\ m_resquest_data' = m_resquest_data
  BY <1>1 DEF ParseRequestLine, Advance
<1>3. /\ asked' = asked /\ m_trig_model' = m_trig_model
      /\ m_read_idx' = m_read_idx /\ Conserved'
      /\ Coming(wire', m_read_idx', Wire(asked'))
  BY ParseFrame DEF Parse
<1>4. /\ asked \in Asks /\ Parsing /\ m_read_idx \in Nat
      /\ 0 \in 0 .. Lines(asked) /\ InLine(asked, 0)
  BY <1>2, Bounds, InFirstLine
<1>5. Lines(asked) \in Nat \ {0}
  BY <1>4, AskIs DEF Lines
<1>6. /\ scan.idx = 3 /\ 3 \in 0 .. m_read_idx
      /\ Cell(scan.buf, m_start_line) = asked.first
      /\ Whole(scan.buf, 3, Wire(asked))
  <2>1. 0 < Lines(asked) /\ 3 * (0 + 1) = 3
    BY <1>5
  <2>2. /\ NextLine.idx = 3 /\ 3 \in 0 .. m_read_idx
        /\ Cell(NextLine.buf, m_start_line) = TextOf(asked, 0)
        /\ Whole(NextLine.buf, 3, Wire(asked))
    BY <2>1, <1>1, <1>2, <1>4, LineDone
  <2>3. QED
    BY <2>2, <1>1 DEF TextOf
<1>7. asked.first # "root"
  BY <1>4, AskIs
<1>8. /\ m_linger = FALSE /\ m_content_length = 0 /\ TypeOK
  BY <1>2, <1>4 DEF Parsing, ParserInv
<1>9. /\ m_check_idx' \in 0 .. m_read_idx' /\ m_start_line' \in 0 .. m_check_idx'
  BY <1>2, <1>3, <1>6
<1>10. CASE asked.first = "bad"
  <2>1. /\ ret' = "BAD_REQUEST" /\ pc' = "done"
        /\ m_check_state' = m_check_state
    BY <1>1, <1>6, <1>10 DEF ParseRequestLine, Finish
  <2>2. TypeOK'
    BY <2>1, <1>2, <1>3, <1>8, <1>9 DEF TypeOK
  <2>3. QED
    BY <2>1, <2>2, <1>3, <1>10 DEF ParserInv, MeaningKept, DataIsBody
<1>11. CASE asked.first # "bad"
  <2>1. /\ ret' = ret /\ pc' = pc /\ m_check_state' = "HEADER"
        /\ m_read_buf' = scan.buf
    BY <1>1, <1>6, <1>7, <1>11 DEF ParseRequestLine
  <2>2. TypeOK'
    BY <2>1, <1>2, <1>3, <1>8, <1>9 DEF TypeOK
  <2>3. HeaderAt(asked, 1, 3, 3, FALSE, 0)
    <3>1. 1 \in 0 .. Lines(asked)
      BY <1>5
    <3>2. EndOf(asked, 1) \in Nat /\ EndOf(asked, 1) >= 3
      BY <3>1, <1>4, EndIs
    <3>3. LineAt(asked, 1, 3, 3)
      BY <3>2 DEF LineAt
    <3>4. ~Among(asked, 1, "keep") /\ ~Among(asked, 1, "length")
      BY DEF Among
    <3>5. QED
      BY <3>3, <3>4 DEF HeaderAt
  <2>4. 1 \in 1 .. Lines(asked)
    BY <1>5
  <2>5. HeaderAt(asked', 1, m_start_line', m_check_idx', m_linger',
                 m_content_length')
    BY <2>3, <1>2, <1>3, <1>6, <1>8
  <2>6. Whole(m_read_buf', m_start_line', Wire(asked'))
    BY <2>1, <1>2, <1>3, <1>6
  <2>7. Parsing'
    BY <2>1, <2>4, <2>5, <2>6, <1>3, <1>11 DEF Parsing
  <2>8. QED
    BY <2>1, <2>2, <2>7, <1>2, <1>3 DEF ParserInv, MeaningKept, DataIsBody
<1>12. QED
  BY <1>10, <1>11

(* One more header is among those that have been read.                     *)
LEMMA OneMore ==
  ASSUME NEW a, NEW j \in Nat \ {0}, NEW h
  PROVE  Among(a, j + 1, h) <=> Among(a, j, h) \/ a.headers[j] = h
<1>1. \A i \in 1 .. (j + 1) - 1 : i \in 1 .. j - 1 \/ i = j
  OBVIOUS
<1>2. j \in 1 .. (j + 1) - 1 /\ \A i \in 1 .. j - 1 : i \in 1 .. (j + 1) - 1
  OBVIOUS
<1>3. QED
  BY <1>1, <1>2 DEF Among

LEMMA ParseHeaderStep ==
  ASSUME ParserInv, ParseHeader
  PROVE  ParserInv'
<1>1. PICK scan : scan = NextLine
  OBVIOUS
<1>2. PICK text : text = Cell(scan.buf, m_start_line)
  OBVIOUS
<1>3. /\ pc = "loop" /\ m_check_state = "HEADER" /\ scan.status = "OK"
      /\ m_check_idx' = scan.idx /\ m_start_line' = scan.idx
      /\ line_status' = "OK" /\ text # "NUL"
      /\ m_read_buf' = scan.buf
      /\ m_linger' = (m_linger \/ text = "keep")
      /\ m_content_length' = IF text = "length" THEN BodyLen
                                                ELSE m_content_length
      /\ m_check_state' = m_check_state /\ m_resquest_data' = m_resquest_data
      /\ pc' = pc /\ ret' = ret
  BY <1>1, <1>2 DEF ParseHeader, Advance
<1>4. /\ asked' = asked /\ m_trig_model' = m_trig_model
      /\ m_read_idx' = m_read_idx /\ Conserved'
      /\ Coming(wire', m_read_idx', Wire(asked'))
  BY ParseFrame DEF Parse
<1>5. PICK j \in 1 .. Lines(asked) :
        /\ j \in 0 .. Lines(asked) /\ InLine(asked, j)
        /\ HeaderAt(asked, j, m_start_line, m_check_idx, m_linger,
                    m_content_length)
  BY <1>3, InHeaders
<1>6. /\ asked \in Asks /\ Parsing /\ m_read_idx \in Nat /\ TypeOK
      /\ Lines(asked) \in Nat
  BY <1>3, Bounds, AskIs DEF ParserInv, Lines
<1>7. PICK next : next = IF j < Lines(asked) THEN 3 * (j + 1)
                                             ELSE BodyStart(asked)
  OBVIOUS
<1>8. /\ scan.idx = next /\ next \in 0 .. m_read_idx
      /\ j < Lines(asked) => text = TextOf(asked, j)
      /\ j = Lines(asked) => text = "NUL"
      /\ Whole(scan.buf, next, Wire(asked))
  BY <1>1, <1>2, <1>3, <1>5, <1>7, LineDone
<1>9. /\ j < Lines(asked) /\ j + 1 \in 1 .. Lines(asked)
      /\ next = 3 * (j + 1)
  BY <1>3, <1>6, <1>7, <1>8
<1>10. text = asked.headers[j]
  BY <1>8, <1>9 DEF TextOf
<1>11. /\ m_check_idx' \in 0 .. m_read_idx' /\ m_start_line' \in 0 .. m_check_idx'
  BY <1>3, <1>4, <1>8
<1>12. TypeOK'
  <2>1. m_content_length' \in {0, BodyLen} /\ m_linger' \in BOOLEAN
    BY <1>3, <1>6 DEF TypeOK
  <2>2. QED
    BY <2>1, <1>3, <1>4, <1>6, <1>11 DEF TypeOK
<1>13. LineAt(asked, j + 1, next, next)
  <2>1. j + 1 \in 0 .. Lines(asked)
    BY <1>9
  <2>2. PICK m \in 0 .. Lines(asked) : m = j + 1
    BY <2>1
  <2>3. EndOf(asked, m) \in Nat /\ EndOf(asked, m) >= 3 * m
    BY <1>6, EndIs
  <2>4. QED
    BY <2>2, <2>3, <1>9 DEF LineAt
<1>14. /\ m_linger' = Among(asked, j + 1, "keep")
       /\ m_content_length' = IF Among(asked, j + 1, "length")
                              THEN BodyLen ELSE 0
  <2>1. /\ Among(asked, j + 1, "keep")
             <=> Among(asked, j, "keep") \/ text = "keep"
        /\ Among(asked, j + 1, "length")
             <=> Among(asked, j, "length") \/ text = "length"
    BY <1>10, OneMore
  <2>2. /\ m_linger = Among(asked, j, "keep")
        /\ m_content_length = IF Among(asked, j, "length") THEN BodyLen ELSE 0
    BY <1>5 DEF HeaderAt
  <2>3. Among(asked, j + 1, "keep") \in BOOLEAN
    BY DEF Among
  <2>4. QED
    BY <2>1, <2>2, <2>3, <1>3
<1>15. HeaderAt(asked', j + 1, m_start_line', m_check_idx', m_linger',
                m_content_length')
  BY <1>3, <1>4, <1>8, <1>13, <1>14 DEF HeaderAt
<1>16. Parsing'
  <2>1. Whole(m_read_buf', m_start_line', Wire(asked'))
    BY <1>3, <1>4, <1>8
  <2>2. asked'.first # "bad"
    BY <1>3, <1>4, <1>6 DEF Parsing
  <2>3. QED
    BY <2>1, <2>2, <1>3, <1>4, <1>9, <1>15 DEF Parsing
<1>17. QED
  BY <1>3, <1>4, <1>12, <1>16 DEF ParserInv, MeaningKept, DataIsBody

LEMMA AllHeaders ==
  ASSUME NEW a \in Asks, NEW h
  PROVE  Among(a, Lines(a), h) <=> Contains(a.headers, h)
<1>1. Lines(a) - 1 = Len(a.headers)
  BY AskIs DEF Lines
<1>2. QED
  BY <1>1 DEF Among, Contains

LEMMA EndOfHeadersStep ==
  ASSUME ParserInv, EndOfHeaders
  PROVE  ParserInv'
<1>1. PICK scan : scan = NextLine
  OBVIOUS
<1>2. /\ pc = "loop" /\ m_check_state = "HEADER" /\ scan.status = "OK"
      /\ Cell(scan.buf, m_start_line) = "NUL"
      /\ m_check_idx' = scan.idx /\ m_start_line' = scan.idx
      /\ line_status' = "OK" /\ m_read_buf' = scan.buf
      /\ m_content_length' = m_content_length /\ m_linger' = m_linger
      /\ m_resquest_data' = m_resquest_data
  BY <1>1 DEF EndOfHeaders, Advance
<1>3. /\ asked' = asked /\ m_trig_model' = m_trig_model
      /\ m_read_idx' = m_read_idx /\ Conserved'
      /\ Coming(wire', m_read_idx', Wire(asked'))
  BY ParseFrame DEF Parse
<1>4. PICK j \in 1 .. Lines(asked) :
        /\ j \in 0 .. Lines(asked) /\ InLine(asked, j)
        /\ HeaderAt(asked, j, m_start_line, m_check_idx, m_linger,
                    m_content_length)
  BY <1>2, InHeaders
<1>5. /\ asked \in Asks /\ Parsing /\ m_read_idx \in Nat /\ TypeOK
      /\ Lines(asked) \in Nat /\ asked.first # "bad"
  BY <1>2, Bounds, AskIs DEF ParserInv, Lines, Parsing
<1>6. PICK next : next = IF j < Lines(asked) THEN 3 * (j + 1)
                                             ELSE BodyStart(asked)
  OBVIOUS
<1>7. /\ scan.idx = next /\ next \in 0 .. m_read_idx
      /\ j < Lines(asked) => Cell(scan.buf, m_start_line) = TextOf(asked, j)
      /\ Whole(scan.buf, next, Wire(asked))
  BY <1>1, <1>2, <1>4, <1>6, LineDone
<1>8. j = Lines(asked) /\ next = BodyStart(asked)
  <2>1. ~(j < Lines(asked))
    <3>1. ASSUME j < Lines(asked) PROVE FALSE
      <4>1. j \in 0 .. Lines(asked) - 1
        BY <3>1, <1>5
      <4>2. TextOf(asked, j) # "NUL"
        BY <4>1, <1>5, TextIs
      <4>3. QED
        BY <4>2, <3>1, <1>2, <1>7
    <3>2. QED
      BY <3>1
  <2>2. QED
    BY <2>1, <1>5, <1>6
<1>9. /\ m_linger = Contains(asked.headers, "keep")
      /\ m_content_length = IF Contains(asked.headers, "length")
                            THEN BodyLen ELSE 0
  <2>1. /\ m_linger = Among(asked, j, "keep")
        /\ m_content_length = IF Among(asked, j, "length") THEN BodyLen ELSE 0
    BY <1>4 DEF HeaderAt
  <2>2. /\ Among(asked, j, "keep") <=> Contains(asked.headers, "keep")
        /\ Among(asked, j, "length") <=> Contains(asked.headers, "length")
    BY <1>5, <1>8, AllHeaders
  <2>3. /\ Among(asked, j, "keep") \in BOOLEAN
        /\ Contains(asked.headers, "keep") \in BOOLEAN
    BY DEF Among, Contains
  <2>4. QED
    BY <2>1, <2>2, <2>3
<1>10. BodyLen # 0
  BY ParserAssumption DEF ParserAssumption
<1>11. /\ m_check_idx' \in 0 .. m_read_idx' /\ m_start_line' \in 0 .. m_check_idx'
  BY <1>2, <1>3, <1>7
<1>12. CASE m_content_length # 0
  <2>1. m_check_state' = "CONTENT" /\ pc' = pc /\ ret' = ret
    BY <1>12 DEF EndOfHeaders
  <2>2. TypeOK'
    BY <2>1, <1>2, <1>3, <1>5, <1>11 DEF TypeOK
  <2>3. ContentAt(asked', m_start_line', m_check_idx', m_linger',
                  m_content_length')
    <3>1. BodyStart(asked) \in BodyStart(asked) .. BodyStart(asked)
      BY <1>5 DEF BodyStart
    <3>2. QED
      BY <3>1, <1>2, <1>3, <1>7, <1>8, <1>9, <1>12 DEF ContentAt
  <2>4. Whole(m_read_buf', m_start_line', Wire(asked'))
    BY <1>2, <1>3, <1>7
  <2>5. Parsing'
    BY <2>1, <2>3, <2>4, <1>3, <1>5 DEF Parsing
  <2>6. QED
    BY <2>1, <2>2, <2>5, <1>2, <1>3 DEF ParserInv, MeaningKept, DataIsBody
<1>13. CASE m_content_length = 0
  <2>1. /\ ret' = "GET_REQUEST" /\ pc' = "done"
        /\ m_check_state' = m_check_state
    BY <1>13 DEF EndOfHeaders, Finish
  <2>2. TypeOK'
    BY <2>1, <1>2, <1>3, <1>5, <1>11 DEF TypeOK
  <2>3. ~Contains(asked'.headers, "length")
    BY <1>3, <1>9, <1>10, <1>13
  <2>4. asked'.first # "bad" /\ m_linger' = Contains(asked'.headers, "keep")
    BY <1>2, <1>3, <1>5, <1>9
  <2>5. QED
    BY <2>1, <2>2, <2>3, <2>4, <1>3 DEF ParserInv, MeaningKept, DataIsBody
<1>14. QED
  BY <1>12, <1>13

(* The rest of a sequence that is a body.                                  *)
LEMMA RestIsBody ==
  ASSUME NEW a \in Asks, Contains(a.headers, "length"),
         NEW s \in Seq(CellSet), NEW d \in Nat, Len(s) = d + BodyLen,
         NEW r, r = Len(s),
         \A i \in d + 1 .. Len(s) : s[i] = "body"
  PROVE  SubSeq(s, d + 1, r) = Body(a)
<1>1. BodyLen \in Nat \ {0}
  BY ParserAssumption DEF ParserAssumption
<1>2. PICK b : b = Body(a)
  OBVIOUS
<1>3. /\ b \in Seq(CellSet) /\ Len(b) = BodyLen
      /\ \A i \in 1 .. BodyLen : b[i] = "body"
  BY <1>2, BodyIs
<1>4. PICK n \in Nat : n = d + BodyLen
  BY <1>1
<1>5. r = n /\ Len(s) = n /\ d \in 0 .. n /\ n - d = BodyLen
  BY <1>1, <1>4
<1>6. PICK x : x = SubSeq(s, d + 1, n)
  OBVIOUS
<1>7. /\ x \in Seq(CellSet) /\ Len(x) = n - d
      /\ \A i \in 1 .. n - d : x[i] = s[d + i]
  BY <1>5, <1>6, Cutting
<1>8. ASSUME NEW i \in 1 .. BodyLen
      PROVE  x[i] = b[i]
  <2>1. PICK k \in d + 1 .. n : k = d + i
    BY <1>1, <1>4
  <2>2. x[i] = s[k] /\ s[k] = "body"
    BY <2>1, <1>5, <1>7
  <2>3. QED
    BY <2>2, <1>3
<1>9. x = b
  BY <1>3, <1>5, <1>7, <1>8, SeqEqual
<1>10. QED
  BY <1>2, <1>5, <1>6, <1>9

LEMMA ParseContentStep ==
  ASSUME ParserInv, ParseContent
  PROVE  ParserInv'
<1>1. /\ pc = "loop" /\ m_check_state = "CONTENT" /\ NextLine.status = "OK"
      /\ m_read_buf' = m_read_buf /\ m_check_state' = m_check_state
      /\ m_content_length' = m_content_length /\ m_linger' = m_linger
      /\ m_check_idx' = NextLine.idx /\ m_start_line' = NextLine.idx
  BY DEF ParseContent, Advance
<1>2. /\ asked' = asked /\ m_trig_model' = m_trig_model
      /\ m_read_idx' = m_read_idx /\ Conserved'
      /\ Coming(wire', m_read_idx', Wire(asked'))
  BY ParseFrame DEF Parse
<1>3. NextLine.idx = m_check_idx
  BY <1>1, BodyScan DEF Scan
<1>4. PICK r, c, s \in Nat :
        r = m_read_idx /\ c = m_check_idx /\ s = m_start_line
  BY <1>1, Bounds
<1>5. c <= r /\ s <= c /\ asked \in Asks /\ Parsing /\ TypeOK
  BY <1>1, <1>4, Bounds DEF ParserInv
<1>6. PICK n \in Nat : n = BodyStart(asked)
  BY <1>5, AskIs DEF BodyStart, Lines
<1>7. /\ n <= s /\ m_linger = Contains(asked.headers, "keep")
      /\ m_content_length = BodyLen /\ Contains(asked.headers, "length")
      /\ asked.first # "bad"
  BY <1>1, <1>4, <1>5, <1>6 DEF Parsing, ContentAt
<1>8. /\ m_check_idx' \in 0 .. m_read_idx' /\ m_start_line' \in 0 .. m_check_idx'
      /\ m_check_idx' = c /\ m_start_line' = c
  BY <1>1, <1>2, <1>3, <1>4, <1>5
<1>9. CASE BodyThere
  <2>1. /\ m_resquest_data' = s /\ ret' = "GET_REQUEST" /\ pc' = "done"
        /\ line_status' = "OK"
    BY <1>4, <1>9 DEF ParseContent, Finish, Advance
  <2>2. TypeOK'
    <3>1. s \in 0 .. m_read_idx'
      BY <1>2, <1>4, <1>5
    <3>2. QED
      BY <2>1, <3>1, <1>1, <1>2, <1>5, <1>8 DEF TypeOK
  <2>3. PICK w : w = Wire(asked)
    OBVIOUS
  <2>4. /\ IsWire(w, asked) /\ Len(w) = n + BodyLen /\ r <= Len(w)
    <3>1. IsWire(w, asked) /\ Len(Body(asked)) = BodyLen
      BY <2>3, <1>5, <1>7, WireIs, BodyIs
    <3>2. QED
      BY <3>1, <2>3, <1>1, <1>4, <1>6, Bounds DEF IsWire
  <2>5. r >= BodyLen + c /\ BodyLen \in Nat
    BY <1>4, <1>7, <1>9, ParserAssumption DEF BodyThere, ParserAssumption
  <2>6. s = n /\ r = n + BodyLen
    BY <2>4, <2>5, <1>5, <1>7
  <2>7. m_read_buf \in Seq(CellSet) /\ Len(m_read_buf) = r
    BY <1>1, <1>4, Bounds DEF m_read_idx
  <2>8. \A i \in s + 1 .. Len(m_read_buf) : m_read_buf[i] = "body"
    <3>1. \A i \in s + 1 .. r : m_read_buf[i] = w[i]
      BY <2>3, <2>7, <1>4, <1>5 DEF Parsing, Whole
    <3>2. \A i \in n + 1 .. n + BodyLen : w[i] = "body"
      BY <2>4, <1>6 DEF IsWire
    <3>3. QED
      BY <3>1, <3>2, <2>6, <2>7
  <2>9. SubSeq(m_read_buf, s + 1, r) = Body(asked)
    BY <2>6, <2>7, <2>8, <1>5, <1>7, RestIsBody
  <2>10. SubSeq(m_read_buf', m_resquest_data' + 1, m_read_idx')
           = Body(asked')
    BY <2>1, <2>9, <1>1, <1>2, <1>4
  <2>11. QED
    BY <2>1, <2>2, <2>10, <1>1, <1>2, <1>7
    DEF ParserInv, MeaningKept, DataIsBody
<1>10. CASE ~BodyThere
  <2>1. /\ m_resquest_data' = m_resquest_data /\ ret' = ret /\ pc' = pc
        /\ line_status' = "OPEN"
    BY <1>10 DEF ParseContent, Advance
  <2>2. TypeOK'
    BY <2>1, <1>1, <1>2, <1>5, <1>8 DEF TypeOK
  <2>3. ContentAt(asked', m_start_line', m_check_idx', m_linger',
                  m_content_length')
    <3>1. c \in n .. c
      BY <1>5, <1>7
    <3>2. QED
      BY <3>1, <1>1, <1>2, <1>6, <1>7, <1>8 DEF ContentAt
  <2>4. Whole(m_read_buf', m_start_line', Wire(asked'))
    <3>1. \A i \in s + 1 .. r : m_read_buf[i] = Wire(asked)[i]
      BY <1>4, <1>5 DEF Parsing, Whole, m_read_idx
    <3>2. \A i \in c + 1 .. r : i \in s + 1 .. r
      BY <1>5
    <3>3. \A i \in c + 1 .. r : m_read_buf[i] = Wire(asked)[i]
      BY <3>1, <3>2
    <3>4. QED
      BY <3>3, <1>1, <1>2, <1>4, <1>8 DEF Whole, m_read_idx
  <2>5. Parsing'
    BY <2>3, <2>4, <1>1, <1>2, <1>7 DEF Parsing
  <2>6. QED
    BY <2>1, <2>2, <2>5, <1>1, <1>2 DEF ParserInv, MeaningKept, DataIsBody
<1>11. QED
  BY <1>9, <1>10

LEMMA ParserInit == Init => ParserInv
<1>1. HAVE Init
<1>2. Conserved
  BY <1>1, ConservedInit
<1>3. /\ m_read_buf = <<>> /\ m_read_idx = 0 /\ wire = Wire(asked)
      /\ asked \in Asks
  BY <1>1 DEF Init, m_read_idx
<1>4. TypeOK
  <2>1. /\ m_check_idx \in 0 .. m_read_idx /\ m_start_line \in 0 .. m_check_idx
        /\ m_resquest_data \in 0 .. m_read_idx
    BY <1>1, <1>3 DEF Init
  <2>2. QED
    BY <2>1, <1>1 DEF Init, TypeOK
<1>5. Coming(wire, m_read_idx, Wire(asked))
  <2>1. \A i \in 1 .. Len(wire) : 0 + i = i
    OBVIOUS
  <2>2. QED
    BY <2>1, <1>3 DEF Coming
<1>6. Parsing
  <2>1. Lines(asked) \in Nat \ {0}
    BY <1>3, AskIs DEF Lines
  <2>2. LineAt(asked, 0, 0, 0)
    BY <2>1 DEF LineAt, EndOf
  <2>3. Whole(m_read_buf, 0, Wire(asked))
    BY <1>3 DEF Whole, m_read_idx
  <2>4. QED
    BY <2>2, <2>3, <1>1 DEF Init, Parsing
<1>7. QED
  BY <1>1, <1>2, <1>4, <1>5, <1>6
  DEF Init, ParserInv, MeaningKept, DataIsBody

LEMMA ParserStep ==
  ASSUME "root" \notin Firsts, ParserInv, [Next]_vars
  PROVE  ParserInv'
<1>1. ASSUME NEW k \in Arrivals, Read(k) PROVE ParserInv'
  BY <1>1, ReadStep
<1>2. ASSUME LineNotOk PROVE ParserInv'
  BY <1>2, LineNotOkStep
<1>3. ASSUME ParseRequestLine PROVE ParserInv'
  BY <1>3, ParseRequestLineStep
<1>4. ASSUME ParseHeader PROVE ParserInv'
  BY <1>4, ParseHeaderStep
<1>5. ASSUME EndOfHeaders PROVE ParserInv'
  BY <1>5, EndOfHeadersStep
<1>6. ASSUME ParseContent PROVE ParserInv'
  BY <1>6, ParseContentStep
<1>7. CASE UNCHANGED vars
  <2>1. Conserved'
    BY ConservedStep DEF ParserInv
  <2>2. QED
    BY <2>1, <1>7
    DEF ParserInv, vars, given, parseVars, TypeOK, Coming, Parsing, Whole,
        MeaningKept, DataIsBody, m_read_idx
<1>8. QED
  BY <1>1, <1>2, <1>3, <1>4, <1>5, <1>6, <1>7 DEF Next, Parse

-----------------------------------------------------------------------------
(* However the request is cut, parsing ends with the result the request    *)
(* has as a whole, and a keep-alive header is seen (http_conn.cpp:467-491).*)
(* The requests of the URL / are left out: of them the claim is false, as  *)
(* MCRequestParserRoot shows.                                              *)
THEOREM CutsKeepTheMeaning ==
  ASSUME "root" \notin Firsts
  PROVE  Spec => []MeaningKept
<1>1. Init => ParserInv
  BY ParserInit
<1>2. ParserInv /\ [Next]_vars => ParserInv'
  BY ParserStep
<1>3. ParserInv => MeaningKept
  BY DEF ParserInv
<1>4. QED
  BY <1>1, <1>2, <1>3, PTL DEF Spec

(* The body that do_request gets is the body that was sent, all of it and  *)
(* nothing before it, even if it arrives in several pieces                 *)
(* (http_conn.cpp:513-529).                                                *)
THEOREM BodyIsHandedWhole ==
  ASSUME "root" \notin Firsts
  PROVE  Spec => []DataIsBody
<1>1. Init => ParserInv
  BY ParserInit
<1>2. ParserInv /\ [Next]_vars => ParserInv'
  BY ParserStep
<1>3. ParserInv => DataIsBody
  BY DEF ParserInv
<1>4. QED
  BY <1>1, <1>2, <1>3, PTL DEF Spec
=============================================================================

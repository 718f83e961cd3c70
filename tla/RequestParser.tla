--------------------------- MODULE RequestParser ---------------------------
(***************************************************************************)
(* How a connection reads and parses one request: read(), process_read(),  *)
(* parse_line(), parse_request_line(), parse_headers() and parse_content() *)
(* of http_conn.cpp.  The request reaches the server cut into pieces at    *)
(* any place; after each piece a worker runs process_read() as far as the  *)
(* data goes.                                                              *)
(*                                                                         *)
(* A cell stands for the bytes of a line that are looked at together: the  *)
(* request line, a header, a carriage return, a line feed, a part of the   *)
(* body.  Indexes count cells from 0, as the code counts bytes.            *)
(***************************************************************************)
EXTENDS Naturals, Sequences, SequencesExt, FiniteSetsExt

CONSTANTS
  Firsts,       \* request lines: "file", "root" (the URL /), "bad"
  Headers,      \* headers: "keep" (Connection: keep-alive), "other", "length"
  MaxHeaders,   \* bound of the model: headers of a request
  BodyLen,      \* cells of a body, announced by "length"
  SplitBody,    \* TRUE when a body may arrive in more than one piece
  TrigModels,   \* values of m_trig_model: "LT", "ET"
  BufferSize    \* READ_BUFFER_SIZE

ASSUME ParserAssumption ==
  /\ Firsts \subseteq {"file", "root", "bad"}
  /\ Headers \subseteq {"keep", "other", "length"}
  /\ MaxHeaders \in Nat /\ BodyLen \in Nat \ {0}
  /\ SplitBody \in BOOLEAN
  /\ TrigModels \subseteq {"LT", "ET"}
  /\ BufferSize \in Nat \ {0}

VARIABLES
  m_trig_model,
  asked,            \* the request the client sends
  wire,             \* what has not been read yet
  m_read_buf,       \* what has been read, as parsing leaves it
  m_check_idx,      \* next cell to look at
  m_start_line,     \* start of the line being parsed
  m_check_state,    \* "LINE", "HEADER" or "CONTENT"
  m_content_length,
  m_linger,
  line_status,      \* of the running process_read
  m_resquest_data,  \* where the body was found, as an index; 0 if nowhere
  pc,               \* "epoll", "loop", "done", "closed"
  ret               \* result of the last process_read

parseVars == <<m_check_idx, m_start_line, m_check_state, m_content_length,
               m_linger, line_status, m_resquest_data>>
given == <<m_trig_model, asked>>
vars == <<given, wire, m_read_buf, parseVars, pc, ret>>

-----------------------------------------------------------------------------
(* The requests a client sends, as data and as bytes on the wire.          *)
Asks == {a \in [first : Firsts, headers : BoundedSeq(Headers, MaxHeaders)] :
           Cardinality({i \in DOMAIN a.headers : a.headers[i] = "length"}) <= 1}

Line(cell) == <<cell, "CR", "LF">>

Body(a) == IF Contains(a.headers, "length")
           THEN [i \in 1 .. BodyLen |-> "body"]
           ELSE <<>>

Wire(a) ==
  LET lines == <<a.first>> \o a.headers
      cells == [i \in 1 .. 3 * Len(lines) |->
                  Line(lines[(i + 2) \div 3])[1 + ((i + 2) % 3)]]
  IN cells \o <<"CR", "LF">> \o Body(a)

Init ==
  /\ m_trig_model \in TrigModels
  /\ asked \in Asks
  /\ wire = Wire(asked)
  /\ m_read_buf = <<>>
  /\ m_check_idx = 0 /\ m_start_line = 0
  /\ m_check_state = "LINE"
  /\ m_content_length = 0
  /\ m_linger = FALSE
  /\ line_status = "OK"
  /\ m_resquest_data = 0
  /\ pc = "epoll"
  /\ ret = "NO_REQUEST"

m_read_idx == Len(m_read_buf)
Cell(buf, i) == buf[i + 1]

-----------------------------------------------------------------------------
(* read(): k more cells have arrived.  A full buffer looks like the end of *)
(* the stream, in ET mode in the same call, in LT mode in the next.        *)
RoomOffByOne(k) ==
  IF m_trig_model = "ET" THEN m_read_idx + k < BufferSize - 1
                      ELSE m_read_idx < BufferSize - 1

Room(k) ==
  IF m_trig_model = "ET" THEN m_read_idx + k < BufferSize
                      ELSE m_read_idx < BufferSize

Arrivals ==
  {k \in 1 .. Len(wire) :
     SplitBody \/ k = Len(wire) \/ Len(wire) - k >= Len(Body(asked))}

Read(k) ==
  LET taken == Min({k, BufferSize - m_read_idx}) IN
  /\ pc = "epoll"
  /\ IF Room(k)
     THEN /\ m_read_buf' = m_read_buf \o SubSeq(wire, 1, taken)
          /\ wire' = SubSeq(wire, taken + 1, Len(wire))
          /\ line_status' = "OK"
          /\ pc' = "loop"
     ELSE pc' = "closed" /\ UNCHANGED <<m_read_buf, wire, line_status>>
  /\ UNCHANGED <<given, m_check_idx, m_start_line, m_check_state,
                 m_content_length, m_linger, m_resquest_data, ret>>

-----------------------------------------------------------------------------
(* parse_line(): look for the end of the line from m_check_idx on.         *)
Scan(status, idx, buf) == [status |-> status, idx |-> idx, buf |-> buf]

Terminated(i) == [m_read_buf EXCEPT ![i + 1] = "NUL", ![i + 2] = "NUL"]

parse_line_eager ==
  LET ends == {i \in m_check_idx .. m_read_idx - 1 :
                 Cell(m_read_buf, i) \in {"CR", "LF"}}
      e == Min(ends)
  IN IF ends = {}
     THEN Scan("OPEN", m_read_idx, m_read_buf)
     ELSE IF Cell(m_read_buf, e) = "CR"
     THEN IF e + 1 = m_read_idx
          THEN Scan("OPEN", e + 1, m_read_buf)
          ELSE IF Cell(m_read_buf, e + 1) = "LF"
               THEN Scan("OK", e + 2, Terminated(e))
               ELSE Scan("BAD", e, m_read_buf)
     ELSE Scan("BAD", e, m_read_buf)

parse_line ==
  LET ends == {i \in m_check_idx .. m_read_idx - 1 :
                 Cell(m_read_buf, i) \in {"CR", "LF"}}
      e == Min(ends)
  IN IF ends = {}
     THEN Scan("OPEN", m_read_idx, m_read_buf)
     ELSE IF Cell(m_read_buf, e) = "CR"
     THEN IF e + 1 = m_read_idx
          THEN Scan("OPEN", e, m_read_buf)
          ELSE IF Cell(m_read_buf, e + 1) = "LF"
               THEN Scan("OK", e + 2, Terminated(e))
               ELSE Scan("BAD", e, m_read_buf)
     ELSE IF e > 1 /\ Cell(m_read_buf, e - 1) = "CR"
          THEN Scan("OK", e + 1, Terminated(e - 1))
          ELSE Scan("BAD", e, m_read_buf)

(* The condition of the loop of process_read: the body is not cut in lines.*)
NextLine ==
  IF m_check_state = "CONTENT" /\ line_status = "OK"
  THEN Scan("OK", m_check_idx, m_read_buf)
  ELSE parse_line

Finish(result) == ret' = result /\ pc' = "done"

Advance(scan, status) ==
  /\ m_check_idx' = scan.idx
  /\ m_start_line' = scan.idx
  /\ line_status' = status

(* No complete line: process_read returns and the socket is armed again.   *)
LineNotOk ==
  /\ pc = "loop"
  /\ NextLine.status # "OK"
  /\ m_check_idx' = NextLine.idx
  /\ line_status' = NextLine.status
  /\ ret' = "NO_REQUEST"
  /\ pc' = "epoll"
  /\ UNCHANGED <<given, wire, m_read_buf, m_start_line, m_check_state,
                 m_content_length, m_linger, m_resquest_data>>

(* parse_request_line().  For the URL / the name of the default page is    *)
(* appended in the buffer: "choice.html" is as long as the version, the    *)
(* end of the line and the blank before it, so that its terminating NUL    *)
(* falls on the first byte of the next line, if that has arrived.          *)
WithDefaultPage(scan) ==
  IF scan.idx < m_read_idx THEN [scan.buf EXCEPT ![scan.idx + 1] = "NUL"]
                           ELSE scan.buf

ParseRequestLine ==
  LET scan == NextLine
      text == Cell(scan.buf, m_start_line)
  IN /\ pc = "loop" /\ m_check_state = "LINE" /\ scan.status = "OK"
     /\ Advance(scan, "OK")
     /\ IF text = "bad"
        THEN /\ Finish("BAD_REQUEST")
             /\ m_read_buf' = scan.buf
             /\ UNCHANGED m_check_state
        ELSE /\ m_check_state' = "HEADER"
             /\ m_read_buf' = IF text = "root" THEN WithDefaultPage(scan)
                                               ELSE scan.buf
             /\ UNCHANGED <<pc, ret>>
     /\ UNCHANGED <<given, wire, m_content_length, m_linger, m_resquest_data>>

(* parse_headers().                                                        *)
ParseHeaderForgetful ==
  LET scan == NextLine
      text == Cell(scan.buf, m_start_line)
  IN /\ pc = "loop" /\ m_check_state = "HEADER" /\ scan.status = "OK"
     /\ text # "NUL"
     /\ Advance(scan, "OK")
     /\ m_read_buf' = scan.buf
     /\ m_linger' = (text = "keep")
     /\ m_content_length' = IF text = "length" THEN BodyLen
                                               ELSE m_content_length
     /\ UNCHANGED <<given, wire, m_check_state, m_resquest_data, pc, ret>>

ParseHeader ==
  LET scan == NextLine
      text == Cell(scan.buf, m_start_line)
  IN /\ pc = "loop" /\ m_check_state = "HEADER" /\ scan.status = "OK"
     /\ text # "NUL"
     /\ Advance(scan, "OK")
     /\ m_read_buf' = scan.buf
     /\ m_linger' = (m_linger \/ text = "keep")
     /\ m_content_length' = IF text = "length" THEN BodyLen
                                               ELSE m_content_length
     /\ UNCHANGED <<given, wire, m_check_state, m_resquest_data, pc, ret>>

EndOfHeaders ==
  LET scan == NextLine IN
  /\ pc = "loop" /\ m_check_state = "HEADER" /\ scan.status = "OK"
  /\ Cell(scan.buf, m_start_line) = "NUL"
  /\ Advance(scan, "OK")
  /\ m_read_buf' = scan.buf
  /\ IF m_content_length # 0
     THEN m_check_state' = "CONTENT" /\ UNCHANGED <<pc, ret>>
     ELSE Finish("GET_REQUEST") /\ UNCHANGED m_check_state
  /\ UNCHANGED <<given, wire, m_content_length, m_linger, m_resquest_data>>

(* parse_content().  After a body that is not complete, parse_line runs    *)
(* over what there is of it.                                               *)
BodyThereAnywhere == m_read_idx >= m_content_length

BodyThere == m_read_idx >= m_content_length + m_check_idx

ParseContent ==
  LET scan == NextLine IN
  /\ pc = "loop" /\ m_check_state = "CONTENT" /\ scan.status = "OK"
  /\ IF BodyThere
     THEN /\ m_resquest_data' = m_start_line
          /\ Finish("GET_REQUEST")
          /\ Advance(scan, "OK")
     ELSE /\ Advance(scan, "OPEN")
          /\ UNCHANGED <<m_resquest_data, pc, ret>>
  /\ UNCHANGED <<given, wire, m_read_buf, m_check_state, m_content_length,
                 m_linger>>

-----------------------------------------------------------------------------
Parse == LineNotOk \/ ParseRequestLine \/ ParseHeader \/ EndOfHeaders
           \/ ParseContent

Next == (\E k \in Arrivals : Read(k)) \/ Parse

Spec == Init /\ [][Next]_vars

(* What the client has sent arrives, and process_read goes on.             *)
FairSpec == Spec /\ WF_vars(Next)

-----------------------------------------------------------------------------
TypeOK ==
  /\ m_trig_model \in TrigModels
  /\ asked \in Asks
  /\ m_check_idx \in 0 .. m_read_idx /\ m_start_line \in 0 .. m_check_idx
  /\ m_check_state \in {"LINE", "HEADER", "CONTENT"}
  /\ m_content_length \in {0, BodyLen}
  /\ m_linger \in BOOLEAN
  /\ line_status \in {"OK", "OPEN", "BAD"}
  /\ m_resquest_data \in 0 .. m_read_idx
  /\ pc \in {"epoll", "loop", "done", "closed"}
  /\ ret \in {"NO_REQUEST", "GET_REQUEST", "BAD_REQUEST"}

(* However the request is cut, parsing ends with the result the request    *)
(* has as a whole, and a keep-alive header is seen (http_conn.cpp:467-491).*)
MeaningKept ==
  /\ TypeOK
  /\ pc = "done" =>
       IF asked.first = "bad"
       THEN ret = "BAD_REQUEST"
       ELSE /\ ret = "GET_REQUEST"
            /\ m_linger = Contains(asked.headers, "keep")

(* The body handed to do_request is the body that was sent, all of it and  *)
(* nothing before it (http_conn.cpp:513-529).                              *)
DataIsBody ==
  pc = "done" /\ ret = "GET_REQUEST" /\ Contains(asked.headers, "length") =>
    SubSeq(m_read_buf, m_resquest_data + 1, m_read_idx) = Body(asked)

(* A request that leaves room in the buffer is not refused for its length  *)
(* (http_conn.cpp:241-289).                                                *)
ClosedOnlyWhenFull == pc = "closed" => Len(Wire(asked)) >= BufferSize

(* A request that has arrived is understood: the server does not go on     *)
(* waiting for a part of it it already has (http_conn.cpp:513-514).        *)
RequestUnderstood == <>(pc \in {"done", "closed"})
=============================================================================

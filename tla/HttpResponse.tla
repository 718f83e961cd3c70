---------------------------- MODULE HttpResponse ----------------------------
(***************************************************************************)
(* How a connection builds a response and sends it: process_write(), the   *)
(* add_...() functions, write() and unmap() of http_conn.cpp, for the      *)
(* responses of one connection object, which serves one client after the   *)
(* other.                                                                  *)
(*                                                                         *)
(* The write buffer is modelled byte by byte, since its length is kept in  *)
(* a char.  A mapped file is a few cells, a cell being a page.             *)
(***************************************************************************)
EXTENDS Integers, Sequences, SequencesExt

CONSTANTS
  Rets,          \* what process_read may return
  FileSizes,     \* cells of the files asked for; 0 is an empty file
  HeaderPieces,  \* bound: writev calls that end inside m_iv[0], per response
  HeaderCuts,    \* bound: what such a call may take
  MaxResponses,  \* bound: requests answered, over all clients
  Hangups        \* TRUE when clients may close before they have the response

ASSUME ResponseAssumption ==
  /\ Rets \subseteq {"FILE_REQUEST", "FORBIDDEN_REQUEST", "BAD_REQUEST"}
  /\ FileSizes \subseteq Nat
  /\ HeaderCuts \subseteq Nat \ {0}
  /\ HeaderPieces \in Nat /\ MaxResponses \in Nat
  /\ Hangups \in BOOLEAN

VARIABLES
  phase,            \* "reading", "armed" for EPOLLOUT, "writing", "closed"
  m_write_idx,
  iov0, iov1,       \* m_iv[0] and m_iv[1]: [base, len]
  m_iv_count,
  bytes_to_send,
  bytes_have_send,
  m_linger,
  m_file_address,   \* cells mapped at that address, MAP_FAILED, or 0 for null
  st_size,          \* m_file_stat.st_size
  response,         \* what the client should get: status and file, as cells
  sent,             \* what the kernel has taken
  room,             \* the kernel's send buffer has room
  hungUp,           \* the client has closed
  pieces, responses \* counters of the bounds

iovs == <<iov0, iov1, m_iv_count>>
counters == <<bytes_to_send, bytes_have_send>>
vars == <<phase, m_write_idx, iovs, counters, m_linger, m_file_address,
          st_size, response, sent, room, hungUp, pieces, responses>>

-----------------------------------------------------------------------------
(* Lengths of what the add_...() functions print, and the type char.       *)
WRITE_BUFFER_SIZE == 1024

Char(n) == ((n + 128) % 256) - 128

StatusLine(ret) == CASE ret = "FILE_REQUEST" -> 17  \* 200 OK
                     [] ret = "FORBIDDEN_REQUEST" -> 24  \* 403 Forbidden
                     [] ret = "BAD_REQUEST" -> 26  \* 400 Bad Request

ErrorForm(ret) == IF ret = "BAD_REQUEST" THEN 68 ELSE 57

OkString == 26

ContentLength(digits) == 15 + digits + 2

LingerLine(linger) == IF linger THEN 23 ELSE 18

BlankLine == 2

(* add_response(): refused when the buffer is full, else m_write_idx, a    *)
(* char, moves on by what was printed.                                     *)
add_response(idx, len) ==
  IF idx >= WRITE_BUFFER_SIZE \/ len >= WRITE_BUFFER_SIZE - 1 - idx
  THEN idx
  ELSE Char(idx + len)

add_headers(idx, digits, linger) ==
  add_response(add_response(add_response(idx, ContentLength(digits)),
                            LingerLine(linger)),
               BlankLine)

(* A file that is not empty follows the header from its mapping, and its   *)
(* length has four digits; any other response ends with a text.            *)
Maps(ret, size) == ret = "FILE_REQUEST" /\ size # 0

Digits(ret, size) == IF Maps(ret, size) THEN 4 ELSE 2

Text(ret) == IF ret = "FILE_REQUEST" THEN OkString ELSE ErrorForm(ret)

(* Where process_write() leaves m_write_idx, and how much it has to say.   *)
Printed(idx, ret, linger, size) ==
  LET head == add_headers(add_response(idx, StatusLine(ret)),
                          Digits(ret, size), linger)
  IN IF Maps(ret, size) THEN head ELSE add_response(head, Text(ret))

Length(ret, linger, size) ==
  StatusLine(ret) + ContentLength(Digits(ret, size)) + LingerLine(linger)
    + BlankLine + (IF Maps(ret, size) THEN 0 ELSE Text(ret))

(* Cells of the write buffer and of the mapped file.  A length that is     *)
(* negative as an int is more than writev takes as a size_t.               *)
Cells(tag, base, len) == [i \in 1 .. len |-> <<tag, base + i>>]

TooLong == 2147483647

SizeT(n) == IF n < 0 THEN TooLong ELSE n

MAP_FAILED == -1

Mapping(size) == IF size = 0 THEN MAP_FAILED ELSE size

-----------------------------------------------------------------------------
Init ==
  /\ phase = "reading"
  /\ m_write_idx = 0
  /\ iov0 = [base |-> 0, len |-> 0] /\ iov1 = [base |-> 0, len |-> 0]
  /\ m_iv_count = 0
  /\ bytes_to_send = 0 /\ bytes_have_send = 0
  /\ m_linger = FALSE
  /\ m_file_address = 0 /\ st_size = 0
  /\ response = <<>> /\ sent = <<>>
  /\ room = TRUE
  /\ hungUp = FALSE
  /\ pieces = 0 /\ responses = 0

(* init() without arguments: neither m_file_address nor the iovecs.        *)
Reset ==
  /\ m_write_idx' = 0
  /\ bytes_to_send' = 0 /\ bytes_have_send' = 0
  /\ m_linger' = FALSE

(* accept_client() hands the object to a new client.                       *)
NewClient ==
  /\ phase = "closed"
  /\ responses < MaxResponses
  /\ phase' = "reading"
  /\ Reset
  /\ response' = <<>> /\ sent' = <<>>
  /\ room' = TRUE /\ hungUp' = FALSE
  /\ UNCHANGED <<iovs, m_file_address, st_size, pieces, responses>>

(* The end of do_request(): the file was looked at, and mapped if it may   *)
(* be sent.  A request line that cannot be parsed does not come that far.  *)
Looked(ret, size) ==
  \/ /\ ret = "BAD_REQUEST"
     /\ UNCHANGED <<st_size, m_file_address>>
  \/ /\ st_size' = size
     /\ m_file_address' = IF ret = "FILE_REQUEST" THEN Mapping(size)
                                                  ELSE m_file_address

(* process() with a complete request: process_write() builds the response  *)
(* and the socket is armed for writing.                                    *)
Process(ret, linger, size) ==
  LET idx == Printed(m_write_idx, ret, linger, size)
      body == IF Maps(ret, size) THEN size ELSE 0
  IN /\ phase = "reading"
     /\ responses < MaxResponses
     /\ Looked(ret, size)
     /\ m_linger' = linger
     /\ m_write_idx' = idx
     /\ iov0' = [base |-> 0, len |-> SizeT(idx)]
     /\ IF Maps(ret, size)
        THEN iov1' = [base |-> 0, len |-> size] /\ m_iv_count' = 2
        ELSE m_iv_count' = 1 /\ UNCHANGED iov1
     /\ bytes_to_send' = idx + body
     /\ phase' = "armed"
     /\ response' = Cells("buf", 0, Length(ret, linger, size))
                      \o Cells("file", 0, body)
     /\ sent' = <<>>
     /\ pieces' = 0 /\ responses' = responses + 1
     /\ UNCHANGED <<bytes_have_send, room, hungUp>>

-----------------------------------------------------------------------------
unmap == m_file_address' = 0

(* EPOLLOUT: the main thread calls write().                                *)
Writable ==
  /\ phase = "armed" /\ room /\ ~hungUp
  /\ phase' = "writing"
  /\ UNCHANGED <<m_write_idx, iovs, counters, m_linger, m_file_address,
                 st_size, response, sent, room, hungUp, pieces, responses>>

ToWrite == Cells("buf", iov0.base, iov0.len)
             \o (IF m_iv_count = 2 THEN Cells("file", iov1.base, iov1.len)
                                   ELSE <<>>)

(* What one call may take: part of m_iv[0], or all of it and some of the   *)
(* file.                                                                   *)
Takes ==
  IF iov0.len = TooLong
  THEN {}
  ELSE IF ToWrite = <<>>
  THEN {0}
  ELSE {t \in 1 .. Len(ToWrite) :
          t >= iov0.len \/ (t \in HeaderCuts /\ pieces < HeaderPieces)}

(* The iovecs after writev has taken temp cells.                           *)
MoveIovsRepeating(temp) == UNCHANGED <<iov0, iov1>>

MoveIovs(temp) ==
  IF bytes_have_send + temp >= iov0.len
  THEN /\ iov0' = [iov0 EXCEPT !.len = 0]
       /\ iov1' = [base |-> bytes_have_send + temp - m_write_idx,
                   len |-> bytes_to_send - temp]
  ELSE /\ iov0' = [base |-> bytes_have_send + temp,
                   len |-> iov0.len - temp]
       /\ UNCHANGED iov1

AllSentHalfway(temp) == bytes_to_send - temp <= bytes_have_send + temp

AllSent(temp) == bytes_to_send - temp <= 0

(* One turn of the loop of write() in which writev takes temp cells.       *)
Writev(temp) ==
  /\ phase = "writing"
  /\ temp > 0 => room
  /\ room' \in IF temp < Len(ToWrite) THEN {FALSE} ELSE {room, FALSE}
  /\ pieces' = IF temp < iov0.len THEN pieces + 1 ELSE pieces
  /\ sent' = sent \o SubSeq(ToWrite, 1, temp)
  /\ MoveIovs(temp)
  /\ IF AllSent(temp)
     THEN /\ unmap
          /\ IF m_linger
             THEN phase' = "reading" /\ Reset
             ELSE /\ phase' = "closed"
                  /\ bytes_to_send' = bytes_to_send - temp
                  /\ bytes_have_send' = bytes_have_send + temp
                  /\ UNCHANGED <<m_write_idx, m_linger>>
     ELSE /\ bytes_to_send' = bytes_to_send - temp
          /\ bytes_have_send' = bytes_have_send + temp
          /\ UNCHANGED <<phase, m_write_idx, m_linger, m_file_address>>
  /\ UNCHANGED <<m_iv_count, st_size, response, hungUp, responses>>

(* EAGAIN: wait for EPOLLOUT again.                                        *)
WriteAgainUnarmed ==
  /\ phase = "writing" /\ ~room
  /\ ToWrite # <<>>
  /\ phase' = "reading"
  /\ UNCHANGED <<m_write_idx, iovs, counters, m_linger, m_file_address,
                 st_size, response, sent, room, hungUp, pieces, responses>>

WriteAgain ==
  /\ phase = "writing" /\ ~room /\ iov0.len # TooLong
  /\ ToWrite # <<>>
  /\ phase' = "armed"
  /\ UNCHANGED <<m_write_idx, iovs, counters, m_linger, m_file_address,
                 st_size, response, sent, room, hungUp, pieces, responses>>

(* Any other error: the length is not valid, or the client has reset the   *)
(* connection.  write() returns false and deal_timer() closes.             *)
WriteFails ==
  /\ phase = "writing"
  /\ iov0.len = TooLong \/ hungUp
  /\ unmap
  /\ phase' = "closed"
  /\ UNCHANGED <<m_write_idx, iovs, counters, m_linger, st_size, response,
                 sent, room, hungUp, pieces, responses>>

-----------------------------------------------------------------------------
(* The client: it takes what was sent, or closes.                          *)
Drain ==
  /\ ~room /\ ~hungUp
  /\ room' = TRUE
  /\ UNCHANGED <<phase, m_write_idx, iovs, counters, m_linger, m_file_address,
                 st_size, response, sent, hungUp, pieces, responses>>

Hangup ==
  /\ Hangups /\ ~hungUp /\ phase # "closed"
  /\ hungUp' = TRUE
  /\ UNCHANGED <<phase, m_write_idx, iovs, counters, m_linger, m_file_address,
                 st_size, response, sent, room, pieces, responses>>

(* EPOLLRDHUP, EPOLLHUP or EPOLLERR: main_loop() closes the connection by  *)
(* deal_timer(), which does not unmap.                                     *)
ErrorEvent ==
  /\ hungUp /\ phase \in {"reading", "armed"}
  /\ phase' = "closed"
  /\ UNCHANGED <<m_write_idx, iovs, counters, m_linger, m_file_address,
                 st_size, response, sent, room, hungUp, pieces, responses>>

WriteEvent ==
  \/ Writable \/ WriteAgain \/ WriteFails \/ ErrorEvent
  \/ \E temp \in Takes : Writev(temp)

Next ==
  \/ NewClient
  \/ \E ret \in Rets, linger \in BOOLEAN, size \in FileSizes :
       Process(ret, linger, size)
  \/ WriteEvent
  \/ Drain
  \/ Hangup

Spec == Init /\ [][Next]_vars

(* The main thread handles its events, and a client that has not hung up   *)
(* takes what it is sent.                                                  *)
FairSpec == Spec /\ WF_vars(WriteEvent) /\ WF_vars(Drain)

-----------------------------------------------------------------------------
TypeOK ==
  /\ phase \in {"reading", "armed", "writing", "closed"}
  /\ m_write_idx \in -128 .. 127
  /\ iov0 \in [base : 0 .. 127, len : (0 .. 127) \union {TooLong}]
  /\ iov1 \in [base : Nat, len : Nat]
  /\ m_iv_count \in 0 .. 2
  /\ bytes_to_send \in -128 .. Len(response)
  /\ bytes_have_send \in 0 .. Len(response)
  /\ {m_linger, room, hungUp} \subseteq BOOLEAN
  /\ m_file_address \in {0, MAP_FAILED} \union FileSizes
  /\ st_size \in FileSizes \union {0}

(* Whatever pieces the kernel takes a response in, what it has taken is    *)
(* the beginning of the response: nothing is sent twice, left out or taken *)
(* from outside the buffer and the file (http_conn.cpp:842-864).           *)
SentIsPrefix == TypeOK /\ IsPrefix(sent, response)

(* write() is done with a response only when all of it was sent: unless    *)
(* the client has hung up, a connection that reads again or is closed has  *)
(* answered in full (http_conn.cpp:866-881).                               *)
AnsweredInFull ==
  phase \in {"reading", "closed"} /\ ~hungUp => sent = response

(* The same for the responses whose header, or text, a char can count.     *)
ShortAnsweredInFull ==
  (\A i \in 1 .. Len(response) : i > 127 => response[i][1] = "file")
    => AnsweredInFull

(* munmap() gets the length that was mapped at that address                *)
(* (http_conn.cpp:1045-1053).                                              *)
UnmapFits ==
  [][m_file_address > 0 /\ m_file_address' = 0
       => st_size = m_file_address]_vars

(* A response to a client that stays is sent or given up: the main thread  *)
(* does not go round in write() for ever (http_conn.cpp:817-882).          *)
ResponseEnds == phase \in {"armed", "writing"} ~> phase \in {"reading", "closed"}
=============================================================================

------------------------------ MODULE ReadStream ------------------------------
(***************************************************************************)
(* The reading half of src/common/stream.c, on the non-blocking socket of  *)
(* src/common/tcp.c: one buffer, filled by read() in whatever pieces the   *)
(* network delivers, and emptied by calls that take lines, strings, files  *)
(* and plain bytes.                                                        *)
(*                                                                         *)
(* A byte is its position in what the peer sends, so the buffer is a       *)
(* sequence of numbers; 0 is a NUL that the program has inserted, and      *)
(* zeroed has the positions that it has overwritten with NUL.              *)
(***************************************************************************)
EXTENDS Integers, Sequences, SequencesExt

CONSTANTS
  Size,           \* size of the buffer (TCP_STREAM_SIZE)
  Contents,       \* what a peer may send
  Lengths,        \* what callers pass to stream_read() and stream_read_file()
  StringLengths   \* ... and to stream_read_string()

Chars == {"text", "cr", "lf"}

ASSUME SizeIsPos      == Size \in Nat \ {0}
ASSUME ContentsAreSeq == Contents \subseteq Seq(Chars)
ASSUME LengthsAreNat  == Lengths \subseteq Nat /\ StringLengths \subseteq Nat

VARIABLES
  content, arrived, peer,  \* the network: all that the peer sends, how much of it has
                           \* reached the socket, and "open", "closed" or "reset"
  fetched,                 \* how much the program has read() from the socket
  buf, offset,             \* struct stream; length is Len(buf)
  zeroed,
  call, eof,               \* the call in progress, and its last _stream_read()'s "eof"
  result,                  \* the last call, and what it returned
  delivered, spilled       \* history: bytes given to callers, and bytes dropped

networkVars == <<content, arrived, peer>>
streamVars  == <<buf, offset, zeroed>>
callVars    == <<call, eof, result, delivered, spilled>>
vars        == <<networkVars, fetched, streamVars, callVars>>

NoCall == [op |-> "none", n |-> 0]
Calls  == [op : {"read", "file"}, n : Lengths] \cup [op : {"string"}, n : StringLengths]
          \cup [op : {"line"}, n : {0}]

\* stream_writebuf_ptr() up to stream_writebuf_end(), and stream_readbuf_size().
Unread == SubSeq(buf, offset + 1, Len(buf))
Room   == Size - Len(buf)

First(k)  == SubSeq(Unread, 1, k)
CharAt(p) == IF p = 0 \/ p \in zeroed THEN "nul" ELSE content[p]

-----------------------------------------------------------------------------
(* The network (external)                                                  *)

Arrive ==
  /\ peer = "open" /\ arrived' \in arrived + 1 .. Len(content)
  /\ UNCHANGED <<content, peer, fetched, streamVars, callVars>>

\* The peer closes the connection, or it is lost; also before all is sent.
Hangup ==
  /\ peer = "open" /\ peer' \in {"closed", "reset"}
  /\ UNCHANGED <<content, arrived, fetched, streamVars, callVars>>

-----------------------------------------------------------------------------
(* The beginning of a call                                                 *)

\* stream_read_file() does not read, and makes no room, as long as it has data.
Skips(c) == c.op = "file" /\ Unread # <<>>

\* Mutant of Begin: the data that is left moves to the front, the offset stays.
BeginKeepsOffset(c) ==
  /\ call = NoCall
  /\ IF Skips(c) THEN UNCHANGED buf ELSE (offset > 0 \/ Room > 0) /\ buf' = Unread
  /\ offset' = IF offset < Len(buf') THEN offset ELSE Len(buf')
  /\ call' = c /\ eof' = FALSE
  /\ UNCHANGED <<networkVars, fetched, zeroed, result, delivered, spilled>>

\* The call and its _stream_clear().
Begin(c) ==
  /\ call = NoCall
  /\ IF Skips(c) THEN UNCHANGED <<buf, offset>>
     ELSE (offset > 0 \/ Room > 0) /\ buf' = Unread /\ offset' = 0
  /\ call' = c /\ eof' = FALSE
  /\ UNCHANGED <<networkVars, fetched, zeroed, result, delivered, spilled>>

\* "stream write buffer is full, no room for read".
BeginFull(c) ==
  /\ call = NoCall
  /\ ~Skips(c) /\ offset = 0 /\ Room = 0
  /\ result' = [call |-> c, ret |-> -1, data |-> <<>>]
  /\ UNCHANGED <<networkVars, fetched, streamVars, call, eof, delivered, spilled>>

\* The call returns; data is what it points its caller to.
Return(ret, data) ==
  /\ result' = [call |-> call, ret |-> ret, data |-> data]
  /\ delivered' = delivered \o data
  /\ call' = NoCall /\ eof' = FALSE
  /\ UNCHANGED <<networkVars, fetched>>

-----------------------------------------------------------------------------
(* _stream_read() on tcp_stream_read()                                     *)

\* The ends of line in the buffer.
LineEnds == {i \in DOMAIN Unread : CharAt(Unread[i]) = "lf"}

\* The loop conditions of the four calls: not enough data yet.
Wanted ==
  /\ ~eof
  /\ \/ call.op = "read" /\ Len(Unread) < call.n
     \/ call.op = "line" /\ LineEnds = {}
     \/ call.op = "string" /\ (call.n = 0 \/ Len(Unread) < call.n) /\ Room > 0
     \/ call.op = "file" /\ Unread = <<>>

\* Mutant of Fill: the whole buffer is offered to read(), not what is left of it.
FillAll ==
  /\ Wanted /\ Room > 0 /\ fetched < arrived
  /\ LET k == IF arrived - fetched < Size THEN arrived - fetched ELSE Size
     IN  /\ buf' = buf \o [i \in 1..k |-> fetched + i]
         /\ fetched' = fetched + k
  /\ UNCHANGED <<networkVars, offset, zeroed, callVars>>

\* read() gets as much as there is, or as there is room for.
Fill ==
  /\ Wanted /\ Room > 0 /\ fetched < arrived
  /\ LET k == IF arrived - fetched < Room THEN arrived - fetched ELSE Room
     IN  /\ buf' = buf \o [i \in 1..k |-> fetched + i]
         /\ fetched' = fetched + k
  /\ UNCHANGED <<networkVars, offset, zeroed, callVars>>

\* Mutant of FillEof: the caller goes around its loop again.
FillEofUnseen ==
  /\ Wanted
  /\ Room = 0 \/ (fetched = arrived /\ peer = "closed")
  /\ UNCHANGED vars

\* Mutant of FillEof: a failed read() is taken for the end.
FillEofOnError ==
  /\ Wanted
  /\ Room = 0 \/ (fetched = arrived /\ peer # "open")
  /\ eof' = TRUE
  /\ UNCHANGED <<networkVars, fetched, streamVars, call, result, delivered, spilled>>

\* read() returns 0: the peer has closed the connection, or there is no room and
\* it was asked for nothing.
FillEof ==
  /\ Wanted
  /\ Room = 0 \/ (fetched = arrived /\ peer = "closed")
  /\ eof' = TRUE
  /\ UNCHANGED <<networkVars, fetched, streamVars, call, result, delivered, spilled>>

\* What stream_read_line() has overwritten in the first k bytes it has looked at.
Erased(k) == {Unread[i] : i \in {j \in 1..k : CharAt(Unread[j]) \in {"cr", "lf"}}}

\* read() fails, or event_yield() times out: every call returns -1.  Nobody else
\* looks at the buffer during a call, so what a line has overwritten by now is
\* accounted for here.
FillFails ==
  /\ Wanted /\ Room > 0
  /\ fetched = arrived /\ peer # "closed"
  /\ zeroed' = IF call.op = "line" THEN zeroed \cup Erased(Len(Unread)) ELSE zeroed
  /\ Return(-1, <<>>)
  /\ UNCHANGED <<buf, offset, spilled>>

-----------------------------------------------------------------------------
(* The ends of the calls                                                   *)

\* stream_read(): the size asked for, or what there is; 1 if that is nothing.
ReadReturns ==
  /\ call.op = "read" /\ ~Wanted
  /\ LET k == IF call.n \in 1..Len(Unread) THEN call.n ELSE Len(Unread)
     IN  /\ offset' = offset + k
         /\ Return(IF k = 0 THEN 1 ELSE 0, First(k))
  /\ UNCHANGED <<buf, zeroed, spilled>>

\* Mutant of LineReturns: up to the last end of line that has arrived.
LineReturnsLast ==
  /\ call.op = "line" /\ LineEnds # {}
  /\ LET k == CHOOSE i \in LineEnds : \A j \in LineEnds : i >= j
     IN  /\ zeroed' = zeroed \cup Erased(k)
         /\ offset' = offset + k
         /\ Return(0, First(k))
  /\ UNCHANGED <<buf, spilled>>

\* stream_read_line().
LineReturns ==
  /\ call.op = "line" /\ LineEnds # {}
  /\ LET k == CHOOSE i \in LineEnds : \A j \in LineEnds : i <= j
     IN  /\ zeroed' = zeroed \cup Erased(k)
         /\ offset' = offset + k
         /\ Return(0, First(k))
  /\ UNCHANGED <<buf, spilled>>

LineEof ==
  /\ call.op = "line" /\ LineEnds = {} /\ eof
  /\ zeroed' = zeroed \cup Erased(Len(Unread))
  /\ Return(1, <<>>)
  /\ UNCHANGED <<buf, offset, spilled>>

\* stream_read_string(): a NUL goes in behind the string, or behind all there is,
\* and all there is counts as consumed.
StringReturns ==
  /\ call.op = "string" /\ Room > 0
  /\ IF call.n = 0 THEN eof /\ Unread # <<>> ELSE Len(Unread) >= call.n
  /\ LET k == IF call.n = 0 THEN Len(Unread) ELSE call.n
     IN  /\ buf' = InsertAt(buf, offset + k + 1, 0)
         /\ offset' = Len(buf) + 1
         /\ spilled' = spilled \cup {Unread[i] : i \in k + 1 .. Len(Unread)}
         /\ Return(0, First(k))
  /\ UNCHANGED zeroed

\* Too little data, which stays.
StringEof ==
  /\ call.op = "string" /\ eof
  /\ Unread = <<>> \/ Len(Unread) < call.n
  /\ Return(1, <<>>)
  /\ UNCHANGED <<streamVars, spilled>>

\* No room for more data, or for the NUL.
StringFull ==
  /\ call.op = "string" /\ Room = 0
  /\ Return(-1, <<>>)
  /\ UNCHANGED <<streamVars, spilled>>

\* Mutant of FileReturns: what the file did not take is gone.
FileReturnsDropping ==
  /\ call.op = "file" /\ Unread # <<>>
  /\ \E k \in 1..Len(Unread) :
       /\ call.n = 0 \/ k <= call.n
       /\ offset' = Len(buf)
       /\ Return(0, First(k))
  /\ UNCHANGED <<buf, zeroed, spilled>>

\* stream_read_file(): the file takes some of the data ...
FileReturns ==
  /\ call.op = "file" /\ Unread # <<>>
  /\ \E k \in 1..Len(Unread) :
       /\ call.n = 0 \/ k <= call.n
       /\ offset' = offset + k
       /\ Return(0, First(k))
  /\ UNCHANGED <<buf, zeroed, spilled>>

\* ... or none, or there is none.
FileFails ==
  /\ call.op = "file"
  /\ \/ Unread # <<>> /\ Return(-1, <<>>)
     \/ Unread = <<>> /\ eof /\ Return(1, <<>>)
  /\ UNCHANGED <<streamVars, spilled>>

-----------------------------------------------------------------------------
Init ==
  /\ content \in Contents /\ arrived = 0 /\ peer = "open"
  /\ fetched = 0 /\ buf = <<>> /\ offset = 0 /\ zeroed = {}
  /\ call = NoCall /\ eof = FALSE
  /\ result = [call |-> NoCall, ret |-> 0, data |-> <<>>]
  /\ delivered = <<>> /\ spilled = {}

\* The rest of a call.
Progress ==
  \/ Fill \/ FillEof \/ FillFails
  \/ ReadReturns \/ LineReturns \/ LineEof
  \/ StringReturns \/ StringEof \/ StringFull
  \/ FileReturns \/ FileFails

Next ==
  \/ Arrive \/ Hangup
  \/ \E c \in Calls : Begin(c) \/ BeginFull(c)
  \/ Progress

\* The process is scheduled, and the read timeout of the connection runs out.
Spec == Init /\ [][Next]_vars /\ WF_vars(Progress)

-----------------------------------------------------------------------------
(* Properties                                                              *)

\* "note that offset <= length <= size at all times" (stream.h:28), and the types of
\* the other variables.
TypeOK ==
  /\ content \in Contents
  /\ fetched \in 0..arrived /\ arrived \in 0..Len(content)
  /\ peer \in {"open", "closed", "reset"}
  /\ buf \in Seq(0..fetched) /\ offset \in 0..Len(buf) /\ Len(buf) \in 0..Size
  /\ zeroed \subseteq 1..fetched /\ spilled \subseteq 1..fetched
  /\ call \in Calls \cup {NoCall} /\ eof \in BOOLEAN
  /\ result.call \in Calls \cup {NoCall} /\ result.ret \in {-1, 0, 1}
  /\ result.data \in Seq(1..fetched) /\ delivered \in Seq(1..fetched)

\* The buffer (stream.c:91-132, 165, 207, 316, 352, 415, 458) neither repeats nor reorders
\* a byte, nor loses one, but for what stream_read_string() drops: what callers were
\* given and what is left to give is all that was read from the socket, in its order.
NothingLost ==
  LET all == delivered \o Unread
  IN  /\ \A i, j \in DOMAIN all : i < j => all[i] < all[j]
      /\ ToSet(all) = 1..fetched \ spilled

\* All of what the peer has sent has been read, and no more will come.
AtEnd == peer = "closed" /\ fetched = arrived

\* "Returns 1 on EOF" (stream.h:55, 62, 71, 81), unless a line fills the buffer, or
\* stream_read() is asked for 0 bytes.
EofIsEnd ==
  result.ret = 1 =>
    \/ AtEnd
    \/ result.call.op = "line" /\ Len(buf) = Size
    \/ call # NoCall
    \/ result.call = [op |-> "read", n |-> 0]

\* stream_read_line() (stream.c:330-352) gives its caller exactly one line, however
\* many segments it came in and however many lines came in one segment.
LineIsOneLine ==
  result.call.op = "line" /\ result.ret = 0 =>
    LET d == result.data
    IN  /\ d # <<>> /\ content[Last(d)] = "lf"
        /\ \A i \in 1..Len(d)-1 : content[d[i]] # "lf"

\* Every call returns (stream.c:294, 330, 368; "guaranteed to make progress",
\* stream.c:137), whatever the peer does.
CallsReturn == call # NoCall ~> call = NoCall

\* What callers get is what the peer has sent, but for what stream_read_string() drops.
Bytes == INSTANCE ByteStream WITH
  sent     <- [i \in 1..arrived |-> i],
  lost     <- spilled,
  received <- delivered
ByteStreamSpec == Bytes!Spec

\* "The maximum size to read should be given in len" (stream.h:69): stream_read_string()
\* takes no more than that from the stream.
StringTakesNoMore == spilled = {}
=============================================================================

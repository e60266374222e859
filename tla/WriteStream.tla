------------------------------ MODULE WriteStream ------------------------------
(***************************************************************************)
(* The writing half of src/common/stream.c, on the socket callbacks of     *)
(* src/common/tcp.c.  Formatted output goes through the buffer, plain      *)
(* output and files bypass it.  The socket takes any part of what it is    *)
(* offered.                                                                *)
(*                                                                         *)
(* A byte is its position in what callers write.                           *)
(***************************************************************************)
EXTENDS Integers, Sequences, SequencesExt

CONSTANTS
  Size,        \* size of the buffer, and sendfile()'s default (TCP_STREAM_SIZE)
  Lengths,     \* numbers of bytes that callers write
  MaxBytes     \* bound: bytes that are written in all

ASSUME SizeIsPos    == Size \in Nat \ {0}
ASSUME LengthsAreNat == Lengths \subseteq Nat /\ MaxBytes \in Nat

VARIABLES
  up,           \* the connection: once it has failed every write() does
  buf, offset,  \* struct stream; length is Len(buf)
  call,         \* the call in progress: [op, n], n bytes
  rest,         \* what stream_write() has yet to write past the buffer
  result,       \* what the last call has returned
  accepted,     \* history: number of bytes taken from callers and files ...
  dropped,      \* ... and which of them will not be sent
  wire          \* the bytes that the socket has taken

streamVars == <<buf, offset>>
vars       == <<up, streamVars, call, rest, result, accepted, dropped, wire>>

NoCall == [op |-> "none", n |-> 0]
Calls  == [op : {"write", "printf", "file"}, n : Lengths]

\* stream_writebuf_ptr() up to stream_writebuf_end().
Pending  == SubSeq(buf, offset + 1, Len(buf))
Fresh(k) == [i \in 1..k |-> accepted + i]

Accept(k) == accepted + k <= MaxBytes /\ accepted' = accepted + k
Drop(s)   == dropped' = dropped \cup ToSet(s)

Return(ret) == result' = ret /\ call' = NoCall

-----------------------------------------------------------------------------
(* The calls                                                               *)

Write(n) ==
  /\ call = NoCall /\ Accept(n)
  /\ call' = [op |-> "write", n |-> n] /\ rest' = Fresh(n)
  /\ UNCHANGED <<up, streamVars, result, dropped, wire>>

\* Mutant of Printf: the length is not compared with what is left of the buffer.
PrintfUnchecked(n) ==
  /\ call = NoCall /\ Accept(n)
  /\ call' = [op |-> "printf", n |-> n]
  /\ buf' = buf \o Fresh(n)
  /\ UNCHANGED <<up, offset, rest, result, dropped, wire>>

\* stream_vprintf() formats into the buffer.
Printf(n) ==
  /\ call = NoCall
  /\ n < Size - Len(buf) /\ Accept(n)
  /\ call' = [op |-> "printf", n |-> n]
  /\ buf' = buf \o Fresh(n)
  /\ UNCHANGED <<up, offset, rest, result, dropped, wire>>

\* "full".
PrintfFull(n) ==
  /\ call = NoCall
  /\ n >= Size - Len(buf)
  /\ result' = 1
  /\ UNCHANGED <<up, streamVars, call, rest, accepted, dropped, wire>>

SendFile(n) ==
  /\ call = NoCall
  /\ call' = [op |-> "file", n |-> n]
  /\ UNCHANGED <<up, streamVars, rest, result, accepted, dropped, wire>>

-----------------------------------------------------------------------------
(* stream_flush(), which each of them does first                           *)

\* Mutant of Flush: all of the buffer counts as written.
FlushMarksAll ==
  /\ call # NoCall /\ Pending # <<>> /\ up
  /\ \E k \in 1..Len(Pending) :
       /\ wire' = wire \o SubSeq(Pending, 1, k)
       /\ offset' = Len(buf)
  /\ UNCHANGED <<up, buf, call, rest, result, accepted, dropped>>

\* _stream_write(), one write() of some of it.
Flush ==
  /\ call # NoCall /\ Pending # <<>> /\ up
  /\ \E k \in 1..Len(Pending) :
       /\ wire' = wire \o SubSeq(Pending, 1, k)
       /\ offset' = offset + k
  /\ UNCHANGED <<up, buf, call, rest, result, accepted, dropped>>

\* tcp_stream_write() returns the 1 of a timeout.  `err = write() < 0' makes that a 0:
\* the whole size counts as written.
FlushTimeout ==
  /\ call # NoCall /\ Pending # <<>> /\ up
  /\ offset' = Len(buf) /\ Drop(Pending)
  /\ UNCHANGED <<up, buf, call, rest, result, accepted, wire>>

\* ... or the -1 of an error, which becomes a 1.
FlushFails ==
  /\ call # NoCall /\ Pending # <<>> /\ ~up
  /\ Return(1) /\ rest' = <<>> /\ Drop(rest)
  /\ UNCHANGED <<up, streamVars, accepted, wire>>

\* Nothing is pending: the _stream_clear() of stream_flush().
Flushed(op) ==
  /\ call.op = op /\ Pending = <<>>
  /\ buf' = <<>> /\ offset' = 0

-----------------------------------------------------------------------------
(* What follows it                                                         *)

PrintfReturns ==
  /\ Flushed("printf")
  /\ Return(0)
  /\ UNCHANGED <<up, rest, accepted, dropped, wire>>

\* _stream_write_direct(), one write() of some of the rest.
WriteDirect ==
  /\ Flushed("write") /\ rest # <<>> /\ up
  /\ \E k \in 1..Len(rest) :
       /\ wire' = wire \o SubSeq(rest, 1, k)
       /\ rest' = SubSeq(rest, k + 1, Len(rest))
  /\ UNCHANGED <<up, call, result, accepted, dropped>>

\* Mutant of WriteReturns: one write() has to do.
WriteReturnsEarly ==
  /\ Flushed("write")
  /\ rest = <<>> \/ Len(rest) < call.n
  /\ Return(0) /\ rest' = <<>>
  /\ UNCHANGED <<up, accepted, dropped, wire>>

WriteReturns ==
  /\ Flushed("write") /\ rest = <<>>
  /\ Return(0)
  /\ UNCHANGED <<up, rest, accepted, dropped, wire>>

\* A timeout, or an error.
WriteFails ==
  /\ Flushed("write") /\ rest # <<>>
  /\ Return(-1) /\ rest' = <<>> /\ Drop(rest)
  /\ UNCHANGED <<up, accepted, wire>>

\* tcp_stream_sendfile(): some of what is asked for.
FileSent ==
  /\ Flushed("file") /\ up
  /\ \E k \in 1 .. (IF call.n = 0 THEN Size ELSE call.n) :
       Accept(k) /\ wire' = wire \o Fresh(k)
  /\ Return(0)
  /\ UNCHANGED <<up, rest, dropped>>

\* The file has ended, or the timeout is over; or there is an error.
FileEnds ==
  /\ Flushed("file")
  /\ Return(1) \/ (~up /\ Return(-1))
  /\ UNCHANGED <<up, rest, accepted, dropped, wire>>

-----------------------------------------------------------------------------
\* The peer resets the connection (external).
Break ==
  /\ up /\ up' = FALSE
  /\ UNCHANGED <<streamVars, call, rest, result, accepted, dropped, wire>>

Init ==
  /\ up = TRUE /\ buf = <<>> /\ offset = 0
  /\ call = NoCall /\ rest = <<>> /\ result = 0
  /\ accepted = 0 /\ dropped = {} /\ wire = <<>>

Next ==
  \/ \E n \in Lengths : Write(n) \/ Printf(n) \/ PrintfFull(n) \/ SendFile(n)
  \/ Flush \/ FlushTimeout \/ FlushFails
  \/ PrintfReturns
  \/ WriteDirect \/ WriteReturns \/ WriteFails
  \/ FileSent \/ FileEnds
  \/ Break

Spec == Init /\ [][Next]_vars

-----------------------------------------------------------------------------
(* Properties                                                              *)

\* "note that offset <= length <= size at all times" (stream.h:28), and the types of
\* the other variables.
TypeOK ==
  /\ up \in BOOLEAN
  /\ buf \in Seq(1..accepted) /\ offset \in 0..Len(buf) /\ Len(buf) \in 0..Size
  /\ call \in Calls \cup {NoCall} /\ rest \in Seq(1..accepted)
  /\ result \in {-1, 0, 1} /\ accepted \in 0..MaxBytes
  /\ wire \in Seq(1..accepted) /\ dropped \subseteq 1..accepted

\* The socket gets the bytes in the order in which they were written, and none twice,
\* however output through the buffer (stream.c:501-521), past it (stream.c:490-499) and
\* from files (stream.c:575-591) is mixed, and whatever has failed or timed out before;
\* and only such a failure makes it miss any.
WrittenInOrder ==
  LET all == wire \o Pending \o rest
  IN  /\ \A i, j \in DOMAIN all : i < j => all[i] < all[j]
      /\ ToSet(all) = 1..accepted \ dropped

\* "Guaranteed to write the entire buffer contents on success" (stream.c:215): a call
\* that returns 0 has handed over to the socket all that it was given, unless the flush
\* of the buffer has timed out.
SentOrTimedOut ==
  [][call.n > 0 /\ call' = NoCall /\ result' = 0
       => accepted' \in ToSet(wire') \cup dropped']_vars

\* What the peer gets is what callers have written, but for what failed calls drop.
Bytes == INSTANCE ByteStream WITH
  sent     <- [i \in 1..accepted |-> i],
  lost     <- dropped,
  received <- wire
ByteStreamSpec == Bytes!Spec

\* "On success, the write buffer will be empty" (stream.c:471), and all that was in it is
\* sent: a formatted write that returns 0 has handed all of it over to the socket.
SuccessMeansSent ==
  [][call.op = "printf" /\ call.n > 0 /\ call' = NoCall /\ result' = 0
       => wire' # <<>> /\ Last(wire') = accepted']_vars
=============================================================================

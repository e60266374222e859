--------------------------- MODULE ReadStreamProofs ---------------------------
(***************************************************************************)
(* The invariants of ReadStream, for buffers of any size, anything that a  *)
(* peer may send and calls with any lengths.                               *)
(***************************************************************************)
EXTENDS ReadStream, SequenceFacts

-----------------------------------------------------------------------------
(* The inductive invariant                                                 *)

\* A call has moved its data to the front of the buffer, unless it is one that has data to
\* return at once.
AtFront == call # NoCall => offset = 0 \/ (call.op = "file" /\ Unread # <<>>)

\* The end of the file is seen only where it is, or for want of room.
EofIsSound == eof => AtEnd \/ (Len(buf) = Size /\ call.op # "string")

\* What is overwritten before it has been given to anybody is never the end of a line.
OnlyCrErased == \A p \in ToSet(Unread) \cap zeroed : content[p] = "cr"

IInv ==
  /\ TypeOK /\ NothingLost /\ EofIsEnd /\ LineIsOneLine
  /\ AtFront /\ EofIsSound /\ OnlyCrErased

-----------------------------------------------------------------------------
(* The buffer in a state                                                   *)

\* NothingLost in terms of Ascending.
LEMMA NothingLostMeans ==
  NothingLost <=> /\ Ascending(delivered \o Unread)
                  /\ ToSet(delivered \o Unread) = 1..fetched \ spilled
BY DEF NothingLost, Ascending

\* What is unread is what is behind the offset, each byte once, and none of it was delivered.
LEMMA UnreadFacts ==
  ASSUME TypeOK, NothingLost
  PROVE  /\ fetched \in Nat /\ Len(buf) \in Nat /\ offset \in 0..Len(buf)
         /\ Len(Unread) = Len(buf) - offset
         /\ Unread \in Seq(1..fetched) /\ DOMAIN Unread = 1..Len(buf) - offset
         /\ \A i \in 1..Len(buf) - offset : Unread[i] = buf[offset + i]
         /\ Ascending(Unread) /\ ToSet(Unread) \subseteq 1..fetched \ spilled
         /\ ToSet(delivered) \cap ToSet(Unread) = {}
<1>1. /\ fetched \in Nat /\ Len(buf) \in Nat /\ offset \in 0..Len(buf)
      /\ buf \in Seq(0..fetched) /\ delivered \in Seq(1..fetched)
  BY DEF TypeOK
<1>2. delivered \in Seq(0..fetched)
  BY <1>1, SeqMonotonic
<1>3. /\ Unread \in Seq(0..fetched) /\ Len(Unread) = Len(buf) - offset
      /\ \A i \in 1..Len(buf) - offset : Unread[i] = buf[offset + i]
  BY <1>1, RestFacts DEF Unread
<1>4. Ascending(delivered \o Unread) /\ ToSet(delivered \o Unread) = 1..fetched \ spilled
  BY NothingLostMeans
<1>5. ToSet(Unread) \subseteq 1..fetched \ spilled
  BY <1>2, <1>3, <1>4, JoinFacts
<1>6. Ascending(Unread) /\ ToSet(delivered) \cap ToSet(Unread) = {}
  BY <1>1, <1>2, <1>3, <1>4, CutFacts
<1>7. Len(Unread) \in Nat /\ DOMAIN Unread = 1..Len(Unread)
  BY <1>3, LenProperties
<1>8. Unread \in Seq(1..fetched)
  <2>1. \A i \in 1..Len(Unread) : Unread[i] \in 1..fetched
    BY <1>5, <1>7 DEF ToSet
  <2>2. QED BY <2>1, <1>3, ElementsFacts
<1>9. QED BY <1>1, <1>3, <1>5, <1>6, <1>7, <1>8

\* What is left when a call takes the first k unread bytes.
Rest(k) == SubSeq(buf, offset + k + 1, Len(buf))

LEMMA FirstFacts ==
  ASSUME TypeOK, NothingLost, NEW k \in 0..Len(Unread)
  PROVE  /\ First(k) \in Seq(1..fetched) /\ Len(First(k)) = k
         /\ \A i \in 1..k : First(k)[i] = Unread[i]
         /\ Rest(k) \in Seq(0..fetched) /\ First(k) \o Rest(k) = Unread
         /\ (delivered \o First(k)) \o Rest(k) = delivered \o Unread
         /\ delivered \o First(k) \in Seq(1..fetched)
         /\ ToSet(First(k)) \cap ToSet(Rest(k)) = {} /\ ToSet(Rest(k)) \subseteq ToSet(Unread)
         /\ ToSet(First(k)) \cup ToSet(Rest(k)) = ToSet(Unread)
<1>1. /\ fetched \in Nat /\ Len(buf) \in Nat /\ offset \in 0..Len(buf)
      /\ Len(Unread) = Len(buf) - offset /\ Unread \in Seq(1..fetched) /\ Ascending(Unread)
  BY UnreadFacts
<1>2. buf \in Seq(0..fetched) /\ delivered \in Seq(1..fetched)
  BY DEF TypeOK
<1>3. /\ First(k) \in Seq(1..fetched) /\ Len(First(k)) = k
      /\ \A i \in 1..k : First(k)[i] = Unread[i]
  BY <1>1, TakeFacts DEF First
<1>4. k \in 0..Len(buf) - offset /\ offset + k \in 0..Len(buf)
  BY <1>1
<1>5. First(k) \o Rest(k) = Unread
  BY <1>1, <1>2, <1>4, AdvanceFacts DEF First, Rest, Unread
<1>6. Rest(k) \in Seq(0..fetched)
  BY <1>2, <1>4, RestFacts DEF Rest
<1>7. delivered \in Seq(0..fetched) /\ First(k) \in Seq(0..fetched)
  BY <1>1, <1>2, <1>3, SeqMonotonic
<1>8. (delivered \o First(k)) \o Rest(k) = delivered \o Unread
  <2> DEFINE S == 0..fetched
  <2>1. delivered \in Seq(S) /\ First(k) \in Seq(S) /\ Rest(k) \in Seq(S)
    BY <1>6, <1>7
  <2> HIDE DEF S
  <2>2. (delivered \o First(k)) \o Rest(k) = delivered \o (First(k) \o Rest(k))
    BY <2>1, ConcatAssociative
  <2>3. QED BY <2>2, <1>5
<1>9. delivered \o First(k) \in Seq(1..fetched)
  BY <1>2, <1>3, ConcatProperties
<1>10. ToSet(First(k)) \cap ToSet(Rest(k)) = {}
  BY <1>1, <1>5, <1>6, <1>7, CutFacts
<1>11. ToSet(Unread) = ToSet(First(k)) \cup ToSet(Rest(k))
  BY <1>5, <1>6, <1>7, JoinSet
<1>12. QED BY <1>3, <1>5, <1>6, <1>8, <1>9, <1>10, <1>11

-----------------------------------------------------------------------------
(* Type correctness                                                        *)

LEMMA TypeInit == Init => TypeOK
<1> SUFFICES ASSUME Init PROVE TypeOK
  OBVIOUS
<1>1. content \in Seq(Chars) /\ Len(content) \in Nat
  BY ContentsAreSeq DEF Init
<1>2. <<>> \in Seq(0..fetched) /\ <<>> \in Seq(1..fetched) /\ Len(<<>>) = 0
  BY EmptySeq
<1>3. /\ content \in Contents /\ fetched \in 0..arrived /\ arrived \in 0..Len(content)
      /\ peer \in {"open", "closed", "reset"}
  BY <1>1 DEF Init
<1>4. buf \in Seq(0..fetched) /\ offset \in 0..Len(buf) /\ Len(buf) \in 0..Size
  BY <1>2, SizeIsPos DEF Init
<1>5. /\ zeroed \subseteq 1..fetched /\ spilled \subseteq 1..fetched
      /\ call \in Calls \cup {NoCall} /\ eof \in BOOLEAN
      /\ result.call \in Calls \cup {NoCall} /\ result.ret \in {-1, 0, 1}
  BY DEF Init
<1>6. result.data \in Seq(1..fetched) /\ delivered \in Seq(1..fetched)
  BY <1>2 DEF Init
<1>7. QED BY <1>3, <1>4, <1>5, <1>6 DEF TypeOK

\* What read() gets is new, and follows what it got before.
LEMMA FillFacts ==
  ASSUME TypeOK, NothingLost, Fill
  PROVE  \E k \in Nat \ {0} :
           /\ fetched' = fetched + k /\ fetched' <= arrived /\ Len(buf) + k <= Size
           /\ [i \in 1..k |-> fetched + i] \in Seq(0..fetched')
           /\ Len([i \in 1..k |-> fetched + i]) = k
           /\ ToSet([i \in 1..k |-> fetched + i]) = fetched + 1 .. fetched'
           /\ buf' = buf \o [i \in 1..k |-> fetched + i]
           /\ buf' \in Seq(0..fetched') /\ Len(buf') = Len(buf) + k
<1>1. /\ fetched \in Nat /\ arrived \in Nat /\ Len(buf) \in Nat /\ Size \in Nat
      /\ buf \in Seq(0..fetched) /\ Room = Size - Len(buf)
  BY SizeIsPos DEF TypeOK, Room
<1> DEFINE k == IF arrived - fetched < Room THEN arrived - fetched ELSE Room
           new == [i \in 1..k |-> fetched + i]
<1>2. /\ k \in Nat \ {0} /\ fetched' = fetched + k /\ fetched' <= arrived
      /\ Len(buf) + k <= Size /\ buf' = buf \o new
  BY <1>1 DEF Fill
<1> HIDE DEF k
<1>3. new \in [1..k -> 0..fetched'] /\ Len(new) = k
  BY <1>1, <1>2
<1>4. new \in Seq(0..fetched')
  BY <1>2, <1>3, SeqDef
<1>5. ToSet(new) = fetched + 1 .. fetched'
  <2>1. ASSUME NEW x \in fetched + 1 .. fetched' PROVE \E i \in 1..k : new[i] = x
    <3>1. x - fetched \in 1..k /\ new[x - fetched] = x
      BY <1>1, <1>2
    <3>2. QED BY <3>1
  <2>2. \A i \in 1..k : new[i] \in fetched + 1 .. fetched'
    BY <1>1, <1>2
  <2>3. QED BY <2>1, <2>2 DEF ToSet
<1> HIDE DEF new
<1>6. buf \in Seq(0..fetched')
  BY <1>1, <1>2, SeqMonotonic
<1>7. buf' \in Seq(0..fetched') /\ Len(buf') = Len(buf) + k
  <2>1. buf \o new \in Seq(0..fetched') /\ Len(buf \o new) = Len(buf) + Len(new)
    BY <1>4, <1>6, ConcatProperties
  <2>2. QED BY <2>1, <1>2, <1>3
<1>8. QED BY <1>2, <1>3, <1>4, <1>5, <1>7 DEF new

\* The part of TypeOK about a call that returns.
LEMMA ReturnTypes ==
  ASSUME TypeOK, NothingLost, NEW k \in 0..Len(Unread), NEW ret \in {-1, 0, 1}, Return(ret, First(k))
  PROVE  /\ fetched' = fetched /\ call' = NoCall /\ eof' = FALSE
         /\ content' = content /\ arrived' = arrived /\ peer' = peer
         /\ result'.call \in Calls \cup {NoCall} /\ result'.ret \in {-1, 0, 1}
         /\ result'.data \in Seq(1..fetched) /\ delivered' \in Seq(1..fetched)
<1>1. First(k) \in Seq(1..fetched) /\ delivered \o First(k) \in Seq(1..fetched)
  BY FirstFacts
<1>2. QED BY <1>1 DEF Return, TypeOK, networkVars

\* ... and of one that returns nothing.
LEMMA EmptyReturnTypes ==
  ASSUME TypeOK, NEW ret \in {-1, 0, 1}, Return(ret, <<>>)
  PROVE  /\ fetched' = fetched /\ call' = NoCall /\ eof' = FALSE
         /\ content' = content /\ arrived' = arrived /\ peer' = peer
         /\ result'.call \in Calls \cup {NoCall} /\ result'.ret \in {-1, 0, 1}
         /\ result'.data \in Seq(1..fetched) /\ delivered' = delivered
<1>1. delivered \o <<>> = delivered
  BY ConcatEmptySeq DEF TypeOK
<1>2. <<>> \in Seq(1..fetched)
  BY EmptySeq
<1>3. QED BY <1>1, <1>2 DEF Return, TypeOK, networkVars

\* What is erased is part of what has been read.
LEMMA ErasedFacts ==
  ASSUME TypeOK, NothingLost, NEW k \in 0..Len(Unread)
  PROVE  Erased(k) \subseteq ToSet(First(k)) /\ Erased(k) \subseteq 1..fetched
<1>1. /\ \A i \in 1..k : First(k)[i] = Unread[i]
      /\ First(k) \in Seq(1..fetched) /\ Len(First(k)) = k
  BY FirstFacts
<1>2. DOMAIN First(k) = 1..k /\ \A i \in 1..k : First(k)[i] \in 1..fetched
  BY <1>1, LenProperties
<1>3. QED BY <1>1, <1>2 DEF Erased, ToSet

\* The place of the first end of line.
FirstEnd == CHOOSE i \in LineEnds : \A j \in LineEnds : i <= j

LEMMA FirstEndFacts ==
  ASSUME TypeOK, NothingLost, LineEnds # {}
  PROVE  /\ FirstEnd \in LineEnds /\ FirstEnd \in 1..Len(Unread)
         /\ \A j \in LineEnds : FirstEnd <= j
<1>1. LineEnds \subseteq 1..Len(Unread) /\ Len(Unread) \in Nat
  BY UnreadFacts DEF LineEnds
<1>2. \E i \in LineEnds : \A j \in LineEnds : i <= j
  <2>1. LineEnds \subseteq Nat
    BY <1>1
  <2>2. QED BY <2>1, Least
<1>3. QED BY <1>1, <1>2 DEF FirstEnd

\* Bytes, lines and files are taken from the front.
LEMMA TakesTypes ==
  ASSUME TypeOK, NothingLost, NEW k \in 0..Len(Unread), NEW ret \in {-1, 0, 1},
         Return(ret, First(k)), buf' = buf, offset' = offset + k, spilled' = spilled,
         zeroed' \subseteq zeroed \cup Erased(k)
  PROVE  TypeOK'
<1>1. /\ Len(buf) \in Nat /\ offset \in 0..Len(buf) /\ Len(Unread) = Len(buf) - offset
  BY UnreadFacts
<1>2. offset' \in 0..Len(buf)
  BY <1>1
<1>3. zeroed' \subseteq 1..fetched
  BY ErasedFacts DEF TypeOK
<1>4. /\ fetched' = fetched /\ call' = NoCall /\ eof' = FALSE
      /\ content' = content /\ arrived' = arrived /\ peer' = peer
      /\ result'.call \in Calls \cup {NoCall} /\ result'.ret \in {-1, 0, 1}
      /\ result'.data \in Seq(1..fetched) /\ delivered' \in Seq(1..fetched)
  BY ReturnTypes
<1>5. QED BY <1>2, <1>3, <1>4 DEF TypeOK

\* Each step keeps the types.
LEMMA TypeStep ==
  ASSUME TypeOK, NothingLost, [Next]_vars
  PROVE  TypeOK'
<1>1. /\ fetched \in Nat /\ Len(buf) \in Nat /\ offset \in 0..Len(buf) /\ Size \in Nat \ {0}
      /\ Len(Unread) = Len(buf) - offset /\ Len(Unread) \in Nat
      /\ Unread \in Seq(1..fetched) /\ Room = Size - Len(buf)
  BY UnreadFacts, SizeIsPos DEF Room
<1>2. CASE Arrive \/ Hangup
  <2>1. /\ content' = content /\ arrived' \in arrived .. Len(content)
        /\ peer' \in {"open", "closed", "reset"}
        /\ UNCHANGED <<fetched, streamVars, callVars>>
    <3>1. arrived \in 0..Len(content)
      BY DEF TypeOK
    <3>2. Len(content) \in Nat
      BY ContentsAreSeq DEF TypeOK
    <3>3. QED BY <1>2, <3>1, <3>2 DEF Arrive, Hangup, TypeOK
  <2>2. QED BY <2>1, <1>1 DEF TypeOK, streamVars, callVars
<1>3. ASSUME NEW c \in Calls, Begin(c) PROVE TypeOK'
  <2>1. Unread \in Seq(0..fetched)
    BY <1>1, SeqMonotonic
  <2>2. buf' \in Seq(0..fetched) /\ Len(buf') \in 0..Size /\ offset' \in 0..Len(buf')
    BY <1>1, <1>3, <2>1 DEF Begin, TypeOK
  <2>3. QED BY <1>3, <2>2 DEF Begin, TypeOK, networkVars
<1>4. ASSUME NEW c \in Calls, BeginFull(c) PROVE TypeOK'
  <2>1. <<>> \in Seq(1..fetched)
    BY EmptySeq
  <2>2. /\ result'.call \in Calls /\ result'.ret \in {-1, 0, 1} /\ result'.data \in Seq(1..fetched)
        /\ UNCHANGED <<networkVars, fetched, streamVars, call, eof, delivered, spilled>>
    BY <1>4, <2>1 DEF BeginFull
  <2>3. QED BY <2>2 DEF TypeOK, networkVars, streamVars
<1>5. CASE Fill
  <2>1. PICK k \in Nat \ {0} :
           /\ fetched' = fetched + k /\ fetched' <= arrived /\ Len(buf) + k <= Size
           /\ buf' \in Seq(0..fetched') /\ Len(buf') = Len(buf) + k
    BY <1>5, FillFacts
  <2>2. 1..fetched \subseteq 1..fetched'
    BY <1>1, <2>1
  <2>3. result.data \in Seq(1..fetched') /\ delivered \in Seq(1..fetched')
    BY <2>2, SeqMonotonic DEF TypeOK
  <2>4. fetched' \in 0..arrived /\ offset \in 0..Len(buf') /\ Len(buf') \in 0..Size
    BY <1>1, <2>1 DEF TypeOK
  <2>5. zeroed \subseteq 1..fetched' /\ spilled \subseteq 1..fetched'
    BY <2>2 DEF TypeOK
  <2>6. QED BY <1>5, <2>1, <2>3, <2>4, <2>5 DEF Fill, TypeOK, networkVars, callVars
<1>6. CASE FillEof
  BY <1>6 DEF FillEof, TypeOK, networkVars, streamVars
<1>7. CASE FillFails
  <2>1. Erased(Len(Unread)) \subseteq 1..fetched
    BY <1>1, ErasedFacts
  <2>2. zeroed' \subseteq 1..fetched
    BY <1>7, <2>1 DEF FillFails, TypeOK
  <2>3. QED BY <1>7, <2>2, EmptyReturnTypes DEF FillFails, TypeOK
<1>8. CASE ReadReturns
  <2> DEFINE k == IF call.n \in 1..Len(Unread) THEN call.n ELSE Len(Unread)
  <2>1. k \in 0..Len(Unread)
    BY <1>1
  <2>2. /\ offset' = offset + k /\ buf' = buf /\ zeroed' = zeroed /\ spilled' = spilled
        /\ Return(IF k = 0 THEN 1 ELSE 0, First(k))
    BY <1>8 DEF ReadReturns
  <2> HIDE DEF k
  <2>3. QED BY <2>1, <2>2, TakesTypes
<1>9. CASE LineReturns
  <2>1. FirstEnd \in 0..Len(Unread)
    BY <1>9, <1>1, FirstEndFacts DEF LineReturns
  <2>2. /\ offset' = offset + FirstEnd /\ buf' = buf /\ zeroed' = zeroed \cup Erased(FirstEnd)
        /\ spilled' = spilled /\ Return(0, First(FirstEnd))
    BY <1>9 DEF LineReturns, FirstEnd
  <2>3. QED BY <2>1, <2>2, TakesTypes
<1>10. CASE LineEof
  <2>1. Erased(Len(Unread)) \subseteq 1..fetched
    BY <1>1, ErasedFacts
  <2>2. zeroed' \subseteq 1..fetched
    BY <1>10, <2>1 DEF LineEof, TypeOK
  <2>3. QED BY <1>10, <2>2, EmptyReturnTypes DEF LineEof, TypeOK
<1>11. CASE StringReturns
  <2> DEFINE k == IF call.n = 0 THEN Len(Unread) ELSE call.n
  <2>0. call.n \in Nat
    <3>1. call.op = "string"
      BY <1>11 DEF StringReturns
    <3>2. call \in [op : {"string"}, n : StringLengths]
      BY <3>1 DEF TypeOK, Calls, NoCall
    <3>3. QED BY <3>2, LengthsAreNat
  <2>1. k \in 0..Len(Unread)
    BY <1>1, <1>11, <2>0 DEF StringReturns
  <2>2. /\ buf' = InsertAt(buf, offset + k + 1, 0) /\ offset' = Len(buf) + 1
        /\ spilled' = spilled \cup {Unread[i] : i \in k + 1 .. Len(Unread)}
        /\ Return(0, First(k)) /\ zeroed' = zeroed /\ Room > 0
    BY <1>11 DEF StringReturns
  <2> HIDE DEF k
  <2>3. offset + k + 1 \in 1..Len(buf) + 1 /\ 0 \in 0..fetched
    BY <1>1, <2>1
  <2>4. buf' \in Seq(0..fetched) /\ Len(buf') = Len(buf) + 1
    BY <2>2, <2>3, InsertFacts DEF TypeOK
  <2>5. offset' \in 0..Len(buf') /\ Len(buf') \in 0..Size
    BY <1>1, <2>2, <2>4
  <2>6. \A i \in k + 1 .. Len(Unread) : Unread[i] \in 1..fetched
    BY <1>1, <2>1, ElementOfSeq
  <2>7. spilled' \subseteq 1..fetched
    BY <2>2, <2>6 DEF TypeOK
  <2>8. QED BY <2>1, <2>2, <2>4, <2>5, <2>7, ReturnTypes DEF TypeOK
<1>12. CASE StringEof \/ StringFull
  BY <1>12, EmptyReturnTypes DEF StringEof, StringFull, TypeOK, streamVars
<1>13. CASE FileReturns
  <2>1. PICK k \in 1..Len(Unread) : offset' = offset + k /\ Return(0, First(k))
    BY <1>13 DEF FileReturns
  <2>2. k \in 0..Len(Unread)
    BY <1>1
  <2>3. QED BY <1>13, <2>1, <2>2, TakesTypes DEF FileReturns
<1>14. CASE FileFails
  <2>1. PICK ret \in {-1, 1} : Return(ret, <<>>)
    BY <1>14 DEF FileFails
  <2>2. QED BY <1>14, <2>1, EmptyReturnTypes DEF FileFails, TypeOK, streamVars
<1>15. CASE UNCHANGED vars
  BY <1>15 DEF TypeOK, vars, networkVars, streamVars, callVars
<1>16. QED
  BY <1>2, <1>3, <1>4, <1>5, <1>6, <1>7, <1>8, <1>9, <1>10, <1>11, <1>12, <1>13, <1>14, <1>15
     DEF Next, Progress

-----------------------------------------------------------------------------
(* No byte is lost                                                         *)

\* What is left behind the first k unread bytes.
LEMMA RestElements ==
  ASSUME TypeOK, NothingLost, NEW k \in 0..Len(Unread)
  PROVE  ToSet(Rest(k)) = {Unread[i] : i \in k + 1 .. Len(Unread)}
<1>1. /\ Len(buf) \in Nat /\ offset \in 0..Len(buf) /\ Len(Unread) = Len(buf) - offset
      /\ \A i \in 1..Len(buf) - offset : Unread[i] = buf[offset + i]
  BY UnreadFacts
<1>2. offset + k \in 0..Len(buf) /\ buf \in Seq(0..fetched)
  BY <1>1 DEF TypeOK
<1>3. /\ Rest(k) \in Seq(0..fetched) /\ Len(Rest(k)) = Len(buf) - (offset + k)
      /\ \A i \in 1..Len(buf) - (offset + k) : Rest(k)[i] = buf[(offset + k) + i]
  BY <1>2, RestFacts DEF Rest
<1>4. DOMAIN Rest(k) = 1..Len(buf) - (offset + k)
  BY <1>3, LenProperties
<1>5. ASSUME NEW i \in 1..Len(buf) - (offset + k)
      PROVE  k + i \in k + 1 .. Len(Unread) /\ Rest(k)[i] = Unread[k + i]
  <2>1. k + i \in 1..Len(buf) - offset /\ (offset + k) + i = offset + (k + i)
    BY <1>1, <1>2
  <2>2. Rest(k)[i] = buf[(offset + k) + i]
    BY <1>3
  <2>3. Unread[k + i] = buf[offset + (k + i)]
    BY <2>1, <1>1
  <2>4. k + i \in k + 1 .. Len(Unread)
    BY <1>1, <1>2, <2>1
  <2>5. QED BY <2>1, <2>2, <2>3, <2>4
<1>6. ASSUME NEW j \in k + 1 .. Len(Unread)
      PROVE  j - k \in 1..Len(buf) - (offset + k) /\ Rest(k)[j - k] = Unread[j]
  <2>1. j - k \in 1..Len(buf) - (offset + k) /\ k + (j - k) = j
    BY <1>1, <1>2
  <2>2. QED BY <2>1, <1>5
<1>7. QED BY <1>4, <1>5, <1>6 DEF ToSet

\* A call that takes the first k bytes leaves the others in their place.
LEMMA TakesNothingLost ==
  ASSUME TypeOK, NothingLost, NEW k \in 0..Len(Unread), delivered' = delivered \o First(k),
         buf' = buf, offset' = offset + k, spilled' = spilled, fetched' = fetched
  PROVE  NothingLost' /\ Unread' = Rest(k)
<1>1. Unread' = Rest(k)
  BY DEF Unread, Rest
<1>2. delivered' \o Unread' = delivered \o Unread
  BY <1>1, FirstFacts
<1>3. QED BY <1>1, <1>2 DEF NothingLost

\* ... and a step that leaves the unread bytes alone loses nothing.
LEMMA SameNothingLost ==
  ASSUME TypeOK, NothingLost, delivered' = delivered, Unread' = Unread,
         spilled' = spilled, fetched' = fetched
  PROVE  NothingLost'
BY DEF NothingLost

\* read() appends.
LEMMA FillNothingLost ==
  ASSUME TypeOK, NothingLost, Fill
  PROVE  /\ NothingLost'
         /\ ToSet(Unread') = ToSet(Unread) \cup (fetched + 1 .. fetched')
<1>1. /\ fetched \in Nat /\ Unread \in Seq(1..fetched) /\ offset \in 0..Len(buf)
  BY UnreadFacts
<1>2. PICK k \in Nat \ {0} :
           /\ fetched' = fetched + k
           /\ [i \in 1..k |-> fetched + i] \in Seq(0..fetched')
           /\ Len([i \in 1..k |-> fetched + i]) = k
           /\ ToSet([i \in 1..k |-> fetched + i]) = fetched + 1 .. fetched'
           /\ buf' = buf \o [i \in 1..k |-> fetched + i]
  BY FillFacts
<1> DEFINE new == [i \in 1..k |-> fetched + i]
           S   == 0..fetched'
<1>3. /\ delivered \in Seq(S) /\ Unread \in Seq(S) /\ buf \in Seq(S)
  <2>1. 1..fetched \subseteq S /\ 0..fetched \subseteq S
    BY <1>1, <1>2
  <2>2. delivered \in Seq(1..fetched) /\ buf \in Seq(0..fetched)
    BY DEF TypeOK
  <2> HIDE DEF S
  <2>3. QED BY <2>1, <2>2, <1>1, SeqMonotonic
<1>4. Ascending(new)
  BY <1>1, <1>2 DEF Ascending
<1>5. /\ new \in Seq(S) /\ ToSet(new) = fetched + 1 .. fetched' /\ buf' = buf \o new
      /\ fetched' \in Nat
  BY <1>1, <1>2
<1> HIDE DEF new, S
<1>6. Unread' = Unread \o new
  <2>1. Unread' = SubSeq(buf \o new, offset + 1, Len(buf \o new))
    BY <1>5 DEF Unread, Fill
  <2>2. QED BY <2>1, <1>1, <1>3, <1>5, RestOfJoin DEF Unread
<1> DEFINE all == delivered \o Unread
<1>7. all \in Seq(S)
  BY <1>3, ConcatProperties
<1>8. Ascending(all) /\ ToSet(all) = 1..fetched \ spilled
  BY NothingLostMeans
<1>9. delivered' \o Unread' = all \o new
  <2>1. \A s, t, u \in Seq(S) : (s \o t) \o u = s \o (t \o u)
    BY ConcatAssociative
  <2>2. QED BY <2>1, <1>3, <1>5, <1>6 DEF Fill, callVars
<1> HIDE DEF all
<1>10. Ascending(all \o new)
  <2>1. \A x \in ToSet(all) : x <= fetched
    BY <1>1, <1>8
  <2>2. \A x \in ToSet(new) : x > fetched
    BY <1>1, <1>5
  <2>3. QED BY <2>1, <2>2, <1>1, <1>4, <1>5, <1>7, <1>8, AscendingJoin DEF S
<1>11. ToSet(all \o new) = ToSet(all) \cup ToSet(new)
  BY <1>5, <1>7, JoinSet, ZenonT(60)
<1>12. spilled' = spilled /\ spilled \subseteq 1..fetched
  BY DEF Fill, callVars, TypeOK
<1>13. (1..fetched \ spilled) \cup (fetched + 1 .. fetched') = 1..fetched' \ spilled
  BY <1>1, <1>2, <1>12
<1>14. ToSet(Unread') = ToSet(Unread) \cup ToSet(new)
  <2>1. ToSet(Unread \o new) = ToSet(Unread) \cup ToSet(new)
    BY <1>3, <1>5, JoinSet, ZenonT(60)
  <2>2. QED BY <2>1, <1>6
<1>15. NothingLost'
  <2>1. Ascending(delivered' \o Unread') /\ ToSet(delivered' \o Unread') = 1..fetched' \ spilled'
    BY <1>5, <1>8, <1>9, <1>10, <1>11, <1>12, <1>13
  <2>2. QED BY <2>1 DEF NothingLost, Ascending
<1>16. QED BY <1>5, <1>14, <1>15

\* A string takes its bytes and drops the rest.
LEMMA StringNothingLost ==
  ASSUME TypeOK, NothingLost, TypeOK', NEW k \in 0..Len(Unread), delivered' = delivered \o First(k),
         Len(buf') = Len(buf) + 1, offset' = Len(buf) + 1, fetched' = fetched,
         spilled' = spilled \cup {Unread[i] : i \in k + 1 .. Len(Unread)}
  PROVE  NothingLost' /\ Unread' = <<>>
<1>1. Len(buf) \in Nat /\ fetched \in Nat
  BY UnreadFacts
<1>2. Unread' = <<>>
  <2>1. SubSeq(buf', offset' + 1, Len(buf')) = <<>>
    BY <1>1, SubSeqEmpty
  <2>2. QED BY <2>1 DEF Unread
<1> DEFINE taken == delivered \o First(k)
           rest  == Rest(k)
<1>3. /\ taken \in Seq(1..fetched) /\ rest \in Seq(0..fetched)
      /\ taken \o rest = delivered \o Unread
  BY FirstFacts
<1>4. ToSet(rest) = {Unread[i] : i \in k + 1 .. Len(Unread)}
  BY RestElements
<1>5. delivered' \o Unread' = taken
  BY <1>2, <1>3, ConcatEmptySeq
<1>6. Ascending(delivered \o Unread) /\ ToSet(delivered \o Unread) = 1..fetched \ spilled
  BY NothingLostMeans
<1> HIDE DEF taken, rest
<1>7. taken \in Seq(0..fetched)
  BY <1>1, <1>3, SeqMonotonic
<1>8. Ascending(taken) /\ ToSet(taken) \cap ToSet(rest) = {}
  BY <1>1, <1>3, <1>6, <1>7, CutFacts
<1>9. ToSet(taken) \cup ToSet(rest) = 1..fetched \ spilled
  <2>1. ToSet(taken \o rest) = ToSet(taken) \cup ToSet(rest)
    <3>1. \A s, t \in Seq(0..fetched) : ToSet(s \o t) = ToSet(s) \cup ToSet(t)
      BY JoinFacts
    <3>2. QED BY <3>1, <1>3, <1>7
  <2>2. QED BY <2>1, <1>3, <1>6
<1>10. ToSet(taken) = 1..fetched' \ spilled'
  BY <1>4, <1>8, <1>9
<1>11. QED BY <1>2, <1>5, <1>8, <1>10 DEF NothingLost, Ascending

\* Each step keeps NothingLost.
LEMMA NothingLostStep ==
  ASSUME TypeOK, NothingLost, [Next]_vars
  PROVE  NothingLost'
<1>1. /\ Len(buf) \in Nat /\ offset \in 0..Len(buf) /\ Len(Unread) = Len(buf) - offset
      /\ Len(Unread) \in Nat /\ Unread \in Seq(1..fetched)
  BY UnreadFacts
<1>2. CASE Arrive \/ Hangup
  <2>1. UNCHANGED <<buf, offset, delivered, spilled, fetched>>
    BY <1>2 DEF Arrive, Hangup, streamVars, callVars
  <2>2. QED BY <2>1, SameNothingLost DEF Unread
<1>3. ASSUME NEW c \in Calls, Begin(c) PROVE NothingLost'
  <2>1. UNCHANGED <<delivered, spilled, fetched>>
    BY <1>3 DEF Begin
  <2>2. Unread' = Unread
    <3>1. CASE UNCHANGED <<buf, offset>>
      BY <3>1 DEF Unread
    <3>2. CASE buf' = Unread /\ offset' = 0
      <4>1. SubSeq(Unread, 1, Len(Unread)) = Unread
        BY <1>1, SubSeqFull
      <4>2. Unread' = SubSeq(buf', offset' + 1, Len(buf'))
        BY DEF Unread
      <4>3. QED BY <3>2, <4>1, <4>2
    <3>3. QED BY <1>3, <3>1, <3>2 DEF Begin
  <2>3. QED BY <2>1, <2>2, SameNothingLost
<1>4. ASSUME NEW c \in Calls, BeginFull(c) PROVE NothingLost'
  <2>1. UNCHANGED <<buf, offset, delivered, spilled, fetched>>
    BY <1>4 DEF BeginFull, streamVars
  <2>2. QED BY <2>1, SameNothingLost DEF Unread
<1>5. CASE Fill
  BY <1>5, FillNothingLost
<1>6. CASE FillEof
  <2>1. UNCHANGED <<buf, offset, delivered, spilled, fetched>>
    BY <1>6 DEF FillEof, streamVars
  <2>2. QED BY <2>1, SameNothingLost DEF Unread
<1>7. CASE FillFails \/ LineEof \/ StringEof \/ StringFull \/ FileFails
  <2>1. UNCHANGED <<buf, offset, spilled>>
    BY <1>7 DEF FillFails, LineEof, StringEof, StringFull, FileFails, streamVars
  <2>2. PICK ret \in {-1, 0, 1} : Return(ret, <<>>)
    BY <1>7 DEF FillFails, LineEof, StringEof, StringFull, FileFails
  <2>3. delivered' = delivered /\ fetched' = fetched
    BY <2>2, EmptyReturnTypes
  <2>4. QED BY <2>1, <2>3, SameNothingLost DEF Unread
<1>8. CASE ReadReturns
  <2> DEFINE k == IF call.n \in 1..Len(Unread) THEN call.n ELSE Len(Unread)
  <2>1. k \in 0..Len(Unread)
    BY <1>1
  <2>2. /\ offset' = offset + k /\ buf' = buf /\ spilled' = spilled
        /\ delivered' = delivered \o First(k) /\ fetched' = fetched
    BY <1>8 DEF ReadReturns, Return
  <2> HIDE DEF k
  <2>3. QED BY <2>1, <2>2, TakesNothingLost
<1>9. CASE LineReturns
  <2>1. FirstEnd \in 0..Len(Unread)
    BY <1>9, <1>1, FirstEndFacts DEF LineReturns
  <2>2. /\ offset' = offset + FirstEnd /\ buf' = buf /\ spilled' = spilled
        /\ delivered' = delivered \o First(FirstEnd) /\ fetched' = fetched
    BY <1>9 DEF LineReturns, FirstEnd, Return
  <2>3. QED BY <2>1, <2>2, TakesNothingLost
<1>10. CASE StringReturns
  <2> DEFINE k == IF call.n = 0 THEN Len(Unread) ELSE call.n
  <2>1. k \in 0..Len(Unread)
    <3>1. call.op = "string"
      BY <1>10 DEF StringReturns
    <3>2. call \in [op : {"string"}, n : StringLengths]
      BY <3>1 DEF TypeOK, Calls, NoCall
    <3>3. call.n \in Nat
      BY <3>2, LengthsAreNat
    <3>4. QED BY <1>1, <1>10, <3>3 DEF StringReturns
  <2>2. /\ buf' = InsertAt(buf, offset + k + 1, 0) /\ offset' = Len(buf) + 1
        /\ spilled' = spilled \cup {Unread[i] : i \in k + 1 .. Len(Unread)}
        /\ delivered' = delivered \o First(k) /\ fetched' = fetched
    BY <1>10 DEF StringReturns, Return
  <2> HIDE DEF k
  <2>3. offset + k + 1 \in 1..Len(buf) + 1 /\ 0 \in 0..fetched /\ buf \in Seq(0..fetched)
    BY <1>1, <2>1 DEF TypeOK
  <2>4. Len(buf') = Len(buf) + 1
    BY <2>2, <2>3, InsertFacts
  <2>5. TypeOK'
    BY TypeStep
  <2>6. QED BY <2>1, <2>2, <2>4, <2>5, StringNothingLost
<1>11. CASE FileReturns
  <2>1. PICK k \in 1..Len(Unread) :
          /\ offset' = offset + k /\ delivered' = delivered \o First(k) /\ fetched' = fetched
    BY <1>11 DEF FileReturns, Return
  <2>2. k \in 0..Len(Unread) /\ buf' = buf /\ spilled' = spilled
    BY <1>1, <1>11 DEF FileReturns
  <2>3. QED BY <2>1, <2>2, TakesNothingLost
<1>12. CASE UNCHANGED vars
  <2>1. UNCHANGED <<buf, offset, delivered, spilled, fetched>>
    BY <1>12 DEF vars, streamVars, callVars
  <2>2. QED BY <2>1, SameNothingLost DEF Unread
<1>13. QED
  BY <1>2, <1>3, <1>4, <1>5, <1>6, <1>7, <1>8, <1>9, <1>10, <1>11, <1>12 DEF Next, Progress

-----------------------------------------------------------------------------
(* What a call reports                                                     *)

\* A call in progress is no NoCall, and its action names its kind.
LEMMA CallFacts ==
  ASSUME TypeOK
  PROVE  /\ \A c \in Calls : c # NoCall /\ c.op \in {"read", "file", "string", "line"}
         /\ call # NoCall => call.op \in {"read", "file", "string", "line"}
         /\ call = NoCall => call.op = "none"
BY DEF TypeOK, Calls, NoCall

\* Each step keeps AtFront and EofIsSound.
LEMMA CallStep ==
  ASSUME TypeOK, NothingLost, AtFront, EofIsSound, [Next]_vars
  PROVE  AtFront' /\ EofIsSound'
<1>1. /\ Len(buf) \in Nat /\ offset \in 0..Len(buf) /\ Len(Unread) = Len(buf) - offset
      /\ Room = Size - Len(buf) /\ Len(buf) \in 0..Size /\ Size \in Nat \ {0}
      /\ eof \in BOOLEAN /\ fetched \in 0..arrived /\ arrived \in Nat
  BY UnreadFacts, SizeIsPos DEF Room, TypeOK
<1>2. CASE Arrive \/ Hangup
  <2>1. peer = "open" /\ UNCHANGED <<buf, offset, call, eof>>
    BY <1>2 DEF Arrive, Hangup, streamVars, callVars
  <2>2. QED BY <2>1 DEF AtFront, EofIsSound, AtEnd, Unread
<1>3. ASSUME NEW c \in Calls, Begin(c) PROVE AtFront' /\ EofIsSound'
  <2>1. call' = c /\ eof' = FALSE
    BY <1>3 DEF Begin
  <2>2. CASE Skips(c)
    <3>1. c.op = "file" /\ Unread # <<>> /\ UNCHANGED <<buf, offset>>
      BY <1>3, <2>2 DEF Begin, Skips
    <3>2. QED BY <2>1, <3>1 DEF AtFront, EofIsSound, Unread
  <2>3. CASE ~Skips(c)
    BY <1>3, <2>1, <2>3 DEF Begin, AtFront, EofIsSound
  <2>4. QED BY <2>2, <2>3
<1>4. ASSUME NEW c \in Calls, BeginFull(c) PROVE AtFront' /\ EofIsSound'
  BY <1>4 DEF BeginFull, AtFront, EofIsSound, AtEnd, Unread, networkVars, streamVars
<1>5. CASE Fill
  <2>1. eof = FALSE /\ eof' = eof /\ call' = call /\ offset' = offset
    BY <1>1, <1>5 DEF Fill, Wanted, callVars
  <2>2. ~(call.op = "file" /\ Unread # <<>>)
    BY <1>5 DEF Fill, Wanted
  <2>3. QED BY <2>1, <2>2 DEF AtFront, EofIsSound
<1>6. CASE FillEof
  <2>1. UNCHANGED <<networkVars, fetched, buf, offset, call>>
    BY <1>6 DEF FillEof, streamVars
  <2>2. AtEnd \/ (Len(buf) = Size /\ call.op # "string")
    <3>1. CASE Room = 0
      <4>1. CASE call.op = "string"
        BY <1>6, <4>1, <3>1, <1>1 DEF FillEof, Wanted, AtEnd
      <4>2. QED BY <3>1, <4>1, <1>1
    <3>2. QED BY <1>6, <3>1 DEF FillEof, AtEnd
  <2>3. QED BY <2>1, <2>2 DEF AtFront, EofIsSound, AtEnd, Unread, networkVars
<1>7. CASE \/ FillFails \/ ReadReturns \/ LineReturns \/ LineEof \/ StringReturns
           \/ StringEof \/ StringFull \/ FileReturns \/ FileFails
  <2>1. call' = NoCall /\ eof' = FALSE
    BY <1>7 DEF FillFails, ReadReturns, LineReturns, LineEof, StringReturns, StringEof,
                StringFull, FileReturns, FileFails, Return
  <2>2. QED BY <2>1 DEF AtFront, EofIsSound
<1>8. CASE UNCHANGED vars
  BY <1>8 DEF vars, networkVars, streamVars, callVars, AtFront, EofIsSound, AtEnd, Unread
<1>9. QED
  BY <1>2, <1>3, <1>4, <1>5, <1>6, <1>7, <1>8 DEF Next, Progress

\* Each step keeps EofIsEnd: a call reports the end when _stream_read() did, and a buffer
\* that is full is not empty.
LEMMA EofStep ==
  ASSUME TypeOK, NothingLost, AtFront, EofIsSound, EofIsEnd, [Next]_vars
  PROVE  EofIsEnd'
<1>1. /\ Len(buf) \in Nat /\ offset \in 0..Len(buf) /\ Len(Unread) = Len(buf) - offset
      /\ Unread \in Seq(1..fetched) /\ Room = Size - Len(buf) /\ Size \in Nat \ {0}
      /\ eof \in BOOLEAN
  BY UnreadFacts, SizeIsPos DEF Room, TypeOK
<1>2. CASE Arrive \/ Hangup
  <2>1. peer = "open" /\ UNCHANGED <<buf, call, result>>
    BY <1>2 DEF Arrive, Hangup, streamVars, callVars
  <2>2. QED BY <2>1 DEF EofIsEnd, AtEnd
<1>3. ASSUME NEW c \in Calls, Begin(c) PROVE EofIsEnd'
  <2>1. call' # NoCall
    BY <1>3, CallFacts DEF Begin
  <2>2. QED BY <2>1 DEF EofIsEnd
<1>4. ASSUME NEW c \in Calls, BeginFull(c) PROVE EofIsEnd'
  BY <1>4 DEF BeginFull, EofIsEnd
<1>5. CASE Fill \/ FillEof
  <2>1. call' = call /\ call # NoCall
    BY <1>5, CallFacts DEF Fill, FillEof, Wanted, callVars
  <2>2. QED BY <2>1 DEF EofIsEnd
<1>6. CASE FillFails \/ StringFull
  BY <1>6 DEF FillFails, StringFull, Return, EofIsEnd
<1>7. CASE LineReturns \/ StringReturns \/ FileReturns
  BY <1>7 DEF LineReturns, StringReturns, FileReturns, Return, EofIsEnd
<1>8. CASE ReadReturns
  <2>1. SUFFICES ASSUME result'.ret = 1, result'.call # [op |-> "read", n |-> 0] PROVE AtEnd'
    BY DEF EofIsEnd
  <2>2. call.op = "read" /\ call \in [op : {"read", "file"}, n : Lengths]
    BY <1>8 DEF ReadReturns, TypeOK, Calls, NoCall
  <2>3. result'.call = call /\ call.n # 0
    BY <1>8, <2>1, <2>2 DEF ReadReturns, Return
  <2>4. call.n \in Nat \ {0}
    BY <2>2, <2>3, LengthsAreNat
  <2>5. Len(Unread) = 0
    BY <1>1, <1>8, <2>1, <2>4 DEF ReadReturns, Return
  <2>6. eof /\ offset = 0
    BY <1>8, <2>2, <2>4, <2>5, CallFacts DEF ReadReturns, Wanted, AtFront, NoCall
  <2>7. AtEnd
    BY <2>5, <2>6, <1>1 DEF EofIsSound
  <2>8. QED BY <2>7, <1>8 DEF ReadReturns, Return, AtEnd, networkVars
<1>9. CASE LineEof
  <2>1. eof /\ call.op = "line" /\ result'.call = call /\ buf' = buf
    BY <1>9 DEF LineEof, Return
  <2>2. AtEnd \/ Len(buf) = Size
    BY <2>1 DEF EofIsSound
  <2>3. QED BY <1>9, <2>1, <2>2 DEF LineEof, Return, EofIsEnd, AtEnd, networkVars
<1>10. CASE StringEof
  <2>1. AtEnd
    BY <1>10 DEF StringEof, EofIsSound
  <2>2. QED BY <1>10, <2>1 DEF StringEof, Return, EofIsEnd, AtEnd, networkVars
<1>11. CASE FileFails
  <2>1. SUFFICES ASSUME result'.ret = 1 PROVE AtEnd'
    BY DEF EofIsEnd
  <2>2. Unread = <<>> /\ eof /\ call.op = "file"
    BY <1>11, <2>1 DEF FileFails, Return
  <2>3. offset = 0 /\ Len(Unread) = 0
    BY <2>2, CallFacts DEF AtFront
  <2>4. AtEnd
    BY <2>2, <2>3, <1>1 DEF EofIsSound
  <2>5. QED BY <2>4, <1>11 DEF FileFails, Return, AtEnd, networkVars
<1>12. CASE UNCHANGED vars
  BY <1>12 DEF vars, networkVars, streamVars, callVars, EofIsEnd, AtEnd
<1>13. QED
  BY <1>2, <1>3, <1>4, <1>5, <1>6, <1>7, <1>8, <1>9, <1>10, <1>11, <1>12 DEF Next, Progress

-----------------------------------------------------------------------------
(* Lines                                                                   *)

\* An unread byte that looks like the end of a line is one, and the other way round.
LEMMA LineEndMeans ==
  ASSUME TypeOK, NothingLost, OnlyCrErased, NEW i \in 1..Len(Unread)
  PROVE  /\ i \in LineEnds <=> content[Unread[i]] = "lf"
         /\ Unread[i] \in ToSet(Unread)
<1>1. /\ DOMAIN Unread = 1..Len(Unread) /\ ToSet(Unread) \subseteq 1..fetched /\ fetched \in Nat
  BY UnreadFacts
<1>2. Unread[i] \in ToSet(Unread) /\ Unread[i] # 0
  BY <1>1 DEF ToSet
<1>3. Unread[i] \in zeroed => content[Unread[i]] = "cr"
  BY <1>2 DEF OnlyCrErased
<1>4. QED BY <1>1, <1>2, <1>3 DEF LineEnds, CharAt

\* Each step keeps OnlyCrErased.
LEMMA ErasedStep ==
  ASSUME TypeOK, NothingLost, OnlyCrErased, [Next]_vars
  PROVE  OnlyCrErased'
<1>1. /\ fetched \in Nat /\ Len(Unread) \in Nat /\ Unread \in Seq(1..fetched)
      /\ DOMAIN Unread = 1..Len(Unread)
      /\ Len(buf) \in Nat /\ offset \in 0..Len(buf) /\ zeroed \subseteq 1..fetched
  BY UnreadFacts DEF TypeOK
<1>2. ASSUME Unread' = Unread, zeroed' = zeroed, content' = content PROVE OnlyCrErased'
  BY <1>2 DEF OnlyCrErased
<1>3. CASE Arrive \/ Hangup
  BY <1>2, <1>3 DEF Arrive, Hangup, streamVars, callVars, Unread
<1>4. ASSUME NEW c \in Calls, Begin(c) PROVE OnlyCrErased'
  <2>1. CASE UNCHANGED <<buf, offset>>
    BY <1>2, <1>4, <2>1 DEF Begin, networkVars, Unread
  <2>2. CASE buf' = Unread /\ offset' = 0
    <3>1. SubSeq(Unread, 1, Len(Unread)) = Unread
      BY <1>1, SubSeqFull
    <3>2. Unread' = SubSeq(buf', offset' + 1, Len(buf'))
      BY DEF Unread
    <3>3. QED BY <1>2, <1>4, <2>2, <3>1, <3>2 DEF Begin, networkVars
  <2>3. QED BY <1>4, <2>1, <2>2 DEF Begin
<1>5. ASSUME NEW c \in Calls, BeginFull(c) PROVE OnlyCrErased'
  BY <1>2, <1>5 DEF BeginFull, networkVars, streamVars, Unread
<1>6. CASE Fill
  <2>1. ToSet(Unread') = ToSet(Unread) \cup (fetched + 1 .. fetched')
    BY <1>6, FillNothingLost
  <2>2. (fetched + 1 .. fetched') \cap zeroed = {}
    BY <1>1
  <2>3. zeroed' = zeroed /\ content' = content
    BY <1>6 DEF Fill, networkVars
  <2>4. QED BY <2>1, <2>2, <2>3 DEF OnlyCrErased
<1>7. CASE FillEof \/ StringEof \/ StringFull \/ FileFails
  BY <1>2, <1>7 DEF FillEof, StringEof, StringFull, FileFails, Return, networkVars, streamVars, Unread
<1>8. CASE FillFails \/ LineEof
  <2>1. Unread' = Unread /\ content' = content
    BY <1>8 DEF FillFails, LineEof, Return, networkVars, Unread
  <2>2. zeroed' = zeroed \/ (zeroed' = zeroed \cup Erased(Len(Unread)) /\ LineEnds = {})
    BY <1>8, CallFacts DEF FillFails, LineEof, Wanted
  <2>3. ASSUME LineEnds = {}, NEW p \in Erased(Len(Unread)) PROVE content[p] = "cr"
    <3>1. PICK j \in 1..Len(Unread) : CharAt(Unread[j]) \in {"cr", "lf"} /\ p = Unread[j]
      BY <2>3 DEF Erased
    <3>2. CharAt(Unread[j]) # "lf"
      BY <2>3, <1>1 DEF LineEnds
    <3>3. QED BY <3>1, <3>2 DEF CharAt
  <2>4. QED BY <2>1, <2>2, <2>3 DEF OnlyCrErased
<1>9. ASSUME NEW k \in 0..Len(Unread), delivered' = delivered \o First(k), buf' = buf,
             offset' = offset + k, spilled' = spilled, fetched' = fetched, content' = content,
             zeroed' \subseteq zeroed \cup Erased(k)
      PROVE  OnlyCrErased'
  <2>1. Unread' = Rest(k)
    BY <1>9, TakesNothingLost
  <2>2. ToSet(Rest(k)) \cap Erased(k) = {} /\ ToSet(Rest(k)) \subseteq ToSet(Unread)
    BY FirstFacts, ErasedFacts
  <2>3. QED BY <1>9, <2>1, <2>2 DEF OnlyCrErased
<1>10. CASE ReadReturns
  <2> DEFINE k == IF call.n \in 1..Len(Unread) THEN call.n ELSE Len(Unread)
  <2>1. k \in 0..Len(Unread)
    BY <1>1
  <2>2. /\ offset' = offset + k /\ buf' = buf /\ spilled' = spilled /\ zeroed' = zeroed
        /\ delivered' = delivered \o First(k) /\ fetched' = fetched /\ content' = content
    BY <1>10 DEF ReadReturns, Return, networkVars
  <2> HIDE DEF k
  <2>3. QED BY <2>1, <2>2, <1>9
<1>11. CASE LineReturns
  <2>1. FirstEnd \in 0..Len(Unread)
    BY <1>11, <1>1, FirstEndFacts DEF LineReturns
  <2>2. /\ offset' = offset + FirstEnd /\ buf' = buf /\ spilled' = spilled
        /\ zeroed' = zeroed \cup Erased(FirstEnd)
        /\ delivered' = delivered \o First(FirstEnd) /\ fetched' = fetched /\ content' = content
    BY <1>11 DEF LineReturns, FirstEnd, Return, networkVars
  <2>3. QED BY <2>1, <2>2, <1>9
<1>12. CASE StringReturns
  <2>1. offset' = Len(buf) + 1
    BY <1>12 DEF StringReturns
  <2>2. PICK k : k \in 0..Len(Unread) /\ buf' = InsertAt(buf, offset + k + 1, 0)
    <3>1. call.op = "string"
      BY <1>12 DEF StringReturns
    <3>2. call \in [op : {"string"}, n : StringLengths]
      BY <3>1 DEF TypeOK, Calls, NoCall
    <3>3. call.n \in Nat
      BY <3>2, LengthsAreNat
    <3>4. (IF call.n = 0 THEN Len(Unread) ELSE call.n) \in 0..Len(Unread)
      BY <1>1, <1>12, <3>3 DEF StringReturns
    <3>5. QED BY <3>4, <1>12 DEF StringReturns
  <2>4. offset + k + 1 \in 1..Len(buf) + 1 /\ 0 \in 0..fetched /\ buf \in Seq(0..fetched)
    <3>1. /\ Len(buf) \in Nat /\ offset \in 0..Len(buf) /\ Len(Unread) = Len(buf) - offset
          /\ fetched \in Nat /\ buf \in Seq(0..fetched)
      BY UnreadFacts DEF TypeOK
    <3>2. k \in 0..Len(buf) - offset
      BY <2>2, <3>1
    <3>3. offset + k + 1 \in 1..Len(buf) + 1 /\ 0 \in 0..fetched
      BY <3>1, <3>2
    <3>4. QED BY <3>1, <3>3
  <2>5. Len(buf') = Len(buf) + 1
    BY <2>2, <2>4, InsertFacts
  <2>6. SubSeq(buf', offset' + 1, Len(buf')) = <<>>
    BY <1>1, <2>1, <2>5, SubSeqEmpty
  <2>7. Unread' = <<>>
    BY <2>6 DEF Unread
  <2>8. ToSet(<<>>) = {}
    BY DEF ToSet
  <2>9. QED BY <2>7, <2>8 DEF OnlyCrErased
<1>13. CASE FileReturns
  <2>1. PICK k \in 1..Len(Unread) :
          /\ offset' = offset + k /\ delivered' = delivered \o First(k) /\ fetched' = fetched
          /\ content' = content
    BY <1>13 DEF FileReturns, Return, networkVars
  <2>2. k \in 0..Len(Unread) /\ buf' = buf /\ spilled' = spilled /\ zeroed' = zeroed
    BY <1>1, <1>13 DEF FileReturns
  <2>3. QED BY <2>1, <2>2, <1>9
<1>14. CASE UNCHANGED vars
  BY <1>2, <1>14 DEF vars, networkVars, streamVars, callVars, Unread
<1>15. QED
  BY <1>3, <1>4, <1>5, <1>6, <1>7, <1>8, <1>10, <1>11, <1>12, <1>13, <1>14 DEF Next, Progress

\* Each step keeps LineIsOneLine: a line ends at the first end of line there is, as none has
\* been erased.
LEMMA LineStep ==
  ASSUME TypeOK, NothingLost, OnlyCrErased, LineIsOneLine, [Next]_vars
  PROVE  LineIsOneLine'
<1>1. content' = content
  BY DEF Next, Progress, Arrive, Hangup, Begin, BeginFull, Fill, FillEof, FillFails, ReadReturns,
         LineReturns, LineEof, StringReturns, StringEof, StringFull, FileReturns, FileFails,
         Return, vars, networkVars
<1>2. CASE result' = result
  BY <1>1, <1>2 DEF LineIsOneLine
<1>3. CASE result'.call.op # "line" \/ result'.ret # 0
  BY <1>3 DEF LineIsOneLine
<1>4. CASE LineReturns
  <2> DEFINE d == First(FirstEnd)
  <2>1. result'.data = d
    BY <1>4 DEF LineReturns, FirstEnd, Return
  <2>2. /\ FirstEnd \in LineEnds /\ FirstEnd \in 1..Len(Unread) /\ \A j \in LineEnds : FirstEnd <= j
    BY <1>4, FirstEndFacts DEF LineReturns
  <2>3. Len(Unread) \in Nat
    BY UnreadFacts
  <2>4. /\ d \in Seq(1..fetched) /\ Len(d) = FirstEnd
        /\ \A i \in 1..FirstEnd : d[i] = Unread[i]
    BY <2>2, <2>3, FirstFacts
  <2> HIDE DEF d
  <2>5. d # <<>> /\ Last(d) = Unread[FirstEnd]
    BY <2>2, <2>3, <2>4 DEF Last
  <2>6. content[Last(d)] = "lf"
    BY <2>2, <2>5, LineEndMeans
  <2>7. ASSUME NEW i \in 1..Len(d)-1 PROVE content[d[i]] # "lf"
    <3>1. i \in 1..Len(Unread) /\ i \notin LineEnds /\ d[i] = Unread[i]
      BY <2>2, <2>3, <2>4
    <3>2. QED BY <3>1, LineEndMeans
  <2>8. QED BY <1>1, <2>1, <2>5, <2>6, <2>7 DEF LineIsOneLine
<1>5. QED
  <2>1. CASE Arrive \/ Hangup \/ Fill \/ FillEof \/ UNCHANGED vars
    BY <1>2, <2>1 DEF Arrive, Hangup, Fill, FillEof, vars, callVars
  <2>2. ASSUME NEW c \in Calls, Begin(c) \/ BeginFull(c) PROVE LineIsOneLine'
    BY <1>2, <1>3, <2>2 DEF Begin, BeginFull
  <2>3. CASE \/ FillFails \/ LineEof \/ ReadReturns \/ StringReturns \/ StringEof \/ StringFull
             \/ FileReturns \/ FileFails
    BY <1>3, <2>3 DEF FillFails, LineEof, ReadReturns, StringReturns, StringEof, StringFull,
                      FileReturns, FileFails, Return
  <2>4. QED BY <1>4, <2>1, <2>2, <2>3 DEF Next, Progress

-----------------------------------------------------------------------------
(* The theorems                                                            *)

LEMMA InitIInv == Init => IInv
<1> SUFFICES ASSUME Init PROVE IInv
  OBVIOUS
<1>1. TypeOK
  BY TypeInit
<1>2. Unread = <<>>
  <2>1. SubSeq(buf, offset + 1, Len(buf)) = <<>>
    BY SubSeqEmpty, EmptySeq DEF Init
  <2>2. QED BY <2>1 DEF Unread
<1>3. delivered \o Unread = <<>>
  BY <1>2, ConcatEmptySeq, EmptySeq DEF Init
<1>4. NothingLost
  BY <1>3 DEF NothingLost, ToSet, Init
<1>5. EofIsEnd /\ LineIsOneLine
  BY DEF Init, NoCall, EofIsEnd, LineIsOneLine
<1>6. AtFront /\ EofIsSound /\ OnlyCrErased
  BY DEF Init, AtFront, EofIsSound, OnlyCrErased
<1>7. QED BY <1>1, <1>4, <1>5, <1>6 DEF IInv

LEMMA NextIInv == IInv /\ [Next]_vars => IInv'
BY TypeStep, NothingLostStep, CallStep, EofStep, ErasedStep, LineStep DEF IInv

\* The invariant holds in every behaviour.
THEOREM IInvHolds == Spec => []IInv
<1>1. IInv /\ [Next]_vars => IInv'
  BY NextIInv
<1>2. QED BY <1>1, InitIInv, PTL DEF Spec

\* offset <= length <= size at all times (stream.h:28), whatever is called in which order.
THEOREM TypeCorrect == Spec => []TypeOK
<1>1. IInv => TypeOK
  BY DEF IInv
<1>2. QED BY <1>1, IInvHolds, PTL

\* The buffer neither loses, repeats nor reorders a byte, but for what strings drop.
THEOREM BufferKeepsBytes == Spec => []NothingLost
<1>1. IInv => NothingLost
  BY DEF IInv
<1>2. QED BY <1>1, IInvHolds, PTL

\* A call reports the end of the file at the end of the file, with two exceptions.
THEOREM EofCorrect == Spec => []EofIsEnd
<1>1. IInv => EofIsEnd
  BY DEF IInv
<1>2. QED BY <1>1, IInvHolds, PTL

\* stream_read_line() returns exactly one line.
THEOREM LinesCorrect == Spec => []LineIsOneLine
<1>1. IInv => LineIsOneLine
  BY DEF IInv
<1>2. QED BY <1>1, IInvHolds, PTL

-----------------------------------------------------------------------------
(* The refinement                                                          *)

LEMMA IsFaithful == IInv => Bytes!Faithful
<1> SUFFICES ASSUME IInv PROVE Bytes!Faithful
  OBVIOUS
<1>1. TypeOK /\ NothingLost
  BY DEF IInv
<1>2. /\ arrived \in Nat /\ fetched \in 0..arrived
      /\ delivered \in Seq(1..fetched) /\ Unread \in Seq(1..fetched)
  BY <1>1, ContentsAreSeq, UnreadFacts DEF TypeOK
<1> DEFINE n == arrived
           m == fetched
           d == delivered
           u == Unread
           s == Sent(n)
<1>3. n \in Nat /\ m \in 0..n
  BY <1>2
<1>4. d \in Seq(0..n) /\ u \in Seq(0..n)
  <2>1. 1..fetched \subseteq 0..arrived
    BY <1>2
  <2>2. QED BY <2>1, <1>2, SeqMonotonic
<1>5. Ascending(d \o u) /\ ToSet(d \o u) = 1..m \ spilled
  BY <1>1, NothingLostMeans
<1> HIDE DEF n, m, d, u
<1>6. /\ ToSet(d) \subseteq ToSet(s) \ spilled
      /\ \A i, j \in DOMAIN d : i < j =>
           \E k, l \in DOMAIN s : k < l /\ s[k] = d[i] /\ s[l] = d[j]
      /\ \A k, l \in DOMAIN s : k < l /\ s[l] \in ToSet(d) => s[k] \in ToSet(d) \cup spilled
  BY <1>3, <1>4, <1>5, FaithfulFacts, ZenonT(60)
<1>7. s = [i \in 1..n |-> i]
  BY DEF Sent
<1> HIDE DEF s
<1>8. QED BY <1>6, <1>7 DEF n, d, Bytes!Faithful, Bytes!InOrder, Bytes!NoGaps, Bytes!ToSet, ToSet

\* What the steps do to the three sequences that ByteStream sees.
LEMMA Outside ==
  ASSUME TypeOK, NothingLost, [Next]_vars
  PROVE  /\ arrived <= arrived' /\ spilled \subseteq spilled'
         /\ IsPrefix(delivered, delivered')
<1>1. delivered \in Seq(1..fetched) /\ arrived \in Nat
  BY ContentsAreSeq DEF TypeOK
<1>2. ASSUME delivered' = delivered PROVE IsPrefix(delivered, delivered')
  <2>1. <<>> \in Seq(1..fetched) /\ delivered \o <<>> = delivered
    BY <1>1, EmptySeq, ConcatEmptySeq
  <2>2. QED BY <1>1, <1>2, <2>1, PrefixOfJoin
<1>3. ASSUME NEW k \in 0..Len(Unread), NEW ret, Return(ret, First(k))
      PROVE  IsPrefix(delivered, delivered') /\ arrived' = arrived
  <2>1. First(k) \in Seq(1..fetched)
    BY FirstFacts
  <2>2. QED BY <1>1, <1>3, <2>1, PrefixOfJoin DEF Return, networkVars
<1>4. CASE Arrive \/ Hangup \/ Fill \/ FillEof \/ UNCHANGED vars
  <2>1. delivered' = delivered /\ spilled' = spilled
    BY <1>4 DEF Arrive, Hangup, Fill, FillEof, vars, callVars
  <2>2. arrived <= arrived'
    BY <1>1, <1>4 DEF Arrive, Hangup, Fill, FillEof, vars, networkVars
  <2>3. QED BY <2>1, <2>2, <1>2
<1>5. ASSUME NEW c \in Calls, Begin(c) \/ BeginFull(c)
      PROVE  delivered' = delivered /\ spilled' = spilled /\ arrived' = arrived
  BY <1>5 DEF Begin, BeginFull, networkVars
<1>6. CASE FillFails \/ LineEof \/ StringEof \/ StringFull \/ FileFails
  <2>1. PICK ret \in {-1, 0, 1} : Return(ret, <<>>)
    BY <1>6 DEF FillFails, LineEof, StringEof, StringFull, FileFails
  <2>2. delivered' = delivered /\ arrived' = arrived
    BY <2>1, EmptyReturnTypes
  <2>3. spilled' = spilled
    BY <1>6 DEF FillFails, LineEof, StringEof, StringFull, FileFails
  <2>4. QED BY <1>1, <1>2, <2>2, <2>3
<1>7. CASE ReadReturns \/ LineReturns \/ StringReturns \/ FileReturns
  <2>1. Len(Unread) \in Nat
    BY UnreadFacts
  <2>2. PICK k \in 0..Len(Unread) : \E ret \in {0, 1} : Return(ret, First(k))
    <3>1. CASE ReadReturns
      <4>1. (IF call.n \in 1..Len(Unread) THEN call.n ELSE Len(Unread)) \in 0..Len(Unread)
        BY <2>1
      <4>2. QED BY <3>1, <4>1 DEF ReadReturns
    <3>2. CASE LineReturns
      <4>1. FirstEnd \in 0..Len(Unread)
        BY <2>1, <3>2, FirstEndFacts DEF LineReturns
      <4>2. QED BY <3>2, <4>1 DEF LineReturns, FirstEnd
    <3>3. CASE StringReturns
      <4>1. call.op = "string"
        BY <3>3 DEF StringReturns
      <4>2. call \in [op : {"string"}, n : StringLengths]
        BY <4>1 DEF TypeOK, Calls, NoCall
      <4>3. call.n \in Nat
        BY <4>2, LengthsAreNat
      <4>4. (IF call.n = 0 THEN Len(Unread) ELSE call.n) \in 0..Len(Unread)
        BY <2>1, <3>3, <4>3 DEF StringReturns
      <4>5. QED BY <3>3, <4>4 DEF StringReturns
    <3>4. CASE FileReturns
      BY <2>1, <3>4 DEF FileReturns
    <3>5. QED BY <1>7, <3>1, <3>2, <3>3, <3>4
  <2>3. spilled \subseteq spilled'
    BY <1>7 DEF ReadReturns, LineReturns, StringReturns, FileReturns
  <2>4. QED BY <1>1, <1>3, <2>2, <2>3
<1>8. QED
  BY <1>1, <1>2, <1>4, <1>5, <1>6, <1>7 DEF Next, Progress

\* What callers get is what the peer has sent, in order and each byte once, but for what
\* strings drop: ReadStream implements ByteStream.
THEOREM ReadsAreByteStream == Spec => ByteStreamSpec
<1>1. Init => Bytes!Init
  <2>1. SUFFICES ASSUME Init PROVE Bytes!Init
    OBVIOUS
  <2>2. Sent(0) = <<>>
    BY SentFacts
  <2>3. [i \in 1..0 |-> i] = <<>>
    BY <2>2 DEF Sent
  <2>4. arrived = 0 /\ spilled = {} /\ delivered = <<>>
    BY <2>1 DEF Init
  <2>5. QED BY <2>3, <2>4 DEF Bytes!Init
<1>2. IInv /\ [Next]_vars /\ Bytes!Faithful' => Bytes!Next
  <2>1. SUFFICES ASSUME IInv, [Next]_vars, Bytes!Faithful' PROVE Bytes!Next
    OBVIOUS
  <2>2. /\ arrived <= arrived' /\ spilled \subseteq spilled' /\ IsPrefix(delivered, delivered')
    BY <2>1, Outside DEF IInv
  <2>3. arrived \in Nat /\ arrived' \in Nat
    <3>1. arrived \in Nat
      BY <2>1, ContentsAreSeq DEF IInv, TypeOK
    <3>2. TypeOK'
      BY <2>1, TypeStep DEF IInv
    <3>3. QED BY <3>1, <3>2, ContentsAreSeq DEF TypeOK
  <2>4. IsPrefix(Sent(arrived), Sent(arrived'))
    BY <2>2, <2>3, SentGrows
  <2>5. QED BY <2>1, <2>2, <2>4 DEF Bytes!Next, Bytes!IsPrefix, IsPrefix, Sent
<1>3. QED
  BY <1>1, <1>2, IInvHolds, IsFaithful, PTL DEF Spec, ByteStreamSpec, Bytes!Spec
=============================================================================

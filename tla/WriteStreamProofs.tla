--------------------------- MODULE WriteStreamProofs ---------------------------
(***************************************************************************)
(* The invariants of WriteStream, for buffers of any size and any numbers  *)
(* of bytes.                                                               *)
(***************************************************************************)
EXTENDS WriteStream, SequenceFacts

-----------------------------------------------------------------------------
(* The inductive invariant                                                 *)

\* Only stream_write() has a rest, and a call was given all the bytes that it counts.
CallSound ==
  /\ rest # <<>> => call.op = "write"
  /\ call.op \in {"write", "printf"} => call.n <= accepted

IInv == TypeOK /\ WrittenInOrder /\ CallSound

-----------------------------------------------------------------------------
(* The buffer in a state                                                   *)

\* What has been written and what is still to be written, in order.
All == (wire \o Pending) \o rest

\* WrittenInOrder in terms of Ascending.
LEMMA OrderMeans ==
  WrittenInOrder <=> Ascending(All) /\ ToSet(All) = 1..accepted \ dropped
BY DEF WrittenInOrder, Ascending, All

\* The bytes that a call is given are the next ones.
LEMMA FreshFacts ==
  ASSUME TypeOK, NEW k \in Nat, accepted' = accepted + k
  PROVE  /\ Fresh(k) \in Seq(1..accepted') /\ Len(Fresh(k)) = k /\ Ascending(Fresh(k))
         /\ ToSet(Fresh(k)) = accepted + 1 .. accepted'
         /\ accepted' \in Nat /\ 1..accepted \subseteq 1..accepted'
         /\ k > 0 => accepted' \in ToSet(Fresh(k))
<1>1. accepted \in Nat
  BY DEF TypeOK
<1>2. Fresh(k) \in [1..k -> 1..accepted'] /\ Len(Fresh(k)) = k
  BY <1>1 DEF Fresh
<1>3. Fresh(k) \in Seq(1..accepted')
  BY <1>2, SeqDef
<1>4. Ascending(Fresh(k))
  BY <1>1 DEF Ascending, Fresh
<1>5. ASSUME NEW x \in accepted + 1 .. accepted' PROVE x \in ToSet(Fresh(k))
  <2>1. x - accepted \in 1..k /\ Fresh(k)[x - accepted] = x
    BY <1>1 DEF Fresh
  <2>2. QED BY <2>1, <1>2 DEF ToSet
<1>6. ASSUME NEW x \in ToSet(Fresh(k)) PROVE x \in accepted + 1 .. accepted'
  BY <1>1, <1>2 DEF ToSet, Fresh
<1>7. ToSet(Fresh(k)) = accepted + 1 .. accepted'
  BY <1>5, <1>6
<1>8. accepted' \in Nat /\ 1..accepted \subseteq 1..accepted'
  BY <1>1
<1>9. k > 0 => accepted' \in ToSet(Fresh(k))
  BY <1>1, <1>7
<1>10. QED BY <1>2, <1>3, <1>4, <1>7, <1>8, <1>9

\* What is pending is what is behind the offset.
LEMMA PendingFacts ==
  ASSUME TypeOK
  PROVE  /\ Pending \in Seq(1..accepted) /\ Len(Pending) = Len(buf) - offset /\ Len(buf) \in Nat
         /\ Len(Pending) \in Nat /\ wire \in Seq(1..accepted) /\ rest \in Seq(1..accepted)
         /\ accepted \in Nat /\ Size \in Nat \ {0} /\ offset \in 0..Len(buf)
<1>1. /\ buf \in Seq(1..accepted) /\ offset \in 0..Len(buf) /\ Len(buf) \in Nat
      /\ accepted \in Nat /\ Size \in Nat \ {0}
      /\ wire \in Seq(1..accepted) /\ rest \in Seq(1..accepted)
  BY SizeIsPos DEF TypeOK
<1>2. Pending \in Seq(1..accepted) /\ Len(Pending) = Len(buf) - offset
  BY <1>1, RestFacts DEF Pending
<1>3. QED BY <1>1, <1>2

\* Sequences of bytes, over a set that all of them share.
LEMMA Widen ==
  ASSUME NEW n \in Nat, NEW m \in Nat, n <= m, NEW s \in Seq(1..n)
  PROVE  s \in Seq(0..m)
<1>1. 1..n \subseteq 0..m
  OBVIOUS
<1>2. QED BY <1>1, SeqMonotonic

\* Joining is associative.
LEMMA Assoc ==
  ASSUME NEW S
  PROVE  \A s, t, u \in Seq(S) : (s \o t) \o u = s \o (t \o u)
BY ConcatAssociative

\* Fresh bytes come behind all others.
LEMMA FreshInOrder ==
  ASSUME TypeOK, WrittenInOrder, NEW k \in Nat, accepted' = accepted + k, dropped' = dropped,
         All' = All \o Fresh(k)
  PROVE  WrittenInOrder'
<1>1. /\ Fresh(k) \in Seq(1..accepted') /\ Ascending(Fresh(k))
      /\ ToSet(Fresh(k)) = accepted + 1 .. accepted' /\ accepted' \in Nat
  BY FreshFacts
<1>2. accepted \in Nat /\ accepted <= accepted' /\ dropped \subseteq 1..accepted
  BY DEF TypeOK
<1>3. All \in Seq(0..accepted') /\ Fresh(k) \in Seq(0..accepted')
  <2>1. wire \in Seq(0..accepted') /\ Pending \in Seq(0..accepted') /\ rest \in Seq(0..accepted')
    BY PendingFacts, <1>1, <1>2, Widen
  <2>2. \A s, t \in Seq(0..accepted') : s \o t \in Seq(0..accepted')
    BY ConcatProperties
  <2>3. QED BY <2>1, <2>2, <1>1, <1>2, Widen DEF All
<1>4. Ascending(All) /\ ToSet(All) = 1..accepted \ dropped
  BY OrderMeans
<1>5. (\A x \in ToSet(All) : x <= accepted) /\ \A x \in ToSet(Fresh(k)) : x > accepted
  BY <1>1, <1>2, <1>4
<1>6. Ascending(All \o Fresh(k))
  BY <1>1, <1>2, <1>3, <1>4, <1>5, AscendingJoin
<1>7. ToSet(All \o Fresh(k)) = ToSet(All) \cup ToSet(Fresh(k))
  BY <1>3, JoinFacts
<1>8. (1..accepted \ dropped) \cup (accepted + 1 .. accepted') = 1..accepted' \ dropped
  BY <1>2
<1>9. Ascending(All') /\ ToSet(All') = 1..accepted' \ dropped'
  BY <1>1, <1>4, <1>6, <1>7, <1>8
<1>10. QED BY <1>9 DEF WrittenInOrder, Ascending, All

\* A step that moves bytes along, and neither adds nor drops any.
LEMMA SameInOrder ==
  ASSUME WrittenInOrder, All' = All, accepted' = accepted, dropped' = dropped
  PROVE  WrittenInOrder'
<1>1. Ascending(All) /\ ToSet(All) = 1..accepted \ dropped
  BY OrderMeans
<1>2. Ascending(All') /\ ToSet(All') = 1..accepted' \ dropped'
  BY <1>1
<1>3. QED BY <1>2 DEF WrittenInOrder, Ascending, All

-----------------------------------------------------------------------------
(* Type correctness                                                        *)

\* A flushed buffer.
LEMMA FlushedFacts ==
  ASSUME TypeOK, NEW op, Flushed(op)
  PROVE  /\ buf' \in Seq(1..accepted) /\ offset' \in 0..Len(buf') /\ Len(buf') \in 0..Size
         /\ Pending = <<>> /\ Pending' = <<>> /\ call.op = op
<1>1. buf' = <<>> /\ offset' = 0 /\ Len(<<>>) = 0 /\ <<>> \in Seq(1..accepted)
  BY EmptySeq DEF Flushed
<1>2. SubSeq(buf', offset' + 1, Len(buf')) = <<>>
  BY <1>1, SubSeqEmpty
<1>3. QED BY <1>1, <1>2, SizeIsPos DEF Flushed, Pending

\* The socket takes some of what is pending, or of the rest.
LEMMA PartFacts ==
  ASSUME TypeOK, NEW s \in Seq(1..accepted), NEW k \in 1..Len(s)
  PROVE  /\ SubSeq(s, 1, k) \in Seq(1..accepted) /\ wire \o SubSeq(s, 1, k) \in Seq(1..accepted)
         /\ SubSeq(s, k + 1, Len(s)) \in Seq(1..accepted)
         /\ SubSeq(s, 1, k) \o SubSeq(s, k + 1, Len(s)) = s
<1>1. Len(s) \in Nat /\ k \in 0..Len(s)
  BY LenProperties
<1>2. SubSeq(s, 1, k) \in Seq(1..accepted) /\ SubSeq(s, k + 1, Len(s)) \in Seq(1..accepted)
  BY <1>1, TakeFacts, RestFacts
<1>3. wire \o SubSeq(s, 1, k) \in Seq(1..accepted)
  BY <1>2, PendingFacts, ConcatProperties
<1>4. SubSeq(s, 1, k) \o SubSeq(s, k + 1, Len(s)) = SubSeq(s, 1, Len(s))
  <2>1. 1 \in 1..Len(s) + 1 /\ k \in 1 - 1 .. Len(s) /\ Len(s) \in k..Len(s)
    BY <1>1
  <2>2. QED BY <2>1, ConcatAdjacentSubSeq
<1>5. SubSeq(s, 1, Len(s)) = s
  BY SubSeqFull
<1>6. QED BY <1>2, <1>3, <1>4, <1>5

\* Each step keeps the types.
LEMMA TypeStep ==
  ASSUME TypeOK, CallSound, [Next]_vars
  PROVE  TypeOK'
<1>1. /\ Pending \in Seq(1..accepted) /\ Len(Pending) = Len(buf) - offset /\ Len(Pending) \in Nat
      /\ Len(buf) \in Nat /\ accepted \in Nat /\ Size \in Nat \ {0} /\ offset \in 0..Len(buf)
      /\ rest \in Seq(1..accepted) /\ wire \in Seq(1..accepted)
  BY PendingFacts
<1>2. /\ up \in BOOLEAN /\ buf \in Seq(1..accepted) /\ Len(buf) \in 0..Size
      /\ call \in Calls \cup {NoCall} /\ result \in {-1, 0, 1} /\ accepted \in 0..MaxBytes
      /\ dropped \subseteq 1..accepted
  BY DEF TypeOK
<1>3. ToSet(rest) \subseteq 1..accepted /\ ToSet(Pending) \subseteq 1..accepted
  <2>1. \A s \in Seq(1..accepted) : ToSet(s) \subseteq 1..accepted
    <3>1. SUFFICES ASSUME NEW s \in Seq(1..accepted), NEW i \in DOMAIN s PROVE s[i] \in 1..accepted
      BY DEF ToSet
    <3>2. DOMAIN s = 1..Len(s)
      BY LenProperties
    <3>3. QED BY <3>2, ElementOfSeq
  <2>2. QED BY <2>1, <1>1
<1>4. <<>> \in Seq(1..accepted)
  BY EmptySeq
<1>5. ASSUME NEW n \in Nat, Accept(n)
      PROVE  /\ accepted' \in 0..MaxBytes /\ Fresh(n) \in Seq(1..accepted') /\ Len(Fresh(n)) = n
             /\ \A s \in Seq(1..accepted) : s \in Seq(1..accepted') /\ s \o Fresh(n) \in Seq(1..accepted')
             /\ dropped \subseteq 1..accepted'
  <2>1. accepted' = accepted + n /\ accepted' \in 0..MaxBytes
    BY <1>1, <1>5, LengthsAreNat DEF Accept
  <2>2. /\ Fresh(n) \in Seq(1..accepted') /\ Len(Fresh(n)) = n /\ 1..accepted \subseteq 1..accepted'
    BY <2>1, FreshFacts
  <2>3. \A s \in Seq(1..accepted) : s \in Seq(1..accepted')
    BY <2>2, SeqMonotonic
  <2>4. \A s \in Seq(1..accepted) : s \o Fresh(n) \in Seq(1..accepted')
    BY <2>2, <2>3, ConcatProperties
  <2>5. QED BY <2>1, <2>2, <2>3, <2>4, <1>2
<1>6. ASSUME NEW n \in Lengths, Write(n) PROVE TypeOK'
  <2>1. n \in Nat /\ Accept(n) /\ [op |-> "write", n |-> n] \in Calls
    BY <1>6, LengthsAreNat DEF Write, Calls
  <2>2. /\ accepted' \in 0..MaxBytes /\ Fresh(n) \in Seq(1..accepted')
        /\ wire \in Seq(1..accepted') /\ buf \in Seq(1..accepted') /\ dropped \subseteq 1..accepted'
    BY <2>1, <1>1, <1>2, <1>5
  <2>3. QED BY <1>1, <1>2, <1>6, <2>1, <2>2 DEF Write, TypeOK, streamVars
<1>7. ASSUME NEW n \in Lengths, Printf(n) PROVE TypeOK'
  <2>1. n \in Nat /\ Accept(n) /\ [op |-> "printf", n |-> n] \in Calls
    BY <1>7, LengthsAreNat DEF Printf, Calls
  <2>2. /\ accepted' \in 0..MaxBytes /\ Fresh(n) \in Seq(1..accepted') /\ Len(Fresh(n)) = n
        /\ wire \in Seq(1..accepted') /\ rest \in Seq(1..accepted') /\ buf \in Seq(1..accepted')
        /\ buf \o Fresh(n) \in Seq(1..accepted') /\ dropped \subseteq 1..accepted'
    BY <2>1, <1>1, <1>2, <1>5
  <2>3. Len(buf \o Fresh(n)) = Len(buf) + n
    BY <2>2, ConcatProperties
  <2>4. Len(buf') \in 0..Size /\ offset \in 0..Len(buf')
    BY <1>1, <1>7, <2>1, <2>3 DEF Printf
  <2>5. QED BY <1>1, <1>2, <1>7, <2>1, <2>2, <2>4 DEF Printf, TypeOK
<1>8. ASSUME NEW n \in Lengths, PrintfFull(n) \/ SendFile(n) PROVE TypeOK'
  <2>1. call' \in Calls \cup {NoCall} /\ result' \in {-1, 0, 1}
    BY <1>2, <1>8 DEF PrintfFull, SendFile, Calls
  <2>2. UNCHANGED <<up, streamVars, rest, accepted, dropped, wire>>
    BY <1>8 DEF PrintfFull, SendFile
  <2>3. QED BY <2>1, <2>2 DEF TypeOK, streamVars
<1>9. CASE Flush
  <2>1. PICK k \in 1..Len(Pending) : wire' = wire \o SubSeq(Pending, 1, k) /\ offset' = offset + k
    BY <1>9 DEF Flush
  <2>2. wire' \in Seq(1..accepted)
    BY <2>1, <1>1, PartFacts
  <2>3. offset' \in 0..Len(buf)
    BY <2>1, <1>1
  <2>4. QED BY <1>9, <2>2, <2>3 DEF Flush, TypeOK
<1>10. CASE FlushTimeout
  <2>1. offset' = Len(buf) /\ dropped' = dropped \cup ToSet(Pending)
    BY <1>10 DEF FlushTimeout, Drop
  <2>2. UNCHANGED <<up, buf, call, rest, result, accepted, wire>>
    BY <1>10 DEF FlushTimeout
  <2>3. offset' \in 0..Len(buf')
    BY <2>1, <2>2, <1>1
  <2>4. dropped' \subseteq 1..accepted
    BY <2>1, <1>2, <1>3
  <2>5. QED BY <2>2, <2>3, <2>4 DEF TypeOK
<1>11. CASE FlushFails
  <2>1. /\ rest' \in Seq(1..accepted) /\ dropped' \subseteq 1..accepted
        /\ call' = NoCall /\ result' = 1 /\ UNCHANGED <<up, buf, offset, accepted, wire>>
    BY <1>2, <1>3, <1>4, <1>11 DEF FlushFails, Drop, Return, streamVars
  <2>2. QED BY <2>1 DEF TypeOK
<1>12. CASE PrintfReturns \/ WriteReturns \/ FileEnds
  <2>1. /\ buf' \in Seq(1..accepted) /\ offset' \in 0..Len(buf') /\ Len(buf') \in 0..Size
    BY <1>12, FlushedFacts DEF PrintfReturns, WriteReturns, FileEnds
  <2>2. /\ call' = NoCall /\ result' \in {-1, 0, 1}
        /\ UNCHANGED <<up, rest, accepted, dropped, wire>>
    BY <1>12 DEF PrintfReturns, WriteReturns, FileEnds, Return
  <2>3. QED BY <2>1, <2>2 DEF TypeOK
<1>13. CASE WriteDirect
  <2>1. /\ buf' \in Seq(1..accepted) /\ offset' \in 0..Len(buf') /\ Len(buf') \in 0..Size
    BY <1>13, FlushedFacts DEF WriteDirect
  <2>2. PICK k \in 1..Len(rest) : /\ wire' = wire \o SubSeq(rest, 1, k)
                                  /\ rest' = SubSeq(rest, k + 1, Len(rest))
    BY <1>13 DEF WriteDirect
  <2>3. wire' \in Seq(1..accepted) /\ rest' \in Seq(1..accepted)
    BY <2>2, <1>1, PartFacts
  <2>4. QED BY <1>13, <2>1, <2>3 DEF WriteDirect, TypeOK
<1>14. CASE WriteFails
  <2>1. /\ buf' \in Seq(1..accepted) /\ offset' \in 0..Len(buf') /\ Len(buf') \in 0..Size
    BY <1>14, FlushedFacts DEF WriteFails
  <2>2. QED BY <1>3, <1>4, <1>14, <2>1 DEF WriteFails, Drop, Return, TypeOK
<1>15. CASE FileSent
  <2>1. /\ buf' = <<>> /\ offset' = 0 /\ Len(<<>>) = 0 /\ rest' = rest
    BY <1>15, EmptySeq DEF FileSent, Flushed
  <2>2. PICK k \in Nat : Accept(k) /\ wire' = wire \o Fresh(k)
    BY <1>15 DEF FileSent
  <2>3. /\ accepted' \in 0..MaxBytes /\ wire' \in Seq(1..accepted') /\ rest \in Seq(1..accepted')
        /\ buf' \in Seq(1..accepted') /\ dropped \subseteq 1..accepted'
    BY <2>1, <2>2, <1>1, <1>4, <1>5
  <2>4. QED BY <1>1, <1>15, <2>1, <2>3 DEF FileSent, Return, TypeOK
<1>16. CASE Break \/ UNCHANGED vars
  BY <1>16 DEF Break, TypeOK, vars, streamVars
<1>17. QED
  BY <1>6, <1>7, <1>8, <1>9, <1>10, <1>11, <1>12, <1>13, <1>14, <1>15, <1>16 DEF Next

-----------------------------------------------------------------------------
(* The order of the bytes                                                  *)

\* Each step keeps WrittenInOrder.
LEMMA OrderStep ==
  ASSUME TypeOK, CallSound, WrittenInOrder, [Next]_vars
  PROVE  WrittenInOrder'
<1> DEFINE S == 1..accepted
           T == 0..accepted
<1>1. /\ Pending \in Seq(S) /\ rest \in Seq(S) /\ wire \in Seq(S)
      /\ accepted \in Nat /\ Len(buf) \in Nat /\ offset \in 0..Len(buf) /\ Len(Pending) = Len(buf) - offset
  BY PendingFacts
<1>2. Pending \in Seq(T) /\ rest \in Seq(T) /\ wire \in Seq(T) /\ \A s \in Seq(S) : s \in Seq(T)
  BY <1>1, Widen
<1>3. \A s, t, u \in Seq(T) : (s \o t) \o u = s \o (t \o u)
  BY Assoc
<1>4. \A s \in Seq(T) : s \o <<>> = s /\ <<>> \o s = s
  BY ConcatEmptySeq
<1>5. wire \o Pending \in Seq(T) /\ <<>> \in Seq(T)
  BY <1>2, ConcatProperties, EmptySeq
<1>6. Ascending(All) /\ ToSet(All) = S \ dropped
  BY OrderMeans
<1> HIDE DEF S, T
\* Fresh bytes.
<1>7. ASSUME NEW n \in Lengths, Write(n) PROVE WrittenInOrder'
  <2>1. rest = <<>> /\ n \in Nat
    BY <1>7, LengthsAreNat DEF Write, CallSound, NoCall
  <2>2. /\ rest' = Fresh(n) /\ wire' = wire /\ dropped' = dropped /\ accepted' = accepted + n
        /\ Pending' = Pending
    BY <1>7 DEF Write, Accept, streamVars, Pending
  <2>3. All' = All \o Fresh(n)
    BY <2>1, <2>2, <1>4, <1>5 DEF All
  <2>4. QED BY <2>1, <2>2, <2>3, FreshInOrder
<1>8. ASSUME NEW n \in Lengths, Printf(n) PROVE WrittenInOrder'
  <2>1. rest = <<>> /\ n \in Nat
    BY <1>8, LengthsAreNat DEF Printf, CallSound, NoCall
  <2>2. /\ rest' = rest /\ wire' = wire /\ dropped' = dropped /\ accepted' = accepted + n
        /\ buf' = buf \o Fresh(n) /\ offset' = offset
    BY <1>8 DEF Printf, Accept
  <2>3. Fresh(n) \in Seq(0..accepted') /\ buf \in Seq(0..accepted') /\ wire \in Seq(0..accepted')
        /\ Pending \in Seq(0..accepted')
    <3>1. Fresh(n) \in Seq(1..accepted') /\ accepted' \in Nat
      BY <2>1, <2>2, FreshFacts
    <3>2. buf \in Seq(1..accepted) /\ Pending \in Seq(1..accepted) /\ wire \in Seq(1..accepted)
      BY <1>1 DEF TypeOK, S
    <3>3. accepted <= accepted'
      BY <1>1, <2>1, <2>2
    <3>4. QED BY <1>1, <3>1, <3>2, <3>3, Widen
  <2>4. Pending' = Pending \o Fresh(n)
    <3>1. Pending' = SubSeq(buf \o Fresh(n), offset + 1, Len(buf \o Fresh(n)))
      BY <2>2 DEF Pending
    <3>2. QED BY <3>1, <2>3, <1>1, RestOfJoin DEF Pending
  <2>5. wire \o (Pending \o Fresh(n)) = (wire \o Pending) \o Fresh(n)
    <3>1. \A s, t, u \in Seq(0..accepted') : (s \o t) \o u = s \o (t \o u)
      BY Assoc
    <3>2. QED BY <3>1, <2>3
  <2>6. (wire \o Pending) \o Fresh(n) \in Seq(0..accepted')
    <3>1. \A s, t \in Seq(0..accepted') : s \o t \in Seq(0..accepted')
      BY ConcatProperties
    <3>2. QED BY <3>1, <2>3
  <2>7. All' = (wire \o Pending) \o Fresh(n)
    <3>1. ((wire \o Pending) \o Fresh(n)) \o <<>> = (wire \o Pending) \o Fresh(n)
      BY <2>6, ConcatEmptySeq
    <3>2. QED BY <3>1, <2>1, <2>2, <2>4, <2>5 DEF All
  <2>8. All' = All \o Fresh(n)
    BY <2>1, <2>7, <1>4, <1>5 DEF All
  <2>9. QED BY <2>1, <2>2, <2>8, FreshInOrder
<1>9. CASE FileSent
  <2>1. Pending = <<>> /\ Pending' = <<>> /\ call.op = "file"
    BY <1>9, FlushedFacts DEF FileSent
  <2>2. rest = <<>> /\ rest' = rest /\ dropped' = dropped
    BY <1>9, <2>1 DEF FileSent, CallSound
  <2>3. PICK k \in Nat : accepted' = accepted + k /\ wire' = wire \o Fresh(k)
    <3>1. PICK k \in Nat : Accept(k) /\ wire' = wire \o Fresh(k)
      BY <1>9 DEF FileSent
    <3>2. QED BY <3>1 DEF Accept
  <2>4. Fresh(k) \in Seq(0..accepted') /\ wire \in Seq(0..accepted')
    <3>1. Fresh(k) \in Seq(1..accepted') /\ accepted' \in Nat /\ accepted <= accepted'
      BY <1>1, <2>3, FreshFacts
    <3>2. wire \in Seq(1..accepted)
      BY <1>1 DEF S
    <3>3. QED BY <1>1, <3>1, <3>2, Widen
  <2>5. wire \o Fresh(k) \in Seq(0..accepted')
    BY <2>4, ConcatProperties
  <2>6. ((wire \o Fresh(k)) \o <<>>) \o <<>> = wire \o Fresh(k)
    BY <2>5, ConcatEmptySeq
  <2>7. All' = All \o Fresh(k)
    BY <2>1, <2>2, <2>3, <2>6, <1>2, <1>4 DEF All
  <2>8. QED BY <2>2, <2>3, <2>7, FreshInOrder
\* Bytes that move on.
<1>10. CASE Flush
  <2>1. PICK k \in 1..Len(Pending) : wire' = wire \o SubSeq(Pending, 1, k) /\ offset' = offset + k
    BY <1>10 DEF Flush
  <2>2. rest' = rest /\ buf' = buf /\ accepted' = accepted /\ dropped' = dropped
    BY <1>10 DEF Flush
  <2>3. SubSeq(Pending, 1, k) \o Pending' = Pending
    <3>1. k \in 0..Len(buf) - offset
      BY <1>1, <2>1
    <3>2. buf \in Seq(1..accepted)
      BY DEF TypeOK
    <3>3. SubSeq(Pending, 1, k) \o SubSeq(buf, offset + k + 1, Len(buf)) = Pending
      BY <3>1, <3>2, <1>1, AdvanceFacts DEF Pending
    <3>4. QED BY <3>3, <2>1, <2>2 DEF Pending
  <2>4. SubSeq(Pending, 1, k) \in Seq(T) /\ Pending' \in Seq(T)
    <3>1. SubSeq(Pending, 1, k) \in Seq(1..accepted)
      BY <1>1, <2>1, PartFacts DEF S
    <3>2. Pending' \in Seq(1..accepted)
      <4>1. offset' \in 0..Len(buf) /\ buf \in Seq(1..accepted)
        BY <1>1, <2>1 DEF TypeOK
      <4>2. QED BY <4>1, <2>2, RestFacts DEF Pending
    <3>3. QED BY <3>1, <3>2, <1>2 DEF S
  <2>5. (wire \o SubSeq(Pending, 1, k)) \o Pending' = wire \o Pending
    <3> DEFINE part == SubSeq(Pending, 1, k)
    <3>1. part \in Seq(T) /\ part \o Pending' = Pending
      BY <2>3, <2>4
    <3> HIDE DEF part
    <3>2. wire \in Seq(T) /\ Pending' \in Seq(T)
      BY <2>4, <1>2
    <3>3. (wire \o part) \o Pending' = wire \o (part \o Pending')
      BY <3>1, <3>2, <1>3, Zenon
    <3>4. QED BY <3>1, <3>3 DEF part
  <2>6. All' = All
    BY <2>1, <2>2, <2>5 DEF All
  <2>7. QED BY <2>2, <2>6, SameInOrder
<1>11. CASE WriteDirect
  <2>1. Pending = <<>> /\ Pending' = <<>>
    BY <1>11, FlushedFacts DEF WriteDirect
  <2>2. PICK k \in 1..Len(rest) : /\ wire' = wire \o SubSeq(rest, 1, k)
                                  /\ rest' = SubSeq(rest, k + 1, Len(rest))
    BY <1>11 DEF WriteDirect
  <2>3. accepted' = accepted /\ dropped' = dropped
    BY <1>11 DEF WriteDirect
  <2>4. /\ SubSeq(rest, 1, k) \in Seq(T) /\ rest' \in Seq(T) /\ wire' \in Seq(T)
        /\ SubSeq(rest, 1, k) \o rest' = rest
    <3>1. /\ SubSeq(rest, 1, k) \in Seq(S) /\ SubSeq(rest, k + 1, Len(rest)) \in Seq(S)
          /\ wire \o SubSeq(rest, 1, k) \in Seq(S)
          /\ SubSeq(rest, 1, k) \o SubSeq(rest, k + 1, Len(rest)) = rest
      BY <1>1, PartFacts DEF S
    <3>2. QED BY <3>1, <2>2, <1>2
  <2>5. (wire \o SubSeq(rest, 1, k)) \o rest' = wire \o rest
    <3> DEFINE part == SubSeq(rest, 1, k)
    <3>1. part \in Seq(T) /\ part \o rest' = rest
      BY <2>4
    <3> HIDE DEF part
    <3>2. wire \in Seq(T) /\ rest' \in Seq(T)
      BY <2>4, <1>2
    <3>3. (wire \o part) \o rest' = wire \o (part \o rest')
      BY <3>1, <3>2, <1>3, Zenon
    <3>4. QED BY <3>1, <3>3 DEF part
  <2>6. All' = All
    BY <2>1, <2>2, <2>4, <2>5, <1>2, <1>4 DEF All
  <2>7. QED BY <2>3, <2>6, SameInOrder
\* Bytes that are given up.
<1>12. CASE FlushTimeout
  <2>1. /\ wire' = wire /\ rest' = rest /\ accepted' = accepted /\ dropped' = dropped \cup ToSet(Pending)
        /\ buf' = buf /\ offset' = Len(buf)
    BY <1>12 DEF FlushTimeout, Drop
  <2>2. Pending' = <<>>
    <3>1. SubSeq(buf', offset' + 1, Len(buf')) = <<>>
      BY <1>1, <2>1, SubSeqEmpty
    <3>2. QED BY <3>1 DEF Pending
  <2>3. All' = wire \o rest
    BY <2>1, <2>2, <1>2, <1>4 DEF All
  <2>4. /\ Ascending(wire \o rest)
        /\ ToSet(wire \o rest) = ToSet(All) \ ToSet(Pending)
    BY <1>1, <1>2, <1>6, MiddleFacts DEF All, T
  <2>5. Ascending(All') /\ ToSet(All') = 1..accepted' \ dropped'
    BY <2>1, <2>3, <2>4, <1>6 DEF S
  <2>6. QED BY <2>5 DEF WrittenInOrder, Ascending, All
<1>13. CASE FlushFails \/ WriteFails
  <2>1. /\ wire' = wire /\ rest' = <<>> /\ accepted' = accepted /\ dropped' = dropped \cup ToSet(rest)
    BY <1>13 DEF FlushFails, WriteFails, Drop
  <2>2. Pending' = Pending
    BY <1>13, FlushedFacts DEF FlushFails, WriteFails, streamVars, Pending
  <2>3. All' = wire \o Pending
    BY <2>1, <2>2, <1>4, <1>5 DEF All
  <2>4. Ascending(wire \o Pending) /\ ToSet(wire \o Pending) \cap ToSet(rest) = {}
    BY <1>1, <1>2, <1>5, <1>6, CutFacts DEF All, T
  <2>5. ToSet(All) = ToSet(wire \o Pending) \cup ToSet(rest)
    BY <1>2, <1>5, JoinFacts DEF All
  <2>6. Ascending(All') /\ ToSet(All') = 1..accepted' \ dropped'
    BY <2>1, <2>3, <2>4, <2>5, <1>6 DEF S
  <2>7. QED BY <2>6 DEF WrittenInOrder, Ascending, All
\* Steps that move nothing.
<1>14. CASE PrintfReturns \/ WriteReturns \/ FileEnds
  <2>1. Pending' = Pending
    BY <1>14, FlushedFacts DEF PrintfReturns, WriteReturns, FileEnds
  <2>2. wire' = wire /\ rest' = rest /\ accepted' = accepted /\ dropped' = dropped
    BY <1>14 DEF PrintfReturns, WriteReturns, FileEnds
  <2>3. QED BY <2>1, <2>2, SameInOrder DEF All
<1>15. ASSUME NEW n \in Lengths, PrintfFull(n) \/ SendFile(n) PROVE WrittenInOrder'
  BY <1>15, SameInOrder DEF PrintfFull, SendFile, streamVars, All, Pending
<1>16. CASE Break \/ UNCHANGED vars
  BY <1>16, SameInOrder DEF Break, vars, streamVars, All, Pending
<1>17. QED
  BY <1>7, <1>8, <1>9, <1>10, <1>11, <1>12, <1>13, <1>14, <1>15, <1>16 DEF Next

-----------------------------------------------------------------------------
(* The theorems                                                            *)

\* Each step keeps CallSound.
LEMMA CallStep ==
  ASSUME TypeOK, CallSound, [Next]_vars
  PROVE  CallSound'
<1>1. accepted \in Nat
  BY DEF TypeOK
<1>2. ASSUME NEW n \in Lengths, Write(n) \/ Printf(n) PROVE CallSound'
  <2>1. accepted' = accepted + n /\ n \in Nat /\ call = NoCall
    BY <1>2, LengthsAreNat DEF Write, Printf, Accept
  <2>2. call'.n = n /\ call'.op \in {"write", "printf"} /\ n <= accepted'
    BY <1>1, <1>2, <2>1 DEF Write, Printf
  <2>3. rest' # <<>> => call'.op = "write"
    BY <1>2, <2>1 DEF Write, Printf, CallSound, NoCall
  <2>4. QED BY <2>2, <2>3 DEF CallSound
<1>3. ASSUME NEW n \in Lengths, PrintfFull(n) PROVE CallSound'
  BY <1>3 DEF PrintfFull, CallSound
<1>4. ASSUME NEW n \in Lengths, SendFile(n) PROVE CallSound'
  BY <1>4 DEF SendFile, CallSound, NoCall
<1>5. CASE Flush \/ FlushTimeout \/ Break \/ UNCHANGED vars
  BY <1>5 DEF Flush, FlushTimeout, Break, vars, streamVars, CallSound
<1>6. CASE FlushFails \/ WriteFails
  BY <1>6 DEF FlushFails, WriteFails, Return, CallSound, NoCall
<1>7. CASE PrintfReturns \/ WriteReturns \/ FileEnds \/ FileSent
  <2>1. rest = <<>> /\ rest' = rest
    BY <1>7 DEF PrintfReturns, WriteReturns, FileEnds, FileSent, Flushed, CallSound
  <2>2. call' = NoCall
    BY <1>7 DEF PrintfReturns, WriteReturns, FileEnds, FileSent, Return
  <2>3. QED BY <2>1, <2>2 DEF CallSound, NoCall
<1>8. CASE WriteDirect
  BY <1>8 DEF WriteDirect, Flushed, CallSound
<1>9. QED
  BY <1>2, <1>3, <1>4, <1>5, <1>6, <1>7, <1>8 DEF Next

LEMMA InitIInv == Init => IInv
<1> SUFFICES ASSUME Init PROVE IInv
  OBVIOUS
<1>1. <<>> \in Seq(1..accepted) /\ Len(<<>>) = 0
  BY EmptySeq
<1>2. TypeOK
  BY <1>1, SizeIsPos, LengthsAreNat DEF Init, TypeOK
<1>3. All = <<>>
  <2>1. SubSeq(buf, offset + 1, Len(buf)) = <<>>
    BY <1>1, SubSeqEmpty DEF Init
  <2>2. (<<>> \o <<>>) \o <<>> = <<>>
    BY <1>1, ConcatEmptySeq
  <2>3. QED BY <2>1, <2>2 DEF Init, All, Pending
<1>4. Ascending(All) /\ ToSet(All) = 1..accepted \ dropped
  BY <1>3 DEF Init, Ascending, ToSet
<1>5. WrittenInOrder
  BY <1>4, OrderMeans
<1>6. CallSound
  BY DEF Init, CallSound, NoCall
<1>7. QED BY <1>2, <1>5, <1>6 DEF IInv

LEMMA NextIInv == IInv /\ [Next]_vars => IInv'
BY TypeStep, OrderStep, CallStep DEF IInv

\* The invariant holds in every behaviour.
THEOREM IInvHolds == Spec => []IInv
BY InitIInv, NextIInv, PTL DEF Spec

\* offset <= length <= size at all times (stream.h:28), for any output and any failures.
THEOREM TypeCorrect == Spec => []TypeOK
<1>1. IInv => TypeOK
  BY DEF IInv
<1>2. QED BY <1>1, IInvHolds, PTL

\* The socket gets all bytes in order and none twice, but for those of calls that have failed.
THEOREM OrderCorrect == Spec => []WrittenInOrder
<1>1. IInv => WrittenInOrder
  BY DEF IInv
<1>2. QED BY <1>1, IInvHolds, PTL

\* When nothing is left in the buffer or of the call, all that was accepted is accounted for.
LEMMA NothingLeft ==
  ASSUME IInv, Pending = <<>>, rest = <<>>, accepted > 0
  PROVE  accepted \in ToSet(wire) \cup dropped
<1>1. wire \in Seq(1..accepted) /\ accepted \in Nat
  BY DEF IInv, TypeOK
<1>2. All = wire
  BY <1>1, ConcatEmptySeq DEF All
<1>3. ToSet(wire) = 1..accepted \ dropped
  BY <1>2, OrderMeans DEF IInv
<1>4. QED BY <1>1, <1>3

\* A call that reports success has handed over what it was given, or its flush timed out.
THEOREM SuccessCorrect == Spec => SentOrTimedOut
<1> DEFINE Over == call.n > 0 /\ call' = NoCall /\ result' = 0 => accepted' \in ToSet(wire') \cup dropped'
<1>1. ASSUME IInv, [Next]_vars PROVE Over
  <2>1. SUFFICES ASSUME call.n > 0, call' = NoCall, result' = 0
                 PROVE  accepted' \in ToSet(wire') \cup dropped'
    OBVIOUS
  <2>2. TypeOK /\ CallSound /\ accepted \in Nat /\ call # NoCall
    BY <1>1, <2>1 DEF IInv, TypeOK, NoCall
  <2>3. CASE PrintfReturns \/ WriteReturns
    <3>1. Pending = <<>> /\ rest = <<>>
      BY <2>2, <2>3, FlushedFacts DEF PrintfReturns, WriteReturns, Flushed, CallSound
    <3>2. call \in Calls /\ call.op \in {"write", "printf"} /\ call.n \in Nat
      BY <2>2, <2>3, LengthsAreNat DEF PrintfReturns, WriteReturns, Flushed, TypeOK, Calls
    <3>3. accepted > 0
      BY <2>1, <2>2, <3>2 DEF CallSound
    <3>4. accepted' = accepted /\ wire' = wire /\ dropped' = dropped
      BY <2>3 DEF PrintfReturns, WriteReturns
    <3>5. QED BY <1>1, <3>1, <3>3, <3>4, NothingLeft
  <2>4. CASE FileSent
    <3>1. PICK k \in Nat \ {0} : Accept(k) /\ wire' = wire \o Fresh(k)
      BY <2>4 DEF FileSent
    <3>2. accepted' = accepted + k
      BY <3>1 DEF Accept
    <3>3. /\ Fresh(k) \in Seq(1..accepted') /\ accepted' \in ToSet(Fresh(k))
          /\ wire \in Seq(1..accepted')
      <4>1. wire \in Seq(1..accepted)
        BY <2>2 DEF TypeOK
      <4>2. /\ Fresh(k) \in Seq(1..accepted') /\ accepted' \in ToSet(Fresh(k))
            /\ 1..accepted \subseteq 1..accepted'
        BY <2>2, <3>2, FreshFacts
      <4>3. QED BY <4>1, <4>2, SeqMonotonic
    <3>4. ToSet(wire \o Fresh(k)) = ToSet(wire) \cup ToSet(Fresh(k))
      BY <3>3, JoinSet
    <3>5. QED BY <3>1, <3>3, <3>4
  <2>5. CASE FlushFails \/ WriteFails \/ FileEnds
    BY <2>1, <2>5 DEF FlushFails, WriteFails, FileEnds, Return
  <2>6. CASE Flush \/ FlushTimeout \/ WriteDirect \/ Break \/ UNCHANGED vars
    BY <2>1, <2>2, <2>6 DEF Flush, FlushTimeout, WriteDirect, Break, vars
  <2>7. ASSUME NEW n \in Lengths, Write(n) \/ Printf(n) \/ PrintfFull(n) \/ SendFile(n) PROVE FALSE
    BY <2>2, <2>7 DEF Write, Printf, PrintfFull, SendFile
  <2>8. QED BY <1>1, <2>3, <2>4, <2>5, <2>6, <2>7 DEF Next
<1>2. IInv /\ [Next]_vars => [Over]_vars
  BY <1>1
<1> HIDE DEF Over
<1>3. Spec => [][Over]_vars
  BY <1>2, IInvHolds, PTL DEF Spec
<1>4. QED BY <1>3 DEF SentOrTimedOut, Over

-----------------------------------------------------------------------------
(* The refinement                                                          *)

LEMMA IsFaithful == IInv => Bytes!Faithful
<1> SUFFICES ASSUME IInv PROVE Bytes!Faithful
  OBVIOUS
<1>1. TypeOK /\ WrittenInOrder
  BY DEF IInv
<1>2. /\ accepted \in Nat /\ accepted \in 0..accepted
      /\ wire \in Seq(1..accepted) /\ Pending \in Seq(1..accepted) /\ rest \in Seq(1..accepted)
  BY <1>1, PendingFacts
<1>3. wire \in Seq(0..accepted) /\ Pending \in Seq(0..accepted) /\ rest \in Seq(0..accepted)
  BY <1>2, Widen
<1> DEFINE behind == Pending \o rest
<1>4. behind \in Seq(0..accepted)
  BY <1>3, ConcatProperties
<1>5. wire \o behind = All
  <2>1. \A s, t, u \in Seq(0..accepted) : (s \o t) \o u = s \o (t \o u)
    BY Assoc
  <2>2. QED BY <2>1, <1>3 DEF All
<1>6. Ascending(All) /\ ToSet(All) = 1..accepted \ dropped
  BY <1>1, OrderMeans
<1> HIDE DEF behind
<1>7. Ascending(wire \o behind) /\ ToSet(wire \o behind) = 1..accepted \ dropped
  BY <1>5, <1>6
<1> DEFINE s == Sent(accepted)
<1>8. /\ ToSet(wire) \subseteq ToSet(s) \ dropped
      /\ \A i, j \in DOMAIN wire : i < j =>
           \E k, l \in DOMAIN s : k < l /\ s[k] = wire[i] /\ s[l] = wire[j]
      /\ \A k, l \in DOMAIN s : k < l /\ s[l] \in ToSet(wire) => s[k] \in ToSet(wire) \cup dropped
  BY <1>2, <1>3, <1>4, <1>7, FaithfulFacts, ZenonT(60)
<1>9. s = [i \in 1..accepted |-> i]
  BY DEF Sent
<1> HIDE DEF s
<1>10. QED BY <1>8, <1>9 DEF Bytes!Faithful, Bytes!InOrder, Bytes!NoGaps, Bytes!ToSet, ToSet

\* What the steps do to the three sequences that ByteStream sees.
LEMMA Outside ==
  ASSUME TypeOK, CallSound, [Next]_vars
  PROVE  /\ accepted <= accepted' /\ dropped \subseteq dropped'
         /\ IsPrefix(wire, wire')
<1>1. /\ wire \in Seq(1..accepted) /\ Pending \in Seq(1..accepted) /\ rest \in Seq(1..accepted)
      /\ accepted \in Nat
  BY PendingFacts
<1>2. ASSUME wire' = wire PROVE IsPrefix(wire, wire')
  <2>1. <<>> \in Seq(1..accepted) /\ wire \o <<>> = wire
    BY <1>1, EmptySeq, ConcatEmptySeq
  <2>2. QED BY <1>1, <1>2, <2>1, PrefixOfJoin
<1>3. ASSUME NEW n \in Lengths, Write(n) \/ Printf(n) \/ PrintfFull(n) \/ SendFile(n)
      PROVE  wire' = wire /\ dropped' = dropped /\ accepted <= accepted'
  BY <1>1, <1>3, LengthsAreNat DEF Write, Printf, PrintfFull, SendFile, Accept
<1>4. CASE Flush \/ WriteDirect
  <2>1. PICK s \in {Pending, rest} : \E k \in 1..Len(s) : wire' = wire \o SubSeq(s, 1, k)
    BY <1>4 DEF Flush, WriteDirect
  <2>2. PICK k \in 1..Len(s) : wire' = wire \o SubSeq(s, 1, k)
    BY <2>1
  <2>3. SubSeq(s, 1, k) \in Seq(1..accepted)
    BY <1>1, PartFacts
  <2>4. IsPrefix(wire, wire \o SubSeq(s, 1, k))
    BY <1>1, <2>3, PrefixOfJoin
  <2>5. accepted' = accepted /\ dropped' = dropped
    BY <1>4 DEF Flush, WriteDirect
  <2>6. QED BY <1>1, <2>2, <2>4, <2>5
<1>5. CASE FileSent
  <2>1. PICK k \in Nat : Accept(k) /\ wire' = wire \o Fresh(k)
    BY <1>5 DEF FileSent
  <2>2. accepted' = accepted + k
    BY <2>1 DEF Accept
  <2>3. Fresh(k) \in Seq(1..accepted') /\ 1..accepted \subseteq 1..accepted'
    BY <2>2, FreshFacts
  <2>4. wire \in Seq(1..accepted')
    BY <1>1, <2>3, SeqMonotonic
  <2>5. IsPrefix(wire, wire \o Fresh(k))
    BY <2>3, <2>4, PrefixOfJoin
  <2>6. dropped' = dropped
    BY <1>5 DEF FileSent
  <2>7. QED BY <1>1, <2>1, <2>2, <2>5, <2>6
<1>6. CASE \/ FlushTimeout \/ FlushFails \/ PrintfReturns \/ WriteReturns \/ WriteFails \/ FileEnds
           \/ Break \/ UNCHANGED vars
  <2>1. wire' = wire /\ accepted' = accepted /\ dropped \subseteq dropped'
    BY <1>6 DEF FlushTimeout, FlushFails, PrintfReturns, WriteReturns, WriteFails, FileEnds,
                Break, Drop, vars
  <2>2. QED BY <1>1, <1>2, <2>1
<1>7. QED BY <1>2, <1>3, <1>4, <1>5, <1>6 DEF Next

\* What the socket gets is what callers have written, in order and each byte once, but for what
\* failed calls drop: WriteStream implements ByteStream.
THEOREM WritesAreByteStream == Spec => ByteStreamSpec
<1>1. Init => Bytes!Init
  <2>1. SUFFICES ASSUME Init PROVE Bytes!Init
    OBVIOUS
  <2>2. Sent(0) = <<>>
    BY SentFacts
  <2>3. [i \in 1..0 |-> i] = <<>>
    BY <2>2 DEF Sent
  <2>4. accepted = 0 /\ dropped = {} /\ wire = <<>>
    BY <2>1 DEF Init
  <2>5. QED BY <2>3, <2>4 DEF Bytes!Init
<1>2. IInv /\ [Next]_vars /\ Bytes!Faithful' => Bytes!Next
  <2>1. SUFFICES ASSUME IInv, [Next]_vars, Bytes!Faithful' PROVE Bytes!Next
    OBVIOUS
  <2>2. accepted <= accepted' /\ dropped \subseteq dropped' /\ IsPrefix(wire, wire')
    BY <2>1, Outside DEF IInv
  <2>3. TypeOK'
    BY <2>1, TypeStep DEF IInv
  <2>4. accepted \in Nat /\ accepted' \in Nat
    BY <2>1, <2>3 DEF IInv, TypeOK
  <2>5. IsPrefix(Sent(accepted), Sent(accepted'))
    BY <2>2, <2>4, SentGrows
  <2>6. QED BY <2>1, <2>2, <2>5 DEF Bytes!Next, Bytes!IsPrefix, IsPrefix, Sent
<1>3. QED
  BY <1>1, <1>2, IInvHolds, IsFaithful, PTL DEF Spec, ByteStreamSpec, Bytes!Spec
=============================================================================

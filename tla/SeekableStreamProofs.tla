-------------------------- MODULE SeekableStreamProofs --------------------------
(***************************************************************************)
(* SeekableStreamingBody is a plain file, for files of any length, any size*)
(* of the read-ahead and any sequence of reads and seeks.                  *)
(***************************************************************************)
EXTENDS SeekableStream, TLAPS

(* The buffer holds the bytes around the position, all of them of the file, *)
(* and the response goes on where the buffer ends.                          *)
Aligned(n) ==
  /\ tell <= n
  /\ tell <= current
  /\ buffer = Bytes(current - tell, n)
  /\ body = current - tell + n
  /\ n > 0 => body <= length

IInv ==
  /\ length \in Nat /\ current \in Nat /\ want \in 0..MaxRead /\ tell \in Nat
  /\ \E n \in Nat : Aligned(n)

LEMMA BytesLen ==
  ASSUME NEW o \in Nat, NEW n \in Nat
  PROVE  Bytes(o, n) \in Seq(Nat) /\ Len(Bytes(o, n)) = n
  BY DEF Bytes

(* A part of consecutive bytes is consecutive bytes.                        *)
LEMMA BytesSub ==
  ASSUME NEW o \in Nat, NEW n \in Nat, NEW t \in Nat, NEW m \in Nat, t + m <= n
  PROVE  SubSeq(Bytes(o, n), t + 1, t + m) = Bytes(o + t, m)
<1>1. Bytes(o, n) = [i \in 1..n |-> o + i - 1]
  BY DEF Bytes
<1>2. SubSeq(Bytes(o, n), t + 1, t + m) = [i \in 1..m |-> Bytes(o, n)[i + (t + 1) - 1]]
  BY <1>1
<1>3. \A i \in 1..m : Bytes(o, n)[i + (t + 1) - 1] = o + t + i - 1
  BY <1>1
<1>. QED
  BY <1>2, <1>3 DEF Bytes

(* What is read ahead are bytes of the file, none only at its end.          *)
LEMMA AheadIsBytes ==
  ASSUME NEW b \in Nat, length \in Nat
  PROVE  \E n \in Nat :
           /\ AheadOf(b) = Bytes(b, n) /\ Len(AheadOf(b)) = n
           /\ n > 0 => b + n <= length
           /\ n = 0 => b >= length
<1>. DEFINE n == IF b >= length THEN 0 ELSE Least(ReadaheadSize, length - b)
<1>1. n \in Nat /\ (n > 0 => b + n <= length) /\ (n = 0 => b >= length)
  BY StreamAssumption DEF Least
<1>2. AheadOf(b) = Bytes(b, n)
  BY DEF AheadOf
<1>. HIDE DEF n
<1>. QED
  BY <1>1, <1>2, BytesLen

LEMMA ReadaheadAligns ==
  ASSUME NEW b \in Nat, length \in Nat, Readahead(b), length' = length, current' = b
  PROVE  tell' = 0 /\ \E n \in Nat : Aligned(n)'
<1>1. PICK n \in Nat : /\ AheadOf(b) = Bytes(b, n) /\ Len(AheadOf(b)) = n
                       /\ n > 0 => b + n <= length
  BY AheadIsBytes
<1>. QED
  BY <1>1 DEF Readahead, Aligned

LEMMA AlignedLen ==
  ASSUME NEW n \in Nat, Aligned(n), current \in Nat, tell \in Nat
  PROVE  Len(buffer) = n
  BY BytesLen DEF Aligned

LEMMA InitAligned == InitStream => IInv
<1>. SUFFICES ASSUME InitStream PROVE IInv
  OBVIOUS
<1>1. length \in Nat /\ current = 0 /\ want = 0 /\ want \in 0..MaxRead /\ tell = 0
  BY StreamAssumption DEF InitStream, InitFile
<1>2. PICK n \in Nat : /\ AheadOf(0) = Bytes(0, n) /\ Len(AheadOf(0)) = n
                       /\ n > 0 => 0 + n <= length
  BY <1>1, AheadIsBytes
<1>3. Aligned(n)
  BY <1>1, <1>2 DEF InitStream, Aligned
<1>. QED
  BY <1>1, <1>3 DEF IInv

(* Every step keeps the buffer aligned and is one of the file or none.      *)
LEMMA StepIsOneOfTheFile ==
  ASSUME IInv, [NextStream]_<<file, stream>>
  PROVE  IInv' /\ [NextFile]_file
<1>0. PICK k \in Nat : Aligned(k)
  BY DEF IInv
<1>a. length \in Nat /\ current \in Nat /\ tell \in Nat /\ want \in Nat /\ want <= MaxRead
  BY StreamAssumption DEF IInv
<1>b. Len(buffer) = k
  BY <1>0, <1>a, AlignedLen
<1>. USE <1>a
<1>1. ASSUME NEW n \in 1..MaxRead, Read(n), UNCHANGED stream
      PROVE  IInv' /\ NextFile
  <2>1. n \in Nat
    BY StreamAssumption
  <2>2. Aligned(k)'
    BY <1>0, <1>1 DEF Read, stream, Aligned
  <2>. QED
    BY StreamAssumption, <1>1, <2>1, <2>2 DEF Read, stream, NextFile, IInv
<1>2. ASSUME ReadBuffer
      PROVE  IInv' /\ NextFile
  <2>. DEFINE n == Least(want, k - tell)
  <2>1. n \in Nat /\ n > 0 /\ n <= want /\ tell + n <= k
    BY <1>0, <1>b, <1>2 DEF ReadBuffer, Least, Aligned
  <2>2. /\ got' = got \o SubSeq(buffer, tell + 1, tell + n)
        /\ tell' = tell + n /\ current' = current + n /\ want' = want - n
        /\ UNCHANGED <<length, body, buffer>>
    BY <1>b, <1>2 DEF ReadBuffer
  <2>. HIDE DEF n
  <2>3. SubSeq(buffer, tell + 1, tell + n) = Bytes(current, n)
    <3>. DEFINE o == current - tell
    <3>1. o \in Nat /\ o + tell = current /\ buffer = Bytes(o, k)
      BY <1>0 DEF Aligned
    <3>. HIDE DEF o
    <3>2. SubSeq(Bytes(o, k), tell + 1, tell + n) = Bytes(o + tell, n)
      BY <2>1, <3>1, BytesSub
    <3>. QED
      BY <3>1, <3>2
  <2>4. Aligned(k)'
    BY <1>0, <2>1, <2>2 DEF Aligned
  <2>5. current + n <= length
    BY <1>0, <2>1 DEF Aligned
  <2>6. Deliver(n)
    BY <2>1, <2>2, <2>3, <2>5 DEF Deliver
  <2>7. IInv'
    BY StreamAssumption, <2>1, <2>2, <2>4 DEF IInv
  <2>. QED
    BY StreamAssumption, <2>1, <2>6, <2>7 DEF NextFile
<1>3. ASSUME FillBuffer
      PROVE  IInv' /\ UNCHANGED file
  <2>1. body = current
    BY <1>0, <1>b, <1>3 DEF FillBuffer, BufferExhausted, Aligned
  <2>. QED
    BY StreamAssumption, <1>3, <2>1, ReadaheadAligns DEF FillBuffer, file, IInv
<1>4. ASSUME EndOfStream
      PROVE  IInv' /\ NextFile
  <2>1. body = current /\ want > 0
    BY <1>0, <1>b, <1>4 DEF EndOfStream, BufferExhausted, Aligned
  <2>2. PICK n \in Nat : Len(AheadOf(body)) = n /\ (n = 0 => body >= length)
    BY <2>1, AheadIsBytes
  <2>3. n = 0
    BY <1>4, <2>2 DEF EndOfStream
  <2>4. EndOfFile
    BY <1>4, <2>1, <2>2, <2>3 DEF EndOfStream, EndOfFile
  <2>. QED
    BY StreamAssumption, <1>4, <2>1, <2>4, ReadaheadAligns DEF EndOfStream, NextFile, IInv
<1>5. ASSUME NEW o \in 0..MaxSeek, SeekInBuffer(o)
      PROVE  IInv' /\ NextFile
  <2>1. o \in Nat
    BY StreamAssumption
  <2>2. Aligned(k)' /\ tell' \in Nat
    BY <1>0, <1>b, <1>5, <2>1 DEF SeekInBuffer, InBuffer, Seek, Aligned
  <2>. QED
    BY StreamAssumption, <1>5, <2>1, <2>2 DEF SeekInBuffer, Seek, NextFile, IInv
<1>6. ASSUME NEW o \in 0..MaxSeek, Restart(o)
      PROVE  IInv' /\ NextFile
  <2>1. o \in Nat
    BY StreamAssumption
  <2>. QED
    BY StreamAssumption, <1>6, <2>1, ReadaheadAligns DEF Restart, Seek, NextFile, IInv
<1>7. ASSUME UNCHANGED <<file, stream>>
      PROVE  IInv' /\ UNCHANGED file
  BY StreamAssumption, <1>0, <1>7 DEF file, stream, Aligned, IInv
<1>. QED
  BY <1>1, <1>2, <1>3, <1>4, <1>5, <1>6, <1>7 DEF NextStream

(* Whatever sequence of reads and seeks a caller makes, over the end of the *)
(* buffer, back into it and beyond the end of the file, the stream behaves  *)
(* as a plain file does (web/storage.py, SeekableStreamingBody).            *)
THEOREM StreamIsPlainFile == StreamSpec => ImplementsPlainFile
<1>1. InitStream => InitFile
  BY DEF InitStream
<1>. QED
  BY <1>1, InitAligned, StepIsOneOfTheFile, PTL DEF StreamSpec, ImplementsPlainFile, PlainSpec
=================================================================================

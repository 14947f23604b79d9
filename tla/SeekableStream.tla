---------------------------- MODULE SeekableStream ----------------------------
(***************************************************************************)
(* SeekableStreamingBody (drakrun/web/storage.py): a file on S3, read      *)
(* through HTTP responses that only go forward, with a buffer read ahead.  *)
(* A seek stays within the buffer or asks S3 for the rest of the object.   *)
(* The callers, scattered_read_file and msgpack, pass a size to read.      *)
(***************************************************************************)
EXTENDS PlainFile, SequencesExt

CONSTANT
  ReadaheadSize   (* the bytes read ahead: 128 kB *)

ASSUME StreamAssumption ==
  /\ Lengths \subseteq Nat
  /\ ReadaheadSize \in Nat \ {0}
  /\ MaxSeek \in Nat /\ MaxRead \in Nat

VARIABLES
  body,     (* the offset of the next byte of the HTTP response *)
  buffer,   (* readahead_buffer: the bytes in it                *)
  tell      (* its position                                     *)

stream == <<body, buffer, tell>>

Least(a, b) == IF a < b THEN a ELSE b

(* Mutant of AheadOf: what lies beyond the end of the object is read too.   *)
AheadOfAll(b) == Bytes(b, ReadaheadSize)

(* _readahead on a response that starts at b: as much as there is, up to    *)
(* the size, however small the chunks in which it arrives.                  *)
AheadOf(b) == Bytes(b, IF b >= length THEN 0 ELSE Least(ReadaheadSize, length - b))

Readahead(b) ==
  /\ buffer' = AheadOf(b)
  /\ body' = b + Len(AheadOf(b))
  /\ tell' = 0

InitStream ==
  /\ InitFile
  /\ buffer = AheadOf(0)
  /\ body = Len(AheadOf(0))
  /\ tell = 0

(* read(n): what is left of the buffer is taken first; an empty one is      *)
(* filled again, and stays empty at the end of the file.                    *)
ReadBuffer ==
  LET n == Least(want, Len(buffer) - tell) IN
  /\ want > 0
  /\ n > 0
  /\ got' = got \o SubSeq(buffer, tell + 1, tell + n)
  /\ tell' = tell + n
  /\ current' = current + n
  /\ want' = want - n
  /\ UNCHANGED <<length, body, buffer>>

BufferExhausted == want > 0 /\ tell = Len(buffer)

FillBuffer ==
  /\ BufferExhausted
  /\ AheadOf(body) # <<>>
  /\ Readahead(body)
  /\ UNCHANGED file

EndOfStream ==
  /\ BufferExhausted
  /\ AheadOf(body) = <<>>
  /\ Readahead(body)
  /\ want' = 0
  /\ UNCHANGED <<length, current, got>>

(* seek(o): the part of the file that the buffer holds.                     *)
InBuffer(o) == current - tell <= o /\ o < current - tell + Len(buffer)

(* Mutant of SeekInBuffer: the position in the file, not in the buffer.     *)
SeekFromStart(o) ==
  /\ InBuffer(o)
  /\ Seek(o)
  /\ tell' = o
  /\ UNCHANGED <<body, buffer>>

SeekInBuffer(o) ==
  /\ InBuffer(o)
  /\ Seek(o)
  /\ tell' = o - (current - tell)
  /\ UNCHANGED <<body, buffer>>

(* Anything else restarts the response at o; from the end of the object on  *)
(* S3 answers InvalidRange and the stream is empty.                         *)
Restart(o) ==
  /\ ~InBuffer(o)
  /\ Seek(o)
  /\ Readahead(o)

NextStream ==
  \/ \E n \in 1..MaxRead : Read(n) /\ UNCHANGED stream
  \/ ReadBuffer
  \/ FillBuffer
  \/ EndOfStream
  \/ \E o \in 0..MaxSeek : SeekInBuffer(o) \/ Restart(o)

StreamSpec == InitStream /\ [][NextStream]_<<file, stream>>

----------------------------------------------------------------------------
(* Properties                                                               *)

StreamTypeOK ==
  /\ length \in Lengths
  /\ current \in Nat /\ want \in 0..MaxRead /\ got \in Seq(Nat)
  /\ body \in Nat /\ buffer \in Seq(Nat) /\ tell \in 0..Len(buffer)

(* Whatever sequence of reads and seeks a caller makes, over the end of the *)
(* buffer, back into it and beyond the end of the file, the stream behaves  *)
(* as a plain file does.                                                    *)
ImplementsPlainFile == PlainSpec
============================================================================

------------------------------ MODULE PlainFile ------------------------------
(***************************************************************************)
(* What a reader of a result file relies on, wherever the file is kept: a  *)
(* position, seeks that set it, and reads that deliver the bytes that      *)
(* follow it, fewer than asked for only at the end of the file.  A byte is *)
(* its offset.                                                             *)
(***************************************************************************)
EXTENDS Integers, Sequences

CONSTANTS
  Lengths,  (* the lengths of the files considered *)
  MaxSeek,  (* the largest offset a reader seeks   *)
  MaxRead   (* the most bytes it asks for          *)

VARIABLES
  length,   (* the length of the file                         *)
  current,  (* the position                                   *)
  want,     (* the bytes still to be delivered, 0 if none are *)
  got       (* what the read has delivered so far             *)

file == <<length, current, want, got>>

(* The offsets of n bytes from the offset o.                                *)
Bytes(o, n) == [i \in 1..n |-> o + i - 1]

InitFile == length \in Lengths /\ current = 0 /\ want = 0 /\ got = <<>>

Read(n) ==
  /\ want = 0
  /\ want' = n
  /\ got' = <<>>
  /\ UNCHANGED <<length, current>>

Deliver(n) ==
  /\ n <= want
  /\ current + n <= length
  /\ got' = got \o Bytes(current, n)
  /\ current' = current + n
  /\ want' = want - n
  /\ UNCHANGED length

EndOfFile ==
  /\ want > 0
  /\ current >= length
  /\ want' = 0
  /\ UNCHANGED <<length, current, got>>

Seek(o) ==
  /\ want = 0
  /\ current' = o
  /\ got' = <<>>
  /\ UNCHANGED <<length, want>>

NextFile ==
  \/ \E n \in 1..MaxRead : Read(n) \/ Deliver(n)
  \/ EndOfFile
  \/ \E o \in 0..MaxSeek : Seek(o)

PlainSpec == InitFile /\ [][NextFile]_file
============================================================================

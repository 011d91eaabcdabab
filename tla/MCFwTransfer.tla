---------------------------- MODULE MCFwTransfer ----------------------------
(* Instances of FwTransfer: an image of three bytes, pages of two.         *)
EXTENDS FwTransfer

\* A cell that holds no byte reads as some value all the same.
CellValue(c) == IF c \in Byte THEN c ELSE 2

\* A checksum with collisions: four values for all images.
MCCrc16(seed, s) ==
  LET f[i \in 0 .. Len(s)] == IF i = 0 THEN seed ELSE (f[i - 1] * 3 + CellValue(s[i]) + 1) % 4
  IN f[Len(s)]

MCTlvKeyOk(slot) == slot[0] = 1

MCImage == <<1, 0, 1>>

=============================================================================

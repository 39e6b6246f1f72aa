----------------------------- MODULE MCRequest -----------------------------
(* Values for RequestProperties: uids of the greatest length and beyond it, *)
(* in ASCII, and one whose characters take two bytes each.                  *)
EXTENDS RequestProperties

MCAscii == {"ab", "abc"}
MCAsciiLength == [u \in MCAscii |-> IF u = "ab" THEN 2 ELSE 3]

MCCyrillic == {"zh"}
MCCyrillicChars == [u \in MCCyrillic |-> 2]
MCCyrillicBytes == [u \in MCCyrillic |-> 4]
=============================================================================

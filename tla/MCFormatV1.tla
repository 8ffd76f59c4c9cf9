----------------------------- MODULE MCFormatV1 -----------------------------
(***************************************************************************)
(* An instance of FormatV1 for TLC, with the lengths of the crate's keys.   *)
(***************************************************************************)
EXTENDS FormatV1

\* Values: one, not UTF-8, that fits a cid packet but not an identifier packet;
\* one of 32 bytes.
CONSTANTS large, sig

MCSize(v) == CASE v = Empty -> 0 [] v = sig -> 32 [] v = large -> 65526
MCUtf8(v) == v # large
MCKeyLength(key) ==
  CASE key = "LOCATION" -> 8 [] key = "IDENTIFIER" -> 10 [] key = "SIGNATURE" -> 9
    [] key = "CL" -> 2 [] OTHER -> 3
=============================================================================

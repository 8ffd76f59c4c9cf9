----------------------------- MODULE MCBytesV2 -----------------------------
(***************************************************************************)
(* An instance of BytesV2 for TLC.  Two bits to a digit, so that a size     *)
(* below the limit has up to three digits, as it has in the code, and nine  *)
(* bits to a usize, so that one digit more would not fit, as in the code.   *)
(* The bytes of a value do not matter to the parser, but for UTF-8.         *)
(***************************************************************************)
EXTENDS BytesV2

OfBytes(n) == [i \in 1..n |-> 3]

\* Sizes of one digit and of three: the signature's, which is the largest that
\* is allowed, and one byte more.  Data of any other size are cut off.
MCValue == { OfBytes(n) : n \in {0, SIGNATURE_SIZE, 17} }
MCEmpty == OfBytes(0)
MCSize(v) == Len(v)
MCUtf8(v) == Len(v) < 16
=============================================================================

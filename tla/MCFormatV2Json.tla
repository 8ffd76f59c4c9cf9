--------------------------- MODULE MCFormatV2Json ---------------------------
(***************************************************************************)
(* An instance of FormatV2Json for TLC.                                     *)
(***************************************************************************)
EXTENDS FormatV2Json

\* Values: too large; of 32 bytes; one that is not UTF-8.
CONSTANTS huge, sig, bytes

MCSize(v) == CASE v = Empty -> 0 [] v = bytes -> 1 [] v = sig -> 32 [] v = huge -> 65536
MCUtf8(v) == v # bytes
=============================================================================

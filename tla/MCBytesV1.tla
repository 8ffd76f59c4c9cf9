----------------------------- MODULE MCBytesV1 -----------------------------
(***************************************************************************)
(* An instance of BytesV1 for TLC: two digits of radix six to a header, so   *)
(* that a size with a sign is still larger than the header, as in the code.  *)
(***************************************************************************)
EXTENDS BytesV1

MCHex      == <<"0", "1", "2", "3", "4", "e">>
MCUpperHex == <<"0", "1", "2", "3", "4", "E">>
MCTag == { <<"e">>, <<"e", "e">> }

\* "?" begins no UTF-8 character.
MCUtf8(bytes) == "?" \notin Range(bytes)
=============================================================================

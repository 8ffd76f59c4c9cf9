------------------------------- MODULE Crypto -------------------------------
(***************************************************************************)
(* The cryptographic layer (src/src/crypto) as a free term algebra: two     *)
(* HMACs are equal exactly when they have the same key and the same input,  *)
(* and a secretbox opens exactly under the key it was sealed with.          *)
(*                                                                          *)
(* A MacaroonKey, which is a key and a signature alike in the code, is a    *)
(* record: the secret at the bottom of it and the texts that were MACed     *)
(* onto that secret, oldest first.  HMAC is applied to the output of HMAC   *)
(* all along a macaroon, so this is the nested term written flat.           *)
(***************************************************************************)
EXTENDS Naturals, Sequences

CONSTANTS
  Secret,     \* the 32-byte strings that callers use as keys
  ZeroSecret  \* [0; 32], the key of every binding

ASSUME SecretAssumption == ZeroSecret \notin Secret

\* A key as a caller makes one: generate, generate_random or From<[u8; 32]>.
Key(secret) == [secret |-> secret, texts |-> << >>]

CallerKey == { Key(s) : s \in Secret }

MACed(key, input) ==
  [secret |-> key.secret, texts |-> Append(key.texts, input)]

hmac(key, text) == MACed(key, <<text>>)

(***************************************************************************)
(* hmac2 is HMAC(key, HMAC(key, text1) || HMAC(key, text2)).  Under one key *)
(* the pair of inner HMACs stands for the pair of texts, one for one, and   *)
(* no text of the model is the concatenation of two HMACs: the pair itself  *)
(* is the text.                                                             *)
(***************************************************************************)
hmac2(key, text1, text2) == MACed(key, <<text1, text2>>)

(***************************************************************************)
(* nonce || secretbox(key, nonce, plaintext).  Nonces are fresh: a          *)
(* collision of two random 192-bit strings is left out.  Bytes that no      *)
(* encrypt_key made (too short, garbled) are a record whose key is the key  *)
(* of no chain; decrypt_key fails on them with the same CryptoError.        *)
(***************************************************************************)
encrypt_key(key, plaintext, nonce) ==
  [key |-> key, plaintext |-> plaintext, nonce |-> nonce]

Decrypts(key, data) == data.key = key

decrypt_key(data) == data.plaintext
=============================================================================

------------------------------ MODULE Payload -------------------------------
(***************************************************************************)
(* The consensus payload of a block (block/block_consensus.rs): the tag    *)
(* "PoW", a glue byte, and the fields between further glue bytes.          *)
(*                                                                         *)
(* A field is the number it stands for and the types that parse it: every  *)
(* number of u32 parses as u64 and f64 too, and nothing parses an empty    *)
(* field. That printing a number and parsing it gives the number back is   *)
(* left to the standard library.                                           *)
(***************************************************************************)
EXTENDS Integers, Sequences

Field(n) == [parses |-> {"u32", "u64", "f64"}, n |-> n]

(* A payload shorter than the tag, or with another one: no glue byte after *)
(* the tag, and no fields.                                                 *)
Alien == [tag |-> "other", glue |-> "none", fields |-> <<>>]

Serialize(difficulty, timestamp, nonce) ==
  [tag |-> "PoW", glue |-> ":",
   fields |-> <<Field(difficulty), Field(nonce), Field(timestamp)>>]

(* deserialize succeeds: the byte after the tag is skipped unread, and so  *)
(* is whatever follows the third field.                                    *)
IsReadable(payload) ==
  /\ payload.tag = "PoW" /\ payload.glue # "none"
  /\ Len(payload.fields) >= 3
  /\ "u32" \in payload.fields[1].parses
  /\ "u64" \in payload.fields[2].parses
  /\ "f64" \in payload.fields[3].parses

Deserialize(payload) ==
  [expected_difficulty |-> payload.fields[1].n,
   nonce |-> payload.fields[2].n,
   timestamp |-> payload.fields[3].n]
=============================================================================

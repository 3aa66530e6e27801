------------------------------ MODULE IdlTypes -------------------------------
(***************************************************************************)
(* What the generators and the TypeScript adapter take in: the types of    *)
(* an interface description (IDL), and JSON values.                        *)
(*                                                                         *)
(* A type is the name of a scalar or a record of a kind with its fields,   *)
(* <<name, type>>, or variants.                                            *)
(*                                                                         *)
(* A JSON value is a record: its form, and the number, byte string or word *)
(* in it.  "decimal" is a canonical decimal string, "odd_decimal" one with *)
(* a sign or leading zeros, "odd_hex" a string of hexadecimal digits of    *)
(* uneven length, and "key" a base58 string of any number of bytes.        *)
(***************************************************************************)

\* Types
Scalar(type) == [kind |-> type, fields |-> <<>>, variants |-> <<>>]
Struct(fields) == [kind |-> "struct", fields |-> fields, variants |-> <<>>]
Enum(variants) == [kind |-> "enum", fields |-> <<>>, variants |-> variants]

\* Values
Json(form, n, bytes, word) == [form |-> form, n |-> n, bytes |-> bytes, word |-> word]
Number(n) == Json("number", n, <<>>, "")
Decimal(n) == Json("decimal", n, <<>>, "")
OddDecimal(n) == Json("odd_decimal", n, <<>>, "")
Bool(b) == Json("boolean", IF b THEN 1 ELSE 0, <<>>, "")
Hex(bytes) == Json("hex", 0, bytes, "")
OddHex(bytes) == Json("odd_hex", 0, bytes, "")
Key(bytes) == Json("key", 0, bytes, "")
Word(word) == Json("word", 0, <<>>, word)
=============================================================================

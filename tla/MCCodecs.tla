------------------------------ MODULE MCCodecs ------------------------------
(***************************************************************************)
(* Strings: empty, text, bytes that are not UTF-8, and the prefix of an    *)
(* Any's type URL, which an id inside a nested message is never taken for. *)
(* Ints: the default, a negative (ten bytes as a varint) and one that      *)
(* needs two bytes.                                                        *)
(***************************************************************************)
EXTENDS Codecs

MCStrings == {<<>>, <<"c">>, <<"!">>, <<"P", "c">>}

MCElementIds == {<<"c">>, <<"!">>}

MCInts == {0, -1, 200}
=============================================================================

--------------------------- MODULE MCStringCipher ---------------------------
(* Words of two bytes, keys of up to two bytes (one a prefix of another),   *)
(* strings of one, two and four words; four are the most EncString takes.   *)
EXTENDS StringCipher

MCKeys == {<<75>>, <<75, 76>>}
MCTexts == {<<97>>, <<97, 98, 99>>, <<97, 98, 99, 100, 101, 102, 103, 104>>}
=============================================================================

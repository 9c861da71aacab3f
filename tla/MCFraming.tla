------------------------------ MODULE MCFraming ------------------------------
(* Framing for TLC: a block with a line of data, one of a name only, one   *)
(* with two lines.                                                         *)
EXTENDS Framing

MCLetters == {"a", "b", "authresult", "OK", "wrong"}
MCStream == << <<"a", "CR", "LF", "b">>, <<"b">>,
               <<"a", "CR", "LF", "b", "CR", "LF", "a">> >>
=============================================================================

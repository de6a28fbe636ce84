------------------------------ MODULE MCKeypad ------------------------------
(* A small instance of Keypad for TLC: two rows of keys, the digits 1 to 3,  *)
(* and passcodes shorter and longer than the factory's, one of them empty,   *)
(* one too long and one with a character that is not a digit.               *)
EXTENDS Keypad

MCFactory   == <<1, 1>>
MCArguments == {<<>>, <<2, 2>>, <<1, 2, 1>>, <<1, 1, 1, 1>>, <<1, 10>>}
=============================================================================

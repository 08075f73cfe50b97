-------------------------------- MODULE Words --------------------------------
(***************************************************************************)
(* The words of configuration files and command lines that are numbers.    *)
(***************************************************************************)
EXTENDS Integers

CONSTANT
  Numerals       \* the number each word is that std::from_chars reads to its
                 \* end without overflowing 64 bits

\* What a text of words stands for as a number: nothing where parse_unsigned
\* throws.
parse_unsigned(text) == {Numerals[w] : w \in {v \in DOMAIN Numerals : text = <<v>>}}
==============================================================================

------------------------------ MODULE MCLexer ------------------------------
(***************************************************************************)
(* Every text of up to MaxLength characters: one of each kind that the     *)
(* switch of tokenize tells apart, and the pairs of characters that are    *)
(* one operator. The one keyword is OR, typed as oR.                       *)
(***************************************************************************)
EXTENDS Lexer, TLC

CONSTANT MaxLength

Characters ==
  {" ", "\n", "?", "'", "-", "=", "<", ">", ".", "0", "9", "o", "R"}

MCTexts    == UNION {[1..n -> Characters] : n \in 0..MaxLength}
MCLetters  == {"o", "O", "R"}
MCtoUpper  == [c \in MCLetters |-> IF c = "o" THEN "O" ELSE c]
MCkeywords == <<"O", "R">> :> "OR"
=============================================================================

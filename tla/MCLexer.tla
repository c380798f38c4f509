------------------------------- MODULE MCLexer --------------------------------
(* The texts of the lexer's runs: what each alphabet is about is beside it. *)
EXTENDS Lexer

(* All of token_table's symbols but the brackets, as ASCII codes. *)
SomeSymbols ==
    {<<44>>, <<58>>, <<59>>, <<46>>, <<43>>, <<45>>, <<47>>, <<37>>, <<42>>, <<94>>, <<38>>, <<124>>,
     <<63>>, <<60>>, <<62>>, <<61>>, <<126>>, <<33>>, <<35>>, <<92>>,
     <<45, 62>>, <<61, 62>>, <<43, 43>>, <<45, 45>>, <<38, 38>>, <<124, 124>>, <<61, 61>>, <<33, 61>>,
     <<60, 61>>, <<62, 61>>, <<60, 60>>, <<62, 62>>, <<43, 61>>, <<45, 61>>, <<42, 61>>, <<47, 61>>,
     <<37, 61>>, <<38, 61>>, <<124, 61>>, <<94, 61>>, <<35, 35>>, <<47, 47>>, <<47, 42>>,
     <<60, 60, 61>>, <<62, 62, 61>>, <<46, 46, 46>>}

I == <<105>>

SomeAlphabets ==
    {[begins |-> <<>>, chars |-> {47, 42, 10, 97, 34}, length |-> 6],           \* / * a " and lines
     [begins |-> <<>>, chars |-> {60, 61, 46, 43, 49, 97}, length |-> 5],       \* < = . + 1 a
     [begins |-> <<>>, chars |-> {62, 45, 38, 64, 1, 32}, length |-> 4],        \* > - & @ and a control
     [begins |-> <<48, 120>>, chars |-> {49, 112, 46, 102}, length |-> 8],      \* 0x, then 1 p . f
     [begins |-> <<>>, chars |-> {48, 56, 117, 108, 101, 46, 43}, length |-> 5],  \* 0 8 u l e . +
     [begins |-> <<49>>, chars |-> {49, 46, 101, 102, 45}, length |-> 6],       \* 1, then 1 . e f -
     [begins |-> <<34>>, chars |-> {92, 34, 48, 49, 120, 97}, length |-> 6],    \* ", then \ " 0 1 x a
     [begins |-> <<34, 92>>, chars |-> {49, 55, 120, 34, 110}, length |-> 7],   \* "\, then 1 7 x " n
     [begins |-> <<34, 92, 117>>, chars |-> {48, 56, 34}, length |-> 8],        \* "\u, then 0 8 "
     [begins |-> <<39>>, chars |-> {39, 92, 120, 56, 49}, length |-> 6],        \* ', then ' \ x 8 1
     [begins |-> <<39, 92, 51>>, chars |-> {39, 55, 92, 34, 97}, length |-> 8], \* '\3, then ' 7 \ " a
     [begins |-> <<>>, chars |-> {35, 105, 60, 62, 10, 32}, length |-> 6],      \* # i < > and lines
     [begins |-> <<35, 105>>, chars |-> {60, 62, 34, 105, 97, 10}, length |-> 6]} \* #i, then < > " i a
================================================================================

-------------------------------- MODULE MCIdioms --------------------------------
EXTENDS Idioms

\* A byte is exact, because parity and decimal digits are about its 8 bits.  A word
\* and a dword keep their order, more bits than a byte and room for a pair of them
\* in TLC's integers.
MCBits == [byte |-> 8, word |-> 10, dword |-> 12]

MCSamples == [w \in DOMAIN MCBits |-> LET top == 2^(MCBits[w] - 1) IN {0, 1, 3, top - 1, top, 2 * top - 1}]

\* 00H, 09H, 10H, 49H, 50H, 90H and 99H
MCDigits == {0, 9, 16, 73, 80, 144, 153}

MCTasks == Idiom
================================================================================

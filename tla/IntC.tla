-------------------------------- MODULE IntC --------------------------------
\* The arithmetic of int as the compiler and the processor do it.
EXTENDS Integers

\* An int of -half .. half - 1 wraps.
Word(x, half) == ((x + half) % (2 * half)) - half

\* Division rounds towards 0, and the remainder goes with it.
Quot(x, y) == IF x >= 0 THEN x \div y ELSE -((-x) \div y)
Rem(x, y)  == x - y * Quot(x, y)
=============================================================================

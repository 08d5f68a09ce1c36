---------------------------- MODULE MCFileNames ----------------------------
EXTENDS FileNames

CONSTANTS letter, mp4, zero

L(n) == [i \in 1..n |-> letter]

\* Whole names, with and without zeros behind them; names that are cut; zeros around a name and
\* between two; answers that fill acData, with a name, a cut one or a zero at its end; and
\* longer ones.
MCTexts ==
    {<<mp4>>, <<letter, mp4>>, <<mp4, letter, mp4>>, <<letter, mp4, zero>>,
     <<letter>>, <<mp4, letter>>, L(3), <<letter, zero>>,
     <<zero, mp4, zero>>, <<mp4, zero, mp4>>,
     <<mp4>> \o L(3) \o <<mp4>>, <<mp4>> \o L(4), L(3) \o <<mp4, zero>>, L(4) \o <<mp4, mp4>>,
     L(4) \o <<zero, mp4>>}
=============================================================================

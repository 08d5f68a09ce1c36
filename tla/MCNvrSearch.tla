---------------------------- MODULE MCNvrSearch ----------------------------
EXTENDS NvrSearch

\* Two cameras on an NVR, with the files of one answer each.
MCCams == <<1, 2>>
MCAnswers == [c \in 1..2 |-> 1]
=============================================================================

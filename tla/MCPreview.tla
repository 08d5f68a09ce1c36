----------------------------- MODULE MCPreview -----------------------------
EXTENDS Preview

\* Two carriages of two NVRs, with a camera each.
TwoNvrs == [nvrOf |-> <<1, 2>>, pos |-> <<<<1>>, <<2>>>>, ops |-> 2, events |-> 1, links |-> 2]

\* Two carriages of one NVR; the second has no camera at its first position.
OneNvr(o, e) ==
    [nvrOf |-> <<1, 1>>, pos |-> <<<<1, 2>>, <<2>>>>, ops |-> o, events |-> e, links |-> 1]

\* Of two carriages one is configured.
OneCarriage(o, e) == [nvrOf |-> <<1>>, pos |-> <<<<1>>>>, ops |-> o, events |-> e, links |-> 1]

\* The camera is on the last carriage: polling goes on behind it, and the user comes back.
LastAgain == [nvrOf |-> <<1, 1>>, pos |-> <<<<>>, <<1>>>>, ops |-> 4, events |-> 1, links |-> 1]

MCTrains == {LastAgain, TwoNvrs, OneNvr(1, 2), OneNvr(2, 1), OneCarriage(2, 2), OneCarriage(3, 1)}

\* Of LastAgain, only the live pictures, and no two threads at once; of TwoNvrs, no playback after
\* two threads have met: the other trains have both.
InBound ==
    /\ train = LastAgain => playback = 0 /\ ~overlap
    /\ train = TwoNvrs => playback = 0 \/ ~overlap
=============================================================================

------------------------- MODULE MCVideoAttributes -------------------------
(* Files around every edge of the line, the expression and the columns.    *)
EXTENDS VideoAttributes

Seconds == {0, 5, 59, 60, 3599, 3600, 36610, 86399, 86400, 90603, 100 * 3600,
            123 * 3600 + 59, 1024 * 3600 + 61}

Durations == {s * TimeBase + u : s \in Seconds, u \in {0, 1, TimeBase - 1}}

Starts == {None, 0, TimeBase \div 25, 10 * TimeBase + 7}

Bitrates == {None, 0, 900, 96000, 1205400, 32767999, 32768000, 99999000}

MCFiles == [duration : Durations \cup {None}, start : Starts,
            bitrate : Bitrates, audio : {<<>>, <<0, 1, 44100, 2>>, <<0, 0>>}]
=============================================================================

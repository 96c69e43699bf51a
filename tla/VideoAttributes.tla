-------------------------- MODULE VideoAttributes --------------------------
(***************************************************************************)
(* Where the duration and the bitrate of a row come from: ffmpeg measures  *)
(* the file and prints a line (libavformat/dump.c), a regular expression   *)
(* takes a time and the fourth number after it from what it printed        *)
(* (videoAttributes), and two columns take these (VideoData.sql).          *)
(*                                                                         *)
(* A printed text is reduced to the time of day in it and the numbers      *)
(* (runs of digits) that follow, since the expression tells no more apart. *)
(***************************************************************************)
EXTENDS Integers, Sequences

CONSTANTS
    TimeBase,   \* AV_TIME_BASE, units of time in a second (1000000)
    Files,      \* what ffmpeg may find, a subset of FileType
    SqlModes,   \* what MySQL does with a number too large: "refuse", "clip"
    None

(* duration and start in units of time, bitrate in bits per second, None   *)
(* where ffmpeg could not tell; audio is the numbers of the line of the    *)
(* audio stream ("Stream #0:1: Audio: aac, 44100 Hz"), if there is one.    *)
FileType == [duration : Nat \cup {None}, start : Nat \cup {None},
             bitrate : Nat \cup {None}, audio : Seq(Nat)]

ASSUME AttributesAssumption ==
    /\ TimeBase \in Nat \ {0} /\ TimeBase % 200 = 0
    /\ Files \subseteq FileType
    /\ SqlModes \subseteq {"refuse", "clip"}
    /\ None \notin Nat /\ None \notin [h : Nat, m : Nat, s : Nat]

VARIABLES
    file,  \* what ffmpeg finds in the uploaded file
    line,  \* $attr_output: the time printed, and the numbers after it
    attr,  \* $this->duration, by its parts, and $this->bitrate
    row,   \* the columns, in seconds and in kb/s
    stage

vars == <<file, line, attr, row, stage>>

Init ==
    /\ file \in Files
    /\ line = None /\ attr = None /\ row = None
    /\ stage = "measure"

----------------------------------------------------------------------------
(* ffmpeg: av_dump_format, and the line that grep adds to it.              *)

Power[k \in Nat] == IF k = 0 THEN 1 ELSE 10 * Power[k - 1]

Width(n) ==
    CHOOSE w \in 1 .. n + 1 :
        n < Power[w] /\ (w = 1 \/ Power[w - 1] <= n)
Run(n) == [n |-> n, len |-> Width(n)]

(* Half a hundredth of a second is added to round what is printed.         *)
Rounded(d) == d + TimeBase \div 200

(* Slip: the seconds are cut, the hundredths rounded.                      *)
HMSCut(d) ==
    LET secs == d \div TimeBase
    IN [h |-> secs \div 3600, m |-> (secs \div 60) % 60, s |-> secs % 60]

HMS(d) ==
    LET secs == Rounded(d) \div TimeBase
    IN [h |-> secs \div 3600, m |-> (secs \div 60) % 60, s |-> secs % 60]

Hundredths(d) == (100 * (Rounded(d) % TimeBase)) \div TimeBase

DurationRuns(d) ==
    IF d = None THEN <<>> ELSE <<[n |-> Hundredths(d), len |-> 2]>>

(* "start: " with seconds and six digits, left out when it is not known.   *)
StartRuns(t) ==
    IF t = None THEN <<>>
    ELSE <<Run(t \div TimeBase), [n |-> t % TimeBase, len |-> 6]>>

(* "bitrate: ", N/A when there is none, which has no digit in it.          *)
BitrateRuns(b) == IF b \in {None, 0} THEN <<>> ELSE <<Run(b \div 1000)>>

AudioRuns(f) == [i \in DOMAIN f.audio |-> Run(f.audio[i])]

Measure ==
    /\ stage = "measure"
    /\ line' = [time |-> IF file.duration = None THEN None
                         ELSE HMS(file.duration),
                runs |-> DurationRuns(file.duration) \o StartRuns(file.start)
                         \o BitrateRuns(file.bitrate) \o AudioRuns(file)]
    /\ stage' = "match"
    /\ UNCHANGED <<file, attr, row>>

----------------------------------------------------------------------------
(* preg_match_all of videoAttributes.                                      *)

(* Slip: any two digits are an hour.                                       *)
HourOfTwo(h) == h % 100

(* The hour alternatives are [0-1][0-9], [2][0-3] and [0-9]: of two digits *)
(* above 23, the second is an hour; of three, the last two or the last.    *)
HourKept(h) == IF h % 100 < 24 THEN h % 100 ELSE h % 10

(* The digits of the first i runs.                                         *)
Upto(runs, i) ==
    LET upto[j \in 0 .. Len(runs)] ==
            IF j = 0 THEN 0 ELSE upto[j - 1] + runs[j].len
    IN upto[i]
Total(runs) == Upto(runs, Len(runs))

(* The run that the p-th digit is in.                                      *)
RunAt(runs, p) ==
    CHOOSE i \in DOMAIN runs : Upto(runs, i - 1) < p /\ p <= Upto(runs, i)

(* ".*?\d+" takes the next run, as far as the groups still to come leave   *)
(* it: when there are fewer than four runs, one of them is split.          *)
Taken(runs, p, left) ==
    LET end == Upto(runs, RunAt(runs, p)) IN
    IF end <= Total(runs) - left THEN end ELSE Total(runs) - left

(* Slip: one "\d+.*?" less.                                                *)
Third(runs) ==
    LET p1 == Taken(runs, 1, 2)
        p2 == Taken(runs, p1 + 1, 1)
        i  == RunAt(runs, p2 + 1)
    IN runs[i].n % Power[Upto(runs, i) - p2]

(* The fourth number: the rest of the run that the third has left.         *)
Fourth(runs) ==
    LET p1 == Taken(runs, 1, 3)
        p2 == Taken(runs, p1 + 1, 2)
        p3 == Taken(runs, p2 + 1, 1)
        i  == RunAt(runs, p3 + 1)
    IN runs[i].n % Power[Upto(runs, i) - p3]

(* Slip: the seconds are not optional.                                     *)
MatchesWithSeconds(l) ==
    IF l.time = None \/ Total(l.runs) < 4 THEN {}
    ELSE {[h |-> HourKept(l.time.h), m |-> l.time.m, s |-> l.time.s,
           bitrate |-> Fourth(l.runs)]}

(* The numbers that follow the hour and the minutes alone.                 *)
SecondsToo(l) == <<[n |-> l.time.s, len |-> 2]>> \o l.runs

(* Slip: "??", the seconds are taken only when they are needed.            *)
MatchesLazySeconds(l) ==
    IF l.time = None \/ Total(SecondsToo(l)) < 4 THEN {}
    ELSE {[h |-> HourKept(l.time.h), m |-> l.time.m, s |-> 0,
           bitrate |-> Fourth(SecondsToo(l))]}

(* "(?::[0-5][0-9])?": when fewer than four digits follow the seconds,     *)
(* which four numbers need, the seconds are given up and count among them; *)
(* when there are fewer than four even so, there is no match.              *)
Matches(l) ==
    LET whole == {[h |-> HourKept(l.time.h), m |-> l.time.m, s |-> l.time.s,
                   bitrate |-> Fourth(l.runs)]}
        brief == {[h |-> HourKept(l.time.h), m |-> l.time.m, s |-> 0,
                   bitrate |-> Fourth(SecondsToo(l))]}
    IN  IF l.time = None THEN {}
        ELSE IF Total(l.runs) >= 4 THEN whole
        ELSE IF Total(SecondsToo(l)) >= 4 THEN brief
        ELSE {}

Match ==
    /\ stage = "match"
    /\ \E a \in Matches(line) : attr' = a
    /\ stage' = "insert"
    /\ UNCHANGED <<file, line, row>>

(* Error 11.                                                               *)
MatchFail ==
    /\ stage = "match"
    /\ Matches(line) = {}
    /\ stage' = "refused"
    /\ UNCHANGED <<file, line, attr, row>>

----------------------------------------------------------------------------
(* The columns Duration (TIME) and Bitrate (SMALLINT) of the INSERT.       *)

SmallintMax == 32767

Smallint(n) == IF n <= SmallintMax THEN n ELSE SmallintMax

Insert ==
    /\ stage = "insert"
    /\ attr.bitrate <= SmallintMax \/ "clip" \in SqlModes
    /\ row' = [duration |-> attr.h * 3600 + attr.m * 60 + attr.s,
               bitrate |-> Smallint(attr.bitrate)]
    /\ stage' = "stored"
    /\ UNCHANGED <<file, line, attr>>

(* In strict mode the statement fails, which the script does not notice    *)
(* (the mode is the server's, and not in the repository).                  *)
InsertFail ==
    /\ stage = "insert"
    /\ "refuse" \in SqlModes /\ attr.bitrate > SmallintMax
    /\ stage' = "lost"
    /\ UNCHANGED <<file, line, attr, row>>

Next == Measure \/ Match \/ MatchFail \/ Insert \/ InsertFail

Spec == Init /\ [][Next]_vars

----------------------------------------------------------------------------
(* Properties.                                                             *)

Day == 24 * 3600

(* A row holds a time of a day and a SMALLINT.                             *)
AttributesTypeOK ==
    /\ file \in Files
    /\ stage \in {"measure", "match", "insert", "refused", "stored", "lost"}
    /\ stage = "stored" =>
         row \in [duration : 0 .. Day - 1, bitrate : 0 .. SmallintMax]

(* Enough is printed after the time for four numbers: a start, or two      *)
(* numbers of an audio stream, besides the hundredths.                     *)
Telling(f) == f.start # None \/ Len(f.audio) > 1

(* Of a file shorter than a day, the row has the duration as it was        *)
(* printed, to the second where ffmpeg prints a start or an audio stream   *)
(* of two numbers, and else at least to the minute, the seconds being 0    *)
(* when the expression has given them up.                                  *)
DurationKept ==
    stage = "stored" =>
        LET secs == Rounded(file.duration) \div TimeBase IN
        secs < Day =>
            /\ row.duration \in {secs, secs - (secs % 60)}
            /\ Telling(file) => row.duration = secs

(* Of a file of any length, a day or more included, the minutes of the row *)
(* are right, whatever else is printed, and the seconds are right or 0:    *)
(* right where a start or an audio stream of two numbers is printed.       *)
MinutesKept ==
    stage = "stored" =>
        LET secs == Rounded(file.duration) \div TimeBase IN
        /\ (row.duration \div 60) % 60 = (secs \div 60) % 60
        /\ row.duration % 60 \in {0, secs % 60}
        /\ Telling(file) => row.duration % 60 = secs % 60

(* When ffmpeg can tell the start and the bitrate, the row has the         *)
(* bitrate, or the largest number there is room for.                       *)
BitrateKept ==
    stage = "stored" /\ file.start # None /\ file.bitrate \notin {None, 0} =>
        \/ row.bitrate = file.bitrate \div 1000
        \/ row.bitrate = SmallintMax /\ file.bitrate \div 1000 > SmallintMax

(* A file is refused with error 11 only when ffmpeg cannot tell how long   *)
(* it is, however little else it can tell: the seconds and the hundredths  *)
(* are the four digits that the expression needs at the least.             *)
RefusedUnknown == stage = "refused" => file.duration = None
=============================================================================

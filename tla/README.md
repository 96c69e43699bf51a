# Video Vortex, modelled and verified

Video Vortex is a video site in PHP. A visitor uploads a file; the site measures
it with ffmpeg, makes a thumbnail, stores both in an S3 bucket and adds a row to
the MySQL table `VideoData`. Others browse the table on an index page and play a
video, either straight from the bucket or from an nginx RTMP server that sees the
bucket through an s3fs mount.

This directory holds TLA+ models of the site's own code (`src/src`, `src/config`) and
of the two parts of the vendored `src/lib` whose concurrency the site depends on: the
stat cache of s3fs, through which the RTMP server sees the bucket, and the frame
threads of ffmpeg, which decode every upload. With them are the TLC runs that check
them, and TLAPS proofs of every safety property the runs check.

Contents: [the system](#the-system), [the modules](#the-modules),
[the upload path](#the-upload-path-in-detail), [the readers](#the-readers-in-detail),
[the measures](#duration-and-bitrate-in-detail), [the stat cache](#the-stat-cache-in-detail),
[the frame threads](#the-frame-threads-in-detail),
[the runs](#the-runs), [where code and comments disagree](#where-code-and-comments-disagree),
[the proofs](#the-proofs), [not modelled](#what-is-not-modelled), [the plan](#the-plan).


## The system

There is no daemon of the project's own; nginx and s3fs, which it installs, are
the only processes that stay. Apache starts a PHP process per request,
the process runs one script to its end or is killed, and all state that outlives
it is in `/tmp`, in the bucket, in MySQL, or on the page a browser is showing.
No script locks any of these.

| component | code | state it keeps or touches | operations |
|---|---|---|---|
| Upload path | `VideoUpload.php`, `video_upload.php` | the object's `uuid`, `name`, `ext`; `/tmp/<name>`, `/tmp/<uuid>.jpg`; two objects in the bucket; one row; the output buffer | `videoAttributes`, `localUpload`, `makeThumbnail`, `uploadFile`, `preparedSQL`, `getVID` |
| Upload form | `upload.php` | none | the POST |
| Table | `config/VideoData.sql` | rows, `AUTO_INCREMENT` | INSERT, commit, SELECT |
| Index page | `index.php` | the `More` number on the page a browser shows | show a page of 15, go on, wrap to the first |
| Player page | `VideoPlayer.php`, `player.php` | none; reads one row | look up an ID, choose the source by extension |
| Duration and bitrate | `VideoUpload.php:69-93`, `libavformat/dump.c`, `VideoData.sql` | none; a printed line between them | measure and print, match, insert |
| Stat cache | `s3fs-fuse/src/cache.cpp` | a map from object to attributes, under one lock | `GetStat`, `IsNoObjectCache`, `AddStat`, `AddNoObjectCache`, `ChangeNoTruncateFlag`, `TruncateCache`, `DelStat` |
| File operations of the mount | `s3fs-fuse/src/s3fs.cpp` | open handles | `getattr`, `open`, `flush`, `release`, with `get_object_attribute` |
| Frame threads | `libavcodec/pthread_frame.c`, called from `ffmpeg.c` | a ring of decoding threads, each with a packet, a frame, a codec context, a mutex and three condition variables | init, submit, collect, flush, free |
| Error page | `error.php`, `config/.htaccess` | none | code to message |
| RTMP server | `nginx.conf` (two of them) | none of the project's | `playback`, `vod`, `live`, `secureapp` with `on_play` |
| Live page | `live.php` | none | name the stream of a live key |
| PHP settings | `config/php.ini` | none | `output_buffering`, upload limits, execution time |

How they interact:

    upload.php --POST--> video_upload.php --> VideoUpload --> /tmp, S3, VideoData
                                                                   |      |
                     browser <-- index.php <----- rows ------------|------+
                        |                                          |      |
                        +--> player.php --> VideoPlayer <-- row ---|------+
                        |                        |                 |
                        +-- video source <-------+-- S3 or RTMP <--+
                                                            |
                        nginx playback --> s3fs mount --> stat cache --> S3

VideoUpload calls ffmpeg twice (`exec`): to measure the file and to decode its
first seconds for the picture. The player sends mp4 and flv through the RTMP
application `playback`, whose directory is the s3fs mount, and the rest straight
to the bucket. The bucket is therefore written behind the back of s3fs.

What is hard about it, and what has to hold:

- **Upload path.** Concurrent uploads share `/tmp` under the *user's* file name, so
  two uploads of the same name overwrite and unlink each other's file. `uniqid()`
  is the clock in microseconds, so two processes may draw one uuid. Each of the
  outside calls may fail, and the process may die between any two. Correct means:
  a row never lacks its objects; a row shows its own video except in the ways the
  code is known to mix them up; what a row shows changes only when a uuid was drawn twice;
  an error page that
  says nothing was stored says the truth; the redirect leads to the right row;
  nothing is left in `/tmp` by an upload that reached the database; an upload
  gets through when nothing fails.
- **Table.** IDs are handed out at the INSERT and rows become visible at the commit,
  so rows may appear out of ID order. One ID, one row; one POST, at most one row.
- **Index page.** It remembers only an offset, while the table grows, possibly below
  that offset. Correct means: a visitor who keeps pressing More sees everything
  that was there, and is never led past the end; every thumbnail shown exists.
- **Player page.** A link may be followed long after its index page was fetched.
  Correct means: it leads to a video, and the source named is in the bucket. The
  column `Ext` has three characters, and that is where it can go wrong.
- **Duration and bitrate.** ffmpeg prints a line for people, and a regular expression
  reads it back with four lazy groups, an optional one and a backtracking that may
  split a number. Correct means: of a file shorter than a day the row has the
  duration, to the second where ffmpeg prints a start or two numbers of an audio
  stream, and else at least to the minute; the bitrate is the bitrate and not another number of
  the line; a file is refused only when ffmpeg cannot tell how long it is.
- **Stat cache.** Every lookup is a chain of short sections under one lock with HTTP
  requests between them; entries may be deleted, evicted or replaced by other
  threads between any two, and the bucket changes meanwhile. Correct means: a video
  just uploaded is found; opening it gives fresh attributes; the cache does not
  outgrow its size; pins follow opens and closes; what is evicted is the oldest.
- **Frame threads.** The caller and N workers hand packets, contexts and frames around
  a ring, with state read outside the locks on the ground that a thread is idle.
  Correct means: frames come once and in order; none is lost, except to a
  broken packet or a flush; a drain gives everything; an error is
  not lost; nobody waits for ever.
- **Error page, RTMP server, live page.** Lookups without a state of their own.

`PROJECT.json` lists each of these hazards at its line, with the properties that
are there for it.


## The modules

| module | what it is |
|---|---|
| `VideoUpload` | the upload path, one action per outside call, any number of POSTs at a time |
| `VideoUploadClaims` | what comments, error table and schema say of it where the code does otherwise |
| `Catalog` | abstract: what the upload path promises to the rest of the site |
| `VideoUploadRefinement` | the mapping under which `VideoUpload` implements `Catalog` |
| `IndexPage` | `index.php` on top of `Catalog` |
| `VideoPlayer` | `player.php` on top of `IndexPage` |
| `VideoAttributes` | duration and bitrate, from ffmpeg's measures to the two columns |
| `StatCache` | the stat cache and the file operations that use it, any number of threads |
| `FrameThreads` | ffmpeg's frame threads and their caller |
| `MCVideoUpload`, `MCIndexPage`, `MCVideoPlayer`, `MCVideoAttributes`, `MCStatCache`, `MCFrameThreads` | values for TLC |
| `VideoUploadProofs` | types, stored objects, IDs, what the objects behind a row hold |
| `VideoUploadAnswers` | what the browser is told, what is left in `/tmp`, to whom an upload may be lost |
| `VideoUploadCatalog` | the refinement |
| `IndexPageProofs` | the Catalog's IDs and every property of the index page |
| `VideoPlayerProofs` | every property of the player page |
| `VideoAttributesProofs` | every property of the duration and the bitrate |
| `StatCacheProofs` | types, pins, what lookups and opens answer, the bound, the truncation |
| `FrameThreadsProofs` | every safety property of the frame threads |

`Catalog` is the joint of the project. The readers (`IndexPage`, `VideoPlayer`)
only use the table and the bucket, so they are modelled against `Catalog`, where
an upload is four kinds of step, and not against the thirteen variables of
`VideoUpload`. That `VideoUpload` implements `Catalog` is checked by TLC and proved.

Definitions whose comment starts with "Slip:" are plausible bugs: each stands
before the definition it is a slip of, and nothing in a specification uses it. They
show that a property can fail: with the slip in place of the right definition,
TLC finds the property violated (`mutants` in `PROJECT.json`).


## The upload path in detail

A POST is an element of `Requests`, served by a process of its own, whose place in
the script is `pc[r]`.

| `pc` | action | code | effect |
|---|---|---|---|
| `new` | `Submit` | `upload.php`, `video_upload.php:15` | the form arrives; PHP keeps the file under a temporary name of its own |
| `videoAttributes` | `VideoAttributes`, `...Fail` | `VideoUpload.php:69-93` | ffmpeg finds a duration, or error 11; description and title are echoed; the uuid is drawn |
| `localUpload` | `LocalUpload`, `...Fail` | `:96-106` | rename to `/tmp/<name>`, over whatever is there, or error 21 |
| `makeThumbnail` | `MakeThumbnail`, `...Fail` | `:109-117` | a frame of whatever `/tmp/<name>` is *now*, or error 11 |
| `putVideo` | `PutVideo`, `...Fail` | `:120-132` | `<uuid>.<ext>` in the bucket, or an uncaught exception (page 500) |
| `putThumb` | `PutThumb`, `...Fail` | `:134-143` | `<uuid>.jpg` in the bucket, or page 500 |
| `unlink` | `Unlink` | `:145-146` | both local files go, whoever they are of |
| `connect` | `PreparedSQL`, `...Fail` | `:150-156` | the name is echoed; connected, or error 41 |
| `insert` | `Insert`, `InsertFail` | `:157-160` | the ID is allocated; a rejected INSERT is not noticed |
| `commit` | `Commit`, `InsertFail` | `:158-162` | the row becomes visible (autocommit), or the INSERT fails after all and its ID stays unused |
| `getVID` | `GetVID`, `...Fail` | `:177-197`, `video_upload.php:18-27` | the row of this uuid and the redirect; no row is error 41 |
| any | `Kill` | `php.ini:385`, `:406` | the process dies |

What is abstracted, and how:

- A *file* is the POST it came with. `/tmp/<name>` holds a POST (whose file it is),
  an object holds `[kind, of]`: the video of a POST, a frame of it, or the empty
  picture that ffmpeg leaves, with success, when nothing comes after second 5.
- A *form* is a record: file name, does it fit the upload limit, can ffmpeg tell its
  duration, what picture it yields, how many bytes `verifyInput` will echo.
- The *output buffer*: `verifyInput` echoes what it returns (`VideoUpload.php:64`).
  Once 4096 bytes are out (`php.ini:244`), the buffer is flushed and a `header()`
  after that has no effect: the browser gets the page `echo`. `display_errors` is
  off, so that warnings add nothing to it.
- The *row* is its ID, uuid and extension, and the POST that its measured and typed
  columns (duration, bitrate, name, title, description) are of. `Char3` is what
  `CHAR(3)` keeps of an extension.
- The *clock* is an integer that ticks on its own; `uniqid()` returns it. Two
  processes in one tick draw one uuid, which PHP's `uniqid()` without its prefix or
  entropy argument allows between processes.
- MySQL's SELECT without ORDER BY is served in primary-key order (InnoDB).
- When an outside call fails after it has taken effect (an S3 answer lost), both
  outcomes are possible: `PutVideoFail` and `PutThumbFail` may leave the object.
- An INSERT in flight when the process is killed does not commit in the model; the
  row that would commit anyway is the behaviour "commit, then kill".

`clashed` is a history variable: the POSTs whose span on `/tmp/<name>`, from the
rename to the unlink, overlapped another's of the same name. It lets the
properties name that way of going wrong, and exclude nothing else.

The properties:

| property | says |
|---|---|
| `RowsBacked` | every row has both its objects |
| `StoredFaithfully` | they are of its own POST, unless a name or a uuid was shared, or the file is a `.jpg` (its two keys are then one) |
| `ReplacedOnlyByTwin` | what a row shows is replaced only by another POST that drew the same uuid, and only by its puts |
| `ErrorsStoreNothing` | errors 11 and 21 leave no row, no ID, no object |
| `RedirectedToOwn` | the redirect leads to the POST's row, or, where another POST drew the same uuid, to a row of that uuid |
| `OneRowPerPost` | one POST, one row; one row, one ID |
| `CopiesRemoved` | who reached the database left nothing of its own in `/tmp`: neither its video nor, unless another POST drew the same uuid, the picture under it |
| `LostOnlyToNamesake` | without outside failures, an upload is lost only to one of the same name that did get through, or to one that is not a picture at all |
| `SoundUploadListed` | without outside failures, a sound upload that shares nothing is listed in the end |
| `ImplementsCatalog` | all of it is the `Catalog` |

*Fairness* is assumed for `SoundUploadListed` alone: weak fairness of each `Script(r)`.
PHP keeps running a script it has started, and each call in it returns with a
result or an error: `exec` waits for ffmpeg, mysqli and the SDK have timeouts. It is
not assumed that a form is ever posted, that the clock ticks, or of any single call
that it succeeds; and a script is not bound to be killed.


## The readers in detail

`Catalog` has `nextId`, `pending` (IDs allocated, not committed), `rows` and
`objects` (keys that hold something). `Store`, `Reserve`, `Publish` and `Abandon` are
an S3 put, the allocation of an ID, a commit, and a failed INSERT or the death of its process. The
refinement maps `pending` to the `rowId` of the scripts at `commit`, `rows` to the
IDs, uuids and extensions (as cut, and uncut) of the table's rows and `objects` to the keys that hold something.

`IndexPage` has for each visitor the number on the `More` button and the rows of the
page on the screen. `Open`, `More` and `Bookmark` are the requests `/`, the button,
and `?More=s` for any `s`; `ConnectFail` and `QueryFail` are the two failures
(`index.php:27` stops without a button; a failed query only warns, and the page has a
button but no videos). `PageFrom(s)` is `LIMIT s,15`: rows by rank. `due` and `seen`
are history: what was there when the walk began, and what it has shown.
`WalkComplete` compares them when the button leads back to the first row. There is one exception:
a query that fails in the middle of a walk shows an empty page, whose button leads back
to the first row all the same. What comes after `QueryFail` is a walk of its own (it resets `due` and `seen`), so
the property says nothing of the walk it breaks off.
`MoreWithinTable` and `ThumbnailsStored` hold of pages of any age.

`VideoPlayer` adds what the player page shows. `Click` follows a link of the index
page at hand, `Ask` asks for any ID, numeric or not, `StartFail` has the failures. `Source` is
the switch of `buildPlayer`: mp4 and flv from the RTMP application `playback`, mkv,
avi, mov and ogg from the bucket, anything else is error 61. `LinksLead` says that a
link never ends in "Unknown Video ID"; `SourceStored`, that the object named is in
the bucket, unless the row played is one whose own extension was cut by `Char3`; then the
video is there under the extension the file had. For that a row of `Catalog` has the uncut
extension, `full`, beside the column `Ext`, and the screen remembers with `cut` whether the two
differ. Both are history: no script reads them.


## Duration and bitrate in detail

`VideoAttributes` takes one file through three steps. `Measure` is `av_dump_format`
(`dump.c:496-525`): half a hundredth of a second is added, and hours, minutes, seconds
and hundredths are printed, then the start and the bitrate where they are known, then
the line of the audio stream. The text is reduced to what the expression can tell
apart: the time of day, and the *runs* of digits after it, each with its value and its
length. `Match` is the expression of `VideoUpload.php:77` with its backtracking:
`HourKept` what the three alternatives for an hour keep of a longer one, `Fourth` the
fourth number, where a run is split when there are too few, `Matches` the optional
seconds, which are given up when that is what it takes. `Insert` is the two columns,
`TIME` and `SMALLINT`; MySQL refuses or clips a bitrate above 32767, by its mode, which
is not in the repository.

`Rounded` carries up to the next second, minute, hour and day. `Telling` are the files of which enough
is printed after the time for four numbers, besides the hundredths: a start, or two numbers of an
audio stream. `DurationKept` says that the row of a file shorter than a day has its duration to the second
if the file is telling, and otherwise at least to the minute: the expression may have given the
seconds up, which MySQL takes for 0. `MinutesKept` is what is left of it for files of a day
and more; `BitrateKept` is the promise for the bitrate of files whose start is known. `RefusedUnknown` says
that a file is refused only when ffmpeg cannot tell how long it is. It needs the backtracking into the
optional seconds: the least ffmpeg prints is a time and two hundredths, and the expression asks for four digits
more than an hour and minutes. `Matches` counts the digits there are with the seconds and without (`SecondsToo`).
`AV_TIME_BASE` is scaled from 1,000,000 to 200, the smallest base of which half a
hundredth is one unit, so that durations at a unit before, at and after a second fit
TLC's integers. Metadata is left out: grep lets a
line of it through only if it has "Duration" or "Audio" in it, and a time of day or numbers
there would be taken for the measures.


## The stat cache in detail

A request is a record of its thread's place (`pc`), its key, whether it pins
(`add_no_truncate_cache`), and the version the HEAD found. A version counts the puts
of a key; 0 means that there is no object. What is one section under
`stat_cache_lock` in the code is one action, and between two sections other
threads and the bucket may do anything.

| `pc` | action | code | effect |
|---|---|---|---|
| `clear` | `Clear` | `s3fs.cpp:2060` | open deletes the entry |
| `get` | `GetStat` | `cache.cpp:217-297` | hit: its date is renewed; stale: deleted in a section of its own (`drop`); miss |
| `change` | `Change` | `s3fs.cpp:430-433`, `cache.cpp:465-484` | a hit with the pin flag counts up, without it counts down |
| `noobj` | `IsNoObjectCache` | `cache.cpp:299-339` | with the option, a hit answers "no such object" |
| `head` | `HeadRequest`, `HeadFail` | `s3fs.cpp:439-504` | the version in S3, or an error, which is treated as 404 is |
| `look` | `Look` | `cache.cpp:348-363`, `:423-437` | an old entry is deleted; else the size is compared |
| `evict` | `TruncateCache` | `cache.cpp:486-548` | see below |
| `add` | `Add` | `cache.cpp:394-409` | the entry, pinned once or not |
| `reget` | `GetAdded` | `s3fs.cpp:520-541` | what is in the cache *now*, or else the headers |
| `fd`, `undo` | `OpenFd`, `OpenFdFail`, `Undo` | `s3fs.cpp:2049-2107` | a handle, or the entry is deleted |
| `release` | `Release` | `s3fs.cpp:2228-2266` | a pin and a handle less |

`open` looks the object up twice, first as any lookup does (`check_object_access`), then
to pin it. `TruncateCache` is written as the code is: its first step erases those of
the entries over their time that *are* pinned; its third goes through the map in order
(`Selections`, with `Consider` for one entry), counting down for a pinned entry (`Left`)
and listing it all the same, and drops the youngest from a list that has become longer
than the count.

Abstracted or left out: `hit_count`, which breaks ties between dates (any of the
youngest may be dropped); the etag test, which no caller asks for; directory keys,
because the scripts fill the bucket with flat names; the kernel's own attribute cache;
writing, renaming and listing, which the site does not do through the mount; `Clear`
at unmounting; entries that say "no object" while that option is off, which cannot
come about. The date of an entry is the clock at its insertion. `start`, `alone` and `failed` of a request are
history for the properties; `first` is what the first lookup of an open answered, whose size the file is opened
with (`s3fs.cpp:2067`, `:2089`), and `ans` what the last one did.

| property | says |
|---|---|
| `PublishedFound` | with the site's options, what was in the bucket when the request began is not reported missing, unless S3 failed to answer |
| `OpenFresh` | open gives attributes as of its call or newer, those it opens the file with and those it pins, unless another request was then about to enter older ones or a HEAD failed |
| `CacheBounded` | the cache outgrows its size by less than two entries per thread, whatever is pinned |
| `PinsBounded` | a pin is of an open file or of an open in progress |
| `EvictsOldest` | without pins and expiry, exactly enough of the oldest go |

The proviso of `OpenFresh` is a real one: `s3fs.cpp:2057-2059` clears the entry in order to
get "always stat when s3fs open", and a thread that has older headers in its hands
adds them after that.

`CacheBounded` cannot be tightened to one entry per thread. With a size of 1 and two
threads, two opens pin their entries, and four lookups more leave four entries. The
pins use up the count of step 3, so that a truncation erases one entry where two
or three would have to go; and that entry may be the one that another thread found when it
looked (`look`, `drop`), and enters again after the truncation. What saves the bound
is that a truncation still erases at least half of what is over the size.


## The frame threads in detail

The calling thread is `main`, whose `pc` is where it is in `ff_thread_decode_frame`
or in one of the functions that create, flush and free, and whose `plan` is why ffmpeg
calls: to feed a packet, to drain the codec at the end of the file, or to give it one
empty packet before a seek or before closing (`process_input_packet`). A worker `t` is
`th[t]`: its `pc` in `frame_worker_thread`, `state` as in the code, packet, context,
frame, result.

Mutexes are not variables. A worker holds its own except while it sleeps, and the
caller holds the one of the thread it submits to, so `WorkerHolds` and `MainHolds` read
them off the places. Condition variables are modelled as what they are: a waiter sleeps
at a `pc` of its own (`wait`, `starved`, `prevAsleep`, `collectAsleep`, `parkAsleep`) until
a signal moves it on, and then looks at its condition again. A signal given too
early, or on another variable, is lost, and the waiter stays. `Spurious` wakeups happen. A new worker
starts at `woken`, with its mutex still to take, so that the caller may submit to it first.

A codec is four facts: whether it takes empty packets (`cap`), whether its context is
handed on (`shared`), how many frames it reorders (`delay`), and FFV1's exception
(`early`). What `codec->decode` does is what the threads see of it: the context and the
frame are settled before `ff_thread_finish_setup` (`SetupPacket`), the pixels after it
(`Decode`), which may have to wait for the progress of the frame referred to; a broken
packet may be met in either part. Putting out a frame held back may fail too, for a packet and for an
empty one (`OutputFail`); the frame is then dropped. A frame is the number of its packet, and the frame put out
is the oldest held. The HEVC decoder puts out the lowest picture order count (`hevc_refs.c:187-196`), so
the frames of the model are numbered in the order they are shown, among those held back together; a stream whose
B frames are decoded in another order than shown is not modelled, and `ReturnedInOrder` says
that the threads keep the order in which the codec puts frames out.

Left out: the callbacks for buffers, because ffmpeg sets `thread_safe_callbacks`
(`ffmpeg.c:2536`), and slice threads, which are another file.

| property | says |
|---|---|
| `ReturnedInOrder` | frames come in order and once |
| `FramesConserved` | a frame decoded is in exactly one place: returned, waiting, held back, or lost to an error or a flush |
| `SubmitsToIdle` | the thread whose context is written without its lock is idle, and its frame was taken |
| `DrainComplete` | when a drain says that was all, no thread works or has a frame, and the codec holds none back, unless memory ran out in the last call or in the thread of its empty packet |
| `ErrorKeptNoDelay` | without a delay, a broken packet is reported by some call |
| `NoSignalMissed` | whoever sleeps, sleeps on a condition that still does not hold |
| `SomeoneCanRun` | until the decoder is freed, the caller or some worker has a step to take |
| `Closes` | every call returns and closing ends |

*Fairness* is assumed for `Closes`: weak fairness of the caller and of each worker,
which is the operating system's scheduler running what can run. A sleeping thread has
no enabled step, so that nothing is assumed about signals; none is assumed of
`Spurious`. Feeding is bounded by the packets of the file, so that the caller's
fairness means that ffmpeg reads the file to its end.


## The runs

Passing runs, all of them with the whole state space explored:

| run | instance | states | shows |
|---|---|---|---|
| `upload_all` | 2 POSTs, 3 names, every kind of form, every fault | 255,480 | all upload properties but `LostOnlyToNamesake` and `SoundUploadListed` |
| `upload_three` | 3 POSTs, 2 names, one picture-less form, no faults | 413,287 | `LostOnlyToNamesake`, `StoredFaithfully` |
| `upload_fair` | 2 POSTs, every kind of form, no faults, fair | 64,717 | `SoundUploadListed` |
| `index_walk` | 1 visitor, pages of 2, 5 IDs, 2 keys | 43,536 | the index properties and `IdsOnce` |
| `player_links` | 1 visitor, pages of 1, 2 IDs, 5 extensions | 28,000 | the player properties |
| `attributes` | 3,840 files at the edges of the line, the expression and the columns | 16,044 | the duration and bitrate properties |
| `stat_cache` | 2 threads, 5 objects, 6 mounts, two puts, a tick, failing HEADs and opens | 3,034,262 | the stat cache properties |
| `frame_threads` | 3 threads, 4 packets, 4 codecs, a seek back, one fault, fair | 720,455 | the frame thread properties |

*Bounds.* `MaxClock = 1`: two uuids are enough for "same" and "different" among two
POSTs, and for "two share one, the third does not" among three. `Requests`: every
hazard of the upload path needs two processes at most; the third of `upload_three`
is there because a name may be fought over by two while a third takes the file away.
`OutputBuffering = 4` with texts of 1, 3 and 4 bytes: the buffer fills before the
name is echoed, at it, or not at all. `MCFiles` has an extension that stays (mp4), one
that is cut (movie, to mov) and jpg. `MaxRow = 5` with pages of two: two full pages and
a started one, a table of exactly two pages, and a row that commits below two offsets
already passed; every page size and position relative to the end occurs. `MaxRow`
bounds the number of IDs, not of steps. One visitor is enough: visitors do not
write anything that another visitor or an upload reads. POSTs are symmetric, and
`SYMMETRY` is used in the two safety runs (not in the fair one), as it is for the threads of
`stat_cache`. Frame threads are not symmetric: the ring orders them.

In `MCVideoAttributes`: durations around every carry of a minute, an hour and a day, hours of one to
four digits, bitrates around 32767, and audio lines with none, too few and enough numbers.
`MCStatCache`: a size of 1 lets two threads find room for one (`Small`); a size of 2 with
four lookups makes the truncation choose (`Larger`); five lookups of five objects would
show a cache that stops being cut (`Crowded`); `Pinning` has two open files; `Expiring`
and `Forgetful` have expiry, the latter remembered absences too. Entries of `Crowded` and
`Pinning` never expire within one tick. What a truncation does among several pinned
entries is beyond these bounds; there `CacheBounded` rests on its proof. `MaxBegun` bounds the requests under each mount, so that each mount has
the mix of requests it is there for. Two puts (`MaxVersion = 2`) let an open meet attributes that are older and
not just absent, under every mount; one tick suffices for entries of two dates.
`claim_pinned_kept` has a mount of its own (`ClaimOptions`): one open and two lookups.
`frame_threads`: three threads give a ring in which the next, the previous and another
thread are distinct, four packets go round it once and start again, and a seek starts it anew; one
fault at any point.

*Deadlock* is not checked: a finite set of POSTs ends, each with its page, and then
only the clock is left. A decoder that is freed has ended, and that it does not stop before
is `Closes`; a measured file ends in its row; the stat cache stops when its bounds are
used up.


## Where code and comments disagree

Four runs expect a violation; each checks one sentence of the repository.

| run | the sentence | what happens |
|---|---|---|
| `claim_own_video` | `VideoUpload.php:9`, the class takes a video file and uploads *the* video | two uploads of one name: the second rename replaces the first file before it is stored, and the first row shows the second video |
| `claim_id_returned` | `video_upload.php:9`, "returns Video ID for player.php" | the echo in `verifyInput` fills the output buffer, and the redirect is lost |
| `claim_pinned_kept` | `s3fs.cpp:515-516`, the stats of an open file are "only removed by DelStat()"; `cache.cpp:522`, "skip for no truncate entry" | the truncation lists a pinned entry with the others and erases it when it is the oldest; of entries over their time it erases the pinned ones and no others |
| `claim_error_kept` | `pthread_frame.c:460-463`, an error met while flushing is returned, "Otherwise the error can get lost" | the empty packet of a drain is itself given to the thread that had the error to report, and its result replaces it; or a frame is found after the error |

Disagreements that one line shows and no run is needed for: `VideoUpload.php:154`
answers a failed connection with 41, "Unknown Video ID", where `error.php:17` has 31 for it;
`video_upload.php:26` redirects to `http://http://`; the row gets what `char(3)` keeps of the
extension ("movie" becomes "mov"), and the player then names another object, which is
why `SourceStored` has a proviso; `config/nginx.conf` has no application `playback`, which the player names,
though `README.md:42` asks for a configuration that matches the example.

Seen on the way, without a run of their own: a video over the limit is answered with
error 11 (ffmpeg finds no file), while "please confirm file size is under 400 mb" is the
text of 21 and `php.ini:805` sets 2M; a script that dies in `putObject`
leaves both copies in `/tmp` (the comment at `VideoUpload.php:119` has them deleted);
the comment at `:68` calls `uniqid()` a unique id; the null test at `:189` comes after
the use of the value it tests. `AddNoObjectCache` remembers an object as absent after *any*
failing HEAD (`s3fs.cpp`, with `enable_noobj_cache`, which the site does not use).
`max_stat_cache_size` is the "maximum number of entries in the stat cache" by
`doc/man/s3fs.1:137-138`; `AddStat` compares with `>` before it adds (`cache.cpp:351`), so that even
one thread alone leaves one entry more.
`seek_to_start` (`ffmpeg.c:3700-3704`) gives one empty packet before it flushes, and the frames
still in flight are dropped (`-stream_loop`, which the site does not use either).


## The proofs

TLC sees two or three POSTs, one visitor, two or three threads; TLAPS proves the following for
every number of them, of files, extensions, page sizes, objects, mount options, versions,
ticks, packets, seeks and digits, and every set of faults.

| theorem | module | property |
|---|---|---|
| `TypeCorrect` | `VideoUploadProofs` | `TypeOK` |
| `EveryRowBacked` | `VideoUploadProofs` | `RowsBacked` |
| `NoSecondRow` | `VideoUploadProofs` | `OneRowPerPost` |
| `OnlyTwinsReplace` | `VideoUploadProofs` | `ReplacedOnlyByTwin` |
| `RowsShowTheirOwn` | `VideoUploadProofs` | `StoredFaithfully` |
| `RedirectIsRight` | `VideoUploadAnswers` | `RedirectedToOwn` |
| `NoCopyLeft` | `VideoUploadAnswers` | `CopiesRemoved` |
| `RefusedMeansNothing` | `VideoUploadAnswers` | `ErrorsStoreNothing` |
| `NamesakesDoNotAllLose` | `VideoUploadAnswers` | `LostOnlyToNamesake` |
| `UploadImplementsCatalog` | `VideoUploadCatalog` | `ImplementsCatalog` |
| `IndexTypeCorrect` | `IndexPageProofs` | `IndexTypeOK` |
| `IdsHandedOutOnce` | `IndexPageProofs` | `IdsOnce` |
| `WalkShowsAll` | `IndexPageProofs` | `WalkComplete` |
| `MoreStaysInside` | `IndexPageProofs` | `MoreWithinTable` |
| `ThumbnailsThere` | `IndexPageProofs` | `ThumbnailsStored` |
| `PlayerTypeCorrect` | `VideoPlayerProofs` | `PlayerTypeOK` |
| `LinksAlwaysLead` | `VideoPlayerProofs` | `LinksLead` |
| `SourceThere` | `VideoPlayerProofs` | `SourceStored` |
| `AttributesTyped` | `VideoAttributesProofs` | `AttributesTypeOK` |
| `DurationIsKept` | `VideoAttributesProofs` | `DurationKept` |
| `MinutesAreKept` | `VideoAttributesProofs` | `MinutesKept` |
| `BitrateIsKept` | `VideoAttributesProofs` | `BitrateKept` |
| `RefusedOnlyUnknown` | `VideoAttributesProofs` | `RefusedUnknown` |
| `CacheTypeCorrect` | `StatCacheProofs` | `TypeOK` |
| `PinsAreOfOpens` | `StatCacheProofs` | `PinsBounded` |
| `PublishedAreFound` | `StatCacheProofs` | `PublishedFound` |
| `OpensAreFresh` | `StatCacheProofs` | `OpenFresh` |
| `CacheStaysBounded` | `StatCacheProofs` | `CacheBounded` |
| `TruncationIsLru` | `StatCacheProofs` | `EvictsOldest` |
| `FrameThreadsTyped` | `FrameThreadsProofs` | `TypeOK` |
| `PacketsGoToIdle` | `FrameThreadsProofs` | `SubmitsToIdle` |
| `SignalsReach` | `FrameThreadsProofs` | `NoSignalMissed` |
| `NobodyIsStuck` | `FrameThreadsProofs` | `SomeoneCanRun` |
| `FramesInOrder` | `FrameThreadsProofs` | `ReturnedInOrder` |
| `NoFrameVanishes` | `FrameThreadsProofs` | `FramesConserved` |
| `DrainEmpties` | `FrameThreadsProofs` | `DrainComplete` |
| `ErrorsReach` | `FrameThreadsProofs` | `ErrorKeptNoDelay` |

The index and player theorems are about every behaviour of `Catalog`, and by
`UploadImplementsCatalog` the upload path is one: the readers' guarantees hold on
top of it.

*Assumptions.* `ConstantsAssumption`: "jpg" is an extension, `ExtOf` and `Char3` are
functions on and into the extensions, forms are of `SubmissionType`, the bounds are
numbers, the faults are known ones. `NoneAssumption`: "nothing there" is no POST,
uuid, form or object. `CatalogAssumption`: `Char3` maps extensions to extensions. `PlayerAssumption`:
what is not a number is not one. `CacheAssumption`: the constants have their types, and the threads
of FUSE are finitely many, since pins and entries are counted against them. `FrameAssumption`: there are two threads at least,
or there would be none (`init_thread` makes them from two on), the bounds are numbers, and a codec that
reorders takes empty packets and hands its context on. `AttributesAssumption`: files have measures that are
natural numbers or missing, half a hundredth of a second is a whole number of units, and what is missing is
neither a number nor a time. Files, packets and their numbers are otherwise unbounded.

*The upload path.* None of the properties is inductive alone. The base is `Published`:

- `Typed`: the types, and that a script in one of its stages has its form and its uuid
  (`StageOK`), without which a key is not a key;
- `Backed`: from its first put on, a script's video is in the bucket (`VideoPut`), from the
  second on its picture (`ThumbPut`); names once drawn are kept (`NamesKept`) and nothing
  is ever deleted from the bucket (`BucketGrows`). That both puts come before the
  INSERT then gives `RowsBacked`;
- `Numbered`: `nextId` is ahead of every ID, IDs are distinct, only a script past its INSERT
  has one, and a row is the row of the script it names.

On it rest:

- `ReplacedOnlyByTwin`: an object changes only by a put of a POST that drew its uuid
  (`ObjectByPut`), and a POST with a row is past its puts, so it is another's;
- `StoredFaithfully`: as long as a POST is unmixed (its uuid its own, never clashed), it is
  the only one of its name in the holding span, so `/tmp/<name>` is its own file
  there; so the picture is its own; so are the two objects when they are put, and
  after that only the POST itself could write its keys. A `.jpg` is excluded from
  the claim about the video because its second put replaces the first;
- `RedirectedToOwn`: from the answer of `GetVID`, since rows stay;
- `CopiesRemoved`: a file in `/tmp` belongs to a script in the holding span or to one that
  ended there, whose answer is 11, 500 or the echo. A picture there is under a uuid that a
  POST drew (`ThumbsDrawn`), and it is that POST's as long as no other drew it (`Pictures`);
- `ErrorsStoreNothing`: a refused POST was refused before its first put, and nobody else puts
  under its uuid; that needs the uuids still to be drawn counted in (`Drawn`);
- the refinement: each action is matched with a step of `Catalog` (the puts with
  `Store`, `Insert` with `Reserve`, `Commit` with `Publish`, `Kill` or `InsertFail` at
  `commit` with `Abandon`) or with a stutter; `Publish` needs `Backed`, and that the ID leaves
  `pending` needs `Numbered`.

- `LostOnlyToNamesake`: whoever takes `/tmp/<name>` away is past its own puts and, as
  nothing fails outside, its row follows. So while a script holds the name, the file is there
  or a namesake that will get through has taken it (`HeldOrRescued`); what it lacks when it
  ends is then explained by that namesake (`LostRescued`).

*The readers.* `WalkComplete` rests on ranks. A row's rank is the number of rows with a smaller
ID; ranks only grow, since rows stay, and the rank is a bijection from rows to `0 .. n - 1`
(`RanksFill`, by finite cardinality), so a page holds exactly the rows of its ranks and is
short only at the end of the table. The invariant is that a due row not yet seen has a rank at or above the number on
the button; when the button leads back to 0 the page was short, and nothing is above it.
`LinksLead` and `SourceStored` need that pages show rows, rows stay, and rows have their objects; and that
what the screen remembers of a row (`cut`) is of the row whose source it names (`StoredAs`).

*The stat cache.* Four invariants, the others on top of the first:

- `Inv`: types, and what a request carries at each place (`RequestOK`), for instance that a
  request at `change` has found a version;
- `PinInv`: a key has at least as many handles as closes in progress, and its pins are at most
  its handles and the opens that have pinned. It is by counting: each section
  moves one thread, so that the finite sets counted change by that thread at most
  (`CountsStep`). Opens that cleared or evicted an entry only lower its pins;
- `FreshInv`, for each open alone when it began and not failed since: every version on its
  way into the entry, in the entry once it was cleared, found, answered by the first lookup, or about to
  be answered is at least the version at the call. The bucket only grows, so whoever asks S3 later finds no less;
- `RoomInv`: the keys in the cache *and* those of the threads that are to add (`Claimed`) are
  fewer than the size and twice the threads. Counting the threads in is what makes it
  inductive: only two steps claim a key, a look that saw room, when there are at most
  the size and one for each thread, and a truncation, after which `SelectedHalf` says the same.

What a truncation selects is a fold over the map, and `Selections` is a recursive function. That
such a function exists is `RunExists`, by induction on the map; induction is `Climb`, which
is about a set of numbers and not about an operator, and so within reach of the provers
(the least number outside the set, by `WFMin`). With it `Halving` and `Ageing` are shown to hold
after every entry of the map: `SelectedHalf`, that at least half of what is over the size goes
in spite of the pins, and `SelectedOldest`, that without pins just enough of the oldest do.

`PublishedFound` needs `Inv` and that versions never go down: a request answers
what an entry or a HEAD gave it, and without `noobj` no entry is of version 0.

*Duration and bitrate.* The invariant says little that is not in the code: the line is what `Measure`
prints of the file, and the attribute is one the expression takes from it. The work is in what
the expression takes (`MatchesAre`), for runs of any number and width. `Power`, and `Upto`, the digits of the first
runs, are recursive functions; that they exist and grow is by `Climb` again (`PowerIs`, `UptoIs`,
`UptoGrows`). A digit is in one run and no other (`RunAtIs`, `RunAtOnly`). `TakenIs`: a
number of the expression ends with its run, or, where too few digits are left for the groups
after it, before those. With four runs this gives the ends of the first three numbers one by one, and the
fourth number is the fourth run (`FourthOfFour`), none of whose digits is lost since a number is less than the power of its
width (`WidthIs`). `BitrateKept` is that with what is printed: the hundredths, two numbers for the start,
the bitrate (`RunsAre`). `FourDigits` is why nothing else makes the expression fail: with a start or two audio numbers there are
three runs, the first of two digits; and without them the seconds that are given up add two digits more.
`DurationKept` then needs division only: the parts of a time add up to its seconds, and the hour alternatives
keep an hour below 24; where `FourDigits` does not apply, the seconds are either the printed ones or 0.
`RefusedUnknown` adds the two digits of the seconds to the two of the hundredths.

*The frame threads.* Each action is first boiled down to what it changes (`...Does`), so that the invariants need only
three kinds of step: of a worker (`WorkerDoes`), of a call (`CallDoes`), of creation, flush and freeing
(`ManageDoes`). The base is `RingInv`:

- `WorkersOK`: a thread's place determines its state; only the thread of the last packet
  (`prev_thread`) sets up, and it has no frame meanwhile;
- `CallerOK`: who was not created yet or was parked is quiet;
- `RingOK`: counted round the ring (`Dist`), the threads from `next_finished` on that may have work or a frame
  are `Span` many, up to `next_decoding`; during a drain those already `Passed` have none. While the delay is
  being filled `next_finished` stands still. `SubmitsToIdle` asks about one thread only, `next_decoding`; that it is outside of the
  span depends on every move of either end, and so on all of `RingOK`.

On it rest:

- `Asleep`: a sleeper's condition does not hold, and no signal for it is behind. Each worker step that changes
  a state, reports a frame or exits is shown to tell those who wait (`StateTold`): that is `NoSignalMissed`;
- `InOrder` and `Chain`: packets are set up in the order they came, so that the frame a thread refers to is older than its own, and is
  reported already or in another thread's hands. Among the starved workers take the one with the oldest frame: whom it waits for is not starved, and not
  asleep. With `Asleep` for the caller this is `SomeoneCanRun`, the absence of deadlock; it is a safety
  property, and so provable where `Closes` is not;
- `Flow`: all frames stand in one line: returned, then those in the threads, in the order of the ring (`Row`),
  then those the codec holds back. `Line` also says that they are apart and with the lost ones make up all that was decoded,
  so that one lemma for each way a frame moves (put out, taken, lost while held back, dropped, flushed) serves
  both `ReturnedInOrder` and, by finite cardinality, `FramesConserved`. `ReturnedInOrder` alone says
  nothing of frames still in threads, which are the ones returned next;
- `Drained`: during a drain the thread with the empty packet keeps it until the call returns
  (`LastEmpty`), and when that thread is done without a frame, the codec holds nothing or the thread failed; the call
  looked at every other thread before;
- `Errors`, for codecs without a delay: a thread that failed is inside the span when packets come, and so will be asked
  before it is given another (`FailKept`); of those a drain has passed, an error is in the
  caller's hands (`PassedKept`). Without a delay no empty packet is handed to a thread, which is how `claim_error_kept`
  loses an error.

*Model-checked only.* `SoundUploadListed` and `Closes` are liveness under fairness, out of this
prover's reach. The claims are checked to fail, and so have nothing to prove.


## What is not modelled

- HTML, CSS, page frames, `showAll`: no state, only output.
- The rest of `src/lib`: the AWS SDK, bootstrap and video.js, modelled by how the scripts use them;
  in s3fs, the file descriptor cache, writing, renaming and listing, signing and the curl handles, which playing a file
  needs none of or sees as one HEAD; in ffmpeg, demuxers, codecs, filters and
  encoders, which process data. Most of the vendored code is of that kind (tables and transforms), so that
  the models cover a small share of its lines: those where threads and state meet.
- `live.php` branches once on its key and prints; `error.php` looks a code up, and every code that the scripts
  end in is in its table. Neither has state. `on_play` and the secure link are a request and a hash
  comparison inside nginx, and no script of the site makes such links.
- `config/TestVideo.sql` is a table that no script uses; `nginx_module.sh` and
  `s3fs-fuse.sh` are run once by hand. `src/nginx.conf` writes `live {;`, which nginx would
  not load as it stands.
- The order of B frames: see [the frame threads](#the-frame-threads-in-detail).
- The content of a query: texts are data here, and whether a statement is accepted is the
  fault `statement`.
- What happens when `$_POST` or `$_FILES` is empty because the body exceeds
  `post_max_size` is the same as a file that does not fit: ffmpeg finds no file, error 11.


## The plan

Done, in this order: `VideoUpload` with its runs; its type and safety proofs; `Catalog` and the
refinement, checked and proved; `IndexPage`; `VideoPlayer`; `FrameThreads`; `StatCache`;
`VideoAttributes`; the proofs of the readers and of the stat cache; the proof of `LostOnlyToNamesake`; the proofs of the
frame threads and of the duration and bitrate.

Left, in order of importance:

1. What liveness rests on, as far as it is safety: that a sound upload in progress always has a step that
   gets it on, as `SomeoneCanRun` says of the decoder.
2. How close the bound of `CacheBounded` is: less than two entries per thread over the size is proved, and
   with two threads three over it are reached; whether a bound between them holds of many threads is open.

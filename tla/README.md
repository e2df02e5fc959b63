# meetingctl in TLA+

A verification development for `meetingctl` (Python, under `src/`), a command
line tool that records meetings, transcribes and summarises them, and files the
result as notes of an Obsidian vault. It has no server: every command is a
process of its own, started by a person, by Hazel, by launchd or by a shell
script, and all of them meet in the file system. What is hard about it is
therefore what two processes do to one file, and what a process leaves behind
when it dies.

## The system

| Component | State it keeps | Operations | Talks to |
|---|---|---|---|
| Processing queue (`queue_worker.py`, `cli.py`) | `process_queue.jsonl`, its `.lock`, `process_queue.deadletter.jsonl` | `process-queue`, append by `stop` / `ingest-watch` / `backfill`, `failed-jobs-requeue`, `failed-jobs` | calls the handler for each line |
| Recording control (`commands.py`, `runtime_state.py`, `recording.py`) | `current.json`, its `.lock` | `start`, `stop`, `status` | drives Audio Hijack; `stop` appends to the queue; `start` creates a note |
| Processing handler (`cli.py`, `process.py`, `audio.py`) | recordings (`.wav`, `.m4a`), `<meeting id>.mp3`, transcript, note regions, `.done.json` markers, processed-jobs log | one job: resolve, transcribe, summarise, patch, convert, references, mark, log | called by the queue worker, and directly by `ingest-watch` and `backfill` with `--process-now` |
| Transcription (`transcription.py`, `diarize_sidecar.sh`, `diarize.py`) | `<id>.txt/.srt/.json`, `<id>.basic.*` | whisper runner, diarization sidecar with whisper fallback, baseline capture | called by the handler |
| Ingest (`cli.py`) | ingested-files log, markers | `ingest-watch`, `backfill`, rename of a recording | calendar, notes, queue or handler |
| Ingest automation (`run_ingest_once.sh`, `hazel_ingest_file.sh`) | a lock directory | ingest once, then drain the queue in bounded passes | the two above |
| Calendar (`calendar/`) | none | now-or-next event, nearest event; EventKit, then JXA, then icalBuddy | external calendars |
| Notes (`note/`) | notes of the vault | create with a collision-safe name, look up by meeting id, patch regions | vault |
| Summary client (`summary_client.py`) | none | model candidates, retries, one repair pass | Anthropic API |
| Deployment (`deploy.py`) | installed tree | plan, apply | file system |
| Catch-up, refresh, prune (`scripts/`) | artifacts of the vault, reports | batch diarization, refresh of minutes, removal of orphans | file system, container |

`PROJECT.json` lists every component, the ones left out included, with the
reason.

### What must be right, component by component

* **Queue.** One worker at a time. A job that a producer queued is done or can
  still be found. In `stop` mode order is kept, in `dead_letter` mode nothing
  blocks. A worker that runs twice does not run a job twice.
* **Recording control.** One meeting at a time. Audio Hijack records what the
  state file says. A recording that is queued is complete, and queued once.
* **Handler.** Audio is never deleted before another file holds it. A marked
  recording has its note patched. A job that failed can be run again.
* **Transcription, catch-up.** The files of a transcript tell the same. A plain transcript is kept before a
  diarized one replaces it.
* **Ingest.** Polls queue a recording once, whatever format of it is there. Every
  complete recording is queued in the end, and filed under its own meeting.
* **Notes.** One note per meeting. Patching and normalising settle, and touch
  nothing outside what they set.
* **Calendar, summary client.** The fallback chains try what they say they try,
  in order, and answer with the one fitting event or none; a readable answer of
  the service is kept.
* **Deployment, pruning.** `install.sh` runs on what the archive has, and on one
  whole release if the archive is. Artifacts are deleted only of meetings without a
  note.

`PROJECT.json` lists the hazards with their lines and the properties that
answer them.

## Modules

| Module | Models |
|---|---|
| `JobLedger` | what the queue promises, with no file or process in it |
| `QueueWorker` | the queue file, its lock, the dead letters and the commands that touch them; refines `JobLedger` |
| `QueueWorkerProofs` | its theorems |
| `MCQueueWorker` | instances for TLC |
| `RecordingSession` | what `start` and `stop` promise to one user at a time |
| `RecordingControl` | `start` and `stop`, the state file and its lock, Audio Hijack; refines `RecordingSession` when commands do not overlap |
| `RecordingHistory` | `RecordingControl` with a history of the deaths, and what holds without them |
| `RecordingControlProofs` | the theorems of both |
| `MCRecordingControl` | instances for TLC |
| `Pipeline` | the processing handler over the files of one meeting, several handlers at once |
| `PipelineProofs` | its theorems |
| `MCPipeline` | instances for TLC |
| `Ingest` | from a recording on disk to a queued job: the poll under its lock directory, `backfill`, `start`, the ingested log, the notes they create |
| `IngestProofs` | its theorems |
| `MCIngest` | instances for TLC |
| `Artifacts` | the artifact files of one meeting and the four programs that rewrite them |
| `ArtifactsProofs` | its theorems |
| `MCArtifacts` | instances for TLC |
| `SummaryClient` | one call: models, retries, the repair pass |
| `Listing` | a set as a list in some order: comprehensions and sorts |
| `SummaryText` | what becomes of the text of an answer |
| `Calendar` | backends and their order, the choice of an event |
| `NotePatch` | the region algorithm of the note patcher |
| `Frontmatter` | `normalize-frontmatter`, the tag fixer and the tag audit |
| `Diarize` | who labels, how many speakers, segments, turns |
| `CatchupBatch` | which recordings a catch-up takes, whose they are, where it stops |
| `Deploy` | build, pack, extract, apply and install |
| `DeployProofs` | its theorem |
| `Parts` | `SummaryClient`, the six pure modules and `Deploy` in one specification, with their properties |
| `PartsProofs` | its theorems but those about notes, and those of `SummaryClient` |
| `NotesProofs` | the theorems about the tools that rewrite a note |
| `MCParts` | its inputs for TLC |

### QueueWorker

One action per step between which another process can act. A worker goes
through `Acquire` (`O_CREAT | O_EXCL`), `ReadQueue`, `HandleOk` / `HandleFails`
for each line, `Rewrite`, `RecordFailures`, `Release`; `pc[w]` is where it is,
`raw`, `consumed` and `failed` are the locals of `process_queue_jobs`. A
producer has two steps, `OpenQueue` and `AppendJob`, because `open("a")` names
an inode: if the worker replaces or unlinks the queue in between, the line goes
to a file no one will read (`handle = "orphan"`). `failed-jobs-requeue` has six:
load, one scan step per item, open, append, truncate, write.

`Abort` is any exception outside the handler's `try`: the `finally` clause runs.
`Crash` is a kill: the lock file stays, and `RemoveStaleLock` is the operator
who removes it once no worker runs. The handler is a step that succeeds or
raises. Lines are model values; a malformed line can only fail, and so can what
the dead letters make of it.

`exposed` is a history variable: the jobs that were written into, or held
across, one of the windows the code leaves unlocked. It lets the model say
exactly when a job may be lost, instead of not saying anything because one may.

### RecordingControl

A command goes through check or load, `Lock`, the recorder, the write or removal
of `current.json`, `Unlock`, and for `stop` the trigger. The check of `start`
and the load of `stop` come before the lock, as in the code. Audio Hijack is
external: starting a session that runs leaves it with the recording it has,
stopping one that does not run does nothing. `Refused` are the starts on the
platform `system` while it is disabled. `Overlap` says whether two commands may
run at once; `Faults` which of the failures may happen. One `start` is one
member of `Starts`, so a recording and its job can be told apart from others of
the same meeting. A state file that exists always says `recording: true`: nothing
else is ever written. What `start` does to the vault before it looks at the state
is not modelled here.

### Pipeline

One meeting, its recordings and what `_default_queue_handler` makes of them.
`pc[h]` is where handler `h` is in its job: `note` (the note is looked up),
`check` to `patch` (`run_processing`), `convert` to `unlink`
(`_convert_for_processing`, `convert_wav_to_mp3`), then `references`, `mark` and
`log`; `settle` is the caller that takes the job off its books. `active` is the
recording it works on (the wav is preferred, a wav that cannot be transcribed is
given up for its m4a), `heard` the transcript it has read, `audio` the canonical
audio it will link and mark. A handler that raises or is killed forgets all of
this, and its job stays in `jobs`, which stands for the queue, the dead letters
and a recording that the next poll would find again.

There may be several handlers: the queue's lock keeps workers apart, but
`ingest-watch` and `backfill` with `--process-now` call the handler without it.
There may be several `Takes`: `ingest-watch` looks for the calendar event near
the present for every file it finds, so two recordings can get one meeting id,
and then share a transcript, an mp3 and a note.

Abstractions. A file is known by whose audio or words it holds. An mp3 of 128
kbit/s or less, which is encoded again, is `"low"`. `Unreadable` files exist but
no tool decodes them. `minutes` says of which transcript the summary was made, not
what it says: a job that is run again asks the service again, patches the note with
its new answer and writes the marker anew. `InPlace` is a transcriber that writes the transcript file
itself, which whisper does for a recording named after its meeting. The note has
the regions of its template, and patching one region is one step. The switches that replace tools by
dry runs and `MEETINGCTL_AUDIO_DONE_MODE=none` are not modelled.

### Ingest

A command is in `pc[c]`: `discover`, `work` (the list of files it has found is in
`mem[c].todo`), then `find`, `name`, `write` (the note), `rename`, `queue`, `log`.
Pollers, backfills and starts share the actions that look a note up and write it,
since they share `create_note_from_event`; they differ in who takes the lock
directory (pollers only), which event is matched (the one near the present, or
near the recording's own time), what stops a file (the ingested log, or markers
and an existing transcript) and what is written at the end. `Match` of a
backfill that someone reviews may pick any event, or none.

Recordings are known by whose sound they hold: `audio[<<name, format>>]` is a
recording or `None`, and a name is the recording's own or a meeting id, which
`stop` and a rename give it. A recording `Grow`s until it is complete; `grown` is
what the age of the file stands for. Time is the index of the calendar event near
it. The queue worker is one step, `Process`.

`exposed` holds the recordings that something else than a poll took up too, and
those whose poll died between queue and log; `raced` the meetings for which two
commands looked for a note at once. `QueuedOnce`, `MinutesSurvive` and
`FiledInItsNote` promise nothing about them, and everything about the rest.

### Artifacts

The directory is `dir[<<name, kind>>]`: active, diarized and basic transcript and
the file whisper names after the recording, each as text and json. What a program
does to it is a script, a sequence of writes, copies and moves. `Open` starts one
(the target is `"partial"`, or gone), `Close` finishes it; a program that fails
or dies in between leaves what there is. So every order of two scripts is
explored file by file. The handler goes through the sidecar, the adoption of its
files, baseline, whisper as fallback, summary and patch, according to `setting`:
the backend, whether the recording is named by the meeting id (`"inplace"`),
whether a baseline is kept, whether whisper may stand in.

`disturbed` says that a script was cut short, or begun or read while another
writer was at work: no program takes a lock on the directory, so nothing is
promised then. That covers a lone handler whose sidecar leaves no json: the
adoption raises after the labelled text was copied, and the text stays beside a
plain json. `missed` says that the note was where a search could not find it.

### The parts

`Calendar`, `SummaryText`, `NotePatch`, `Frontmatter`, `Diarize` and
`CatchupBatch` are operators: the code they translate keeps no state another
process sees. A property is an operator of the inputs that relates the result to
something else than the algorithm: a reference definition (`OnlyFitOrNone`,
`UnderWayIsFound`), a second run (`PatchTouchesItsRegions`,
`NormalizeKeepsTheRest`, `FixerAgreesWithAudit`, `NextRunPicksUp`), or what must
be conserved (`TurnsKeepEveryWord`, `SummaryIsWhole`).

Data is cut down to what decisions look at: a note is a sequence of markers,
newlines and words, frontmatter a sequence of lines of a key and words, an
answer of the service a nesting of texts and objects, times are small numbers.
Where the code's reading of a line is odd, the model has the oddity: the pattern
for an empty value runs on over the newline and takes the next line with it, and
the fixer drops lines that are neither key nor item. The audit has a pattern of its
own for an item: a blank one is an item to the fixer only (`Worded`).

The diarization smooths the labels of windows in the order it has the windows in,
which in a recording too quiet to choose among them is the order of loudness, and
brings them in order of time afterwards (`InTime`). A speaker is sparse for having
too few segments or too small a share of them.

A batch of the catch-up looks the notes up once and writes notes of its own for
recordings without a meeting, before the sidecar runs. So `NextRunPicksUp` gives the
second run the notes of the first, and promises the resumption for recordings whose
times do not fit each other's new notes (`Apart`; TLC finds the counterexample
without it). `sidecar[family].raises` are the exceptions nothing catches: they end
the run where they are met.

`SummaryClient` and `Deploy` are state machines of their own. The service may
answer any text or error at any request. A deploy may be killed while a path is
half removed or half copied, and applied again from the same archive; releases
may drop files. The repository may go on between two copied paths of a build, and a
pack that is interrupted, or fails on a file, leaves an archive that can be read of
part of the bundle (`PackCut`). `steady`, `sound` and `trusted` are history: the
repository stood still, the archive was packed to its end by such a build, and the
bundle being applied came out of such an archive. `Fails` of the client counts
calls of the client library; the library's own retries inside a call, left at their
default, are not counted.

`Parts` puts them into one specification: a first step chooses a part and, for
the pure ones, an input out of all of a set; the client and the deployment go on
from there by their own `Next`. The sets are the constant `Inputs`. `MCParts`
gives it those TLC goes through; `Parts` names what the theorems assume of any
(`CalendarAssumption`, `EventsAssumption`, `SpeechAssumption`...): little more than
that a list is a list and a time a number. `NotesAssumption` says of notes that they
are lists, that a dict of updates has a region once, and that the markers of a note are
of the `Regions` the property looks at. `Listing` has the two things most of
these programs do to a list, filter it and sort it, as functions of the places
that are taken, so that what they keep can be stated and proved.

## Runs

| Run | Instance | Shows |
|---|---|---|
| `QueueFaults` | 2 workers, 1 producer, 2 jobs (one malformed), crash and abort | `TypeOK`, `LockExclusion`, `MemoryIsQueueHead`, `NoSilentLoss`, refinement of `JobLedger` |
| `QueueQuiet` | 2 workers, 2 producers, 3 jobs, no fault, fairness | `ProcessedOnce`, `EveryJobSettles` |
| `QueueStop` | the same in stop mode with faults | `StopModeKeepsOrder` |
| `RecordRaces` | 3 starts, 2 stops, overlapping, every fault, fairness | `TypeOK`, `LockExclusion`, `JobsAreStopped`, `LockIsReleased` |
| `RecordOneAtATime` | 4 starts (one refused), 2 stops, no overlap, every fault | `OneJobPerRecording`, `RecorderMatchesState`, refinement of `RecordingSession` |
| `PipelineRaces` | 2 handlers, 2 takes (a wav; a flawed wav with an m4a), every fault | `TypeOK`, `AudioSurvives`, `DeletedOnlyAfterArchive`, `LoggedMeansComplete`, `SettledMeansPatched` |
| `PipelineRecovers` | 1 handler, 1 take (a flawed wav with an m4a), every fault, `InPlace`, fairness | `RerunReusesFiles`, `EveryJobIsSettled` |
| `IngestRaces` | 2 polls, 1 backfill that renames, 1 start; 2 recordings (one in two formats, one named by `stop`), 2 meetings, one fault | `TypeOK`, `FiledInItsNote`, `QueuedOnce`, `MinutesSurvive` |
| `IngestSettles` | 1 poller, 1 reviewed backfill, 2 recordings, one always failing, one death or failure, fairness | `EveryRecordingIsQueued` |
| `Artifacts` | handler, catch-up, refresh, pruning, user; 4 settings, one fault | `TypeOK`, `TranscriptAgrees`, `BaselineKept`, `PruneSparesNotes` |
| `ArtifactsBaseline` | the default settings on what `stop` leaves, no fault | **violation** of `TranscriptIsThere` |
| `Parts` | each part over its inputs; the client with 2 models and 1 retry; the deployment with 2 paths and 2 releases | `CallIsSound`, `CallEnds`, `CalendarAnswers`, `NotesAreKept`, `SummaryIsWhole`, `SpeechIsKept`, `CatchupResumes`, `InstallsWhatWasPacked` |

`RecordingHistory` adds a history variable, `killed`: which kinds of death
have happened. `LockIsReleased` is about behaviours without a kill,
`RecorderMatchesState` about those without a kill or an interrupt; with the history
they are checked in the run that has the faults.

Bounds. Two workers are enough for every race, since the lock lets one in; the
second is the one that waits or comes after. `MaxJobs = 2` with three jobs makes
a batch end before the queue does. `LineBound` cuts off the behaviours in which
a requeue that keeps dying between its two writes duplicates lines for ever;
without faults no bound is needed. Three starts make a stop that holds an old
state meet a newer recording and a third one in another session. In `Pipeline`
nothing is bounded but the sets: two handlers make every race of a file that is
read, unlinked and renamed, and a job may be run again any number of times.

In `Ingest`, `MaxFaults` is one, and `FewThings` keeps recordings that have
arrived, faults and started `start` commands to three in one behaviour: two
recordings and a fault, or two and a `start`, or one and both. A second poll is
what a lock is for, and what reads a log the first has written; a second meeting
is what a slow poll can wrongly file under. In `Artifacts`, `MaxFaults` is one:
after a fault the properties promise less (`disturbed`, `missed`), so a second
adds little, while every program may run again any number of times. `MCParts`
names its sets of inputs at the head of the module. They have up to three events
around every limit of a window, every minute of a day of six, three links, two
regions with every mix of blank lines, three or four lines of frontmatter, every
field of an answer missing, blank, wrong or nested, seven windows of two
speakers, three segments, three recordings: enough for each comparison of the
code to be met from below, at the limit and from above. The parameters of the
operators (`SmoothSpan`, `Tolerance`, `MaxCandidates`...) are the code's constants,
scaled down with the inputs.

Fairness. A started command runs on (weak fairness of its next step), and the
automation keeps launching `process-queue` (weak fairness of `Acquire` for some
worker), as `run_ingest_once.sh` under launchd does. Producers, requeues, faults
and the operator are not fair. Liveness of the queue is
without crashes: a crash leaves a lock file, and only an operator gets
rid of it.

In `Pipeline`, `FairSpec` says that a handler that has begun runs on and that
each job is tried again while it is on the books. Failed jobs do come back by the
next poll or by `failed-jobs-requeue`, a person's command: `EveryJobIsSettled`
says what follows if somebody gives it. Faults may go on as long as they like;
the property speaks of behaviours in which they end, and of whatever they left
behind. It is checked with one handler. With two it fails: each can unlink the
transcript the other is about to read, so that both raise, round after round; no
scheduler would do that for ever, but weak fairness does not exclude it.

In `Ingest`, some poller is always launched again (`WF` of `Lock`), as launchd and
Hazel do, and a running command goes on. Arrivals, starts, backfills and the
operator are not fair; a lock directory left by a killed poll stops ingestion
until someone removes it, and `EveryRecordingIsQueued` says so. In `SummaryClient`
every request is answered, if only by the client's own timeout.

Deadlock is checked in the runs of the queue and of the artifacts only: once
every start has ended and no meeting is in progress, every job is settled, every
recording is filed, or a question is answered, nothing is left to do.

### Known defects

`ArtifactsBaseline` is in the suite. `stop` names a recording by its meeting id,
and whisper names its output after the recording. So when the baseline of a
diarized transcript is captured, whisper overwrites the transcript, and the files
are then moved to `.basic`: the summary step finds no transcript and raises. The
comment on that code says the baseline should not block the primary path.

The others are reproduced by changing a configuration of the suite as each item
says; the properties stay in the modules with what they are about.

* `AcceptedJobsSurvive` (an `INVARIANT` more in `QueueQuiet.cfg`). The worker reads
  the queue, runs the handlers, which takes minutes, and replaces the file with
  what it remembers. A line appended meanwhile is gone. The documents call the
  trigger async-safe. `NoSilentLoss` is what holds instead.
* `FailedJobsStayQueued` (a `PROPERTY` more in `QueueFaults.cfg`). Failed payloads leave the queue
  before they are in the dead letters. The documents say failures keep payloads
  queued.
* `NoClobber` (a `PROPERTY` more in `RecordRaces.cfg`). The check for a meeting in progress is made
  before the lock is taken and not repeated. The specification says locking
  prevents this.
* `AudioSurvives` (`PipelineRaces.cfg` with `Recorded <- TwoWavs` and
  `Unreadable = {}`: two wavs, no m4a). The second
  conversion finds the mp3 of the first, takes it for its own and deletes the
  wav. The note keeps the transcript of the first, too. The documents say the wav
  goes after the mp3 was created.
* `SettledMeansDone` (`PipelineRaces.cfg` with `Takes <- OneTake`, `Recorded <-
  WavOnly`, `Unreadable = {}`, `Handlers <- OneHandler`, `Faults = {"fail"}` and no
  symmetry, and this `INVARIANT`). A step after the deletion of the wav
  fails. The job is run again, the wav it names is missing, and the handler takes
  it for stale and returns: the mp3 is never linked or marked, and the job counts
  as processed. The documents ask for idempotent reruns. `SettledMeansPatched`,
  which holds, is what remains: the note has its minutes.

These follow from the code, and the properties are stated so as to leave them out:

* The catch-up writes the note of a recording without a meeting before the sidecar
  runs, and on a dry run too. If the run stops there, the next one may find another
  recording within half an hour of that note, file it under its meeting and, once
  the first is diarized, skip it as already done.
* A file that vanishes while the recordings are sorted, a note that cannot be written
  and a copy that fails raise out of the batch: those behind it wait, and if it
  happens each time they wait for ever. Only the sidecar's own failures are passed
  over.
* A build that is interrupted while it packs leaves an archive that opens: `deploy`
  asks it for `install.sh` only, and applies and runs it on a target of which the
  other paths are still of the older release.
* A commit during a build makes a bundle of two releases.
* `tags:` over blank items only is a scalar to the audit and a list to the fixer,
  which leaves it as it is: the audit reports it for ever.
* In a recording of fewer than two active windows the labels are smoothed in order of
  loudness: a window is relabelled after windows of other moments.

## Proofs

`tlapm` checks the theorems below for every value of the constants, under the
assumptions the modules name (`ConstantsAssumption`, in `Deploy`
`ConstantsAreRight`), and under those the theorem itself states.

**Every state machine but `Deploy`**

* `TypeCorrect` (`TypeOK`) of `QueueWorker`, `RecordingControl`, `Pipeline`,
  `Ingest`, `Artifacts` and, as `CallTypeCorrect`, of `SummaryClient`;
  `MutualExclusion` (`LockExclusion`) of the first two.

**Queue**

* `NothingLostSilently` (`NoSilentLoss`). The property alone is not inductive: a
  rewrite drops lines, and one must know that those it drops are done or among
  the worker's failures, and that the lines it does not know were exposed. So
  `IInv` adds `MemoryIsQueueHead` (what is in memory is the head of the file,
  because only the one worker past the lock shortens it), `WorkersAccount` (where
  the lines up to `consumed` went) and `RequeueAccounts` (a requeue overwrites
  nothing but what it put back in the queue and what was exposed). One lemma per
  action shows that it keeps the accounts. TLC checks `MemoryIsQueueHead` and
  `NoSilentLoss`, which are parts of `IInv`.
* `MemoryStaysCurrent` (`MemoryIsQueueHead`) from the same invariant.
* `QueueKeepsLedger` (`LedgerSpec`): every step of the queue is one of the
  ledger, or a stutter, under `owed <- Owed` and `atRisk <- exposed`.
* `StopModeInOrder` (`StopModeKeepsOrder`), for `FailureMode = "stop"`. On top of
  `IInv` it takes that no worker has collected a failure (`NoneCollected`): so
  every line up to `consumed` was handled, and by `MemoryIsQueueHead` those are the
  lines of the file before the one that is being completed.
* `NothingProcessedTwice` (`ProcessedOnce`), for `Faults = {}`. `Once` says that a
  job is in one place: what a producer is about to append nobody has seen
  (`Fresh`); a job is on one line of the queue, and on none once it is done or
  collected as a failure, but for the lines a worker has in hand and will drop
  (`Pending`); and the dead letters, or what a requeue has read of them and still
  keeps, have it once and nothing else has it (`SetAside`). A death between two
  writes leaves a job in two places, hence the assumption.

**Recording control**

* `OnlyCompleteAudioIsQueued` (`JobsAreStopped`) holds with overlapping commands
  and every fault. `AudioInv` says where a recording can be: a stop at or past
  the removal of the state has stopped the session of what it loaded, and what
  was once replaced in a session never comes back.
* `OneAtATimeIsASession` (`SessionSpec`) and `NeverQueuedTwice`
  (`OneJobPerRecording`) assume `~Overlap`. `SerialInv` says what the state file
  holds at each step of the one running command.
* `RecorderAgreesWithState` (`RecorderMatchesState`), for `~Overlap`. `MatchInv`
  says, for each step of the one running command, which of the two (state file,
  recorder) is ahead, as long as `killed` is empty; `AudioInv` and `SerialInv` give
  the rest.

**Handler**

* `RecordingsAreArchived` (`DeletedOnlyAfterArchive`), for any takes, handlers and
  faults. `ArchiveInv` adds that a handler about to delete a wav does so when the
  mp3 holds some take, and that only wavs are ever deleted: so the m4a on which a
  deletion relied is still there.
* `AudioIsKept` (`AudioSurvives`), if at most one take has no m4a, no m4a is among
  the `Unreadable`, and every take had audio to begin with. `EncodedInv` says that
  only a take without an m4a is ever encoded, so that an mp3 can be of one take
  only. The fourth of the known defects shows that the first assumption is needed. So is the
  second: a wav beside an m4a is deleted without a look at the m4a.
* `NoJobIsForgotten` (`SettledMeansPatched`). `NoteInv` adds that a handler past
  the patch has patched, and that a recording is gone only after some handler
  was past it.
* `LogMeansDone` (`LoggedMeansComplete`). `BookInv` follows the canonical audio
  from the conversion to the references, the marker and the log.
* `RunAgainReusesFiles` (`RerunReusesFiles`), under `Alone`: one take and
  one handler at a time, as in its run (what is reused is the transcript, the mp3 and
  the link to the audio; the summary and the marker are made anew); a second handler, or a second take that has yet to
  be worked on, changes the files after the first was logged. `AloneInv` says
  that a handler past the patch has put in the note what the transcript has
  (`Summarised`), that the last steps name the canonical audio, the m4a if there is
  one, and that a wav that had to be encoded is gone by then (`Filed`), and that once
  the take is logged nothing is left to transcribe, encode or rename (`Finished`).

**Ingest**

* `NothingQueuedTwice` (`QueuedOnce`), `OneNoteTheRightOne` (`FiledInItsNote`) and
  `MinutesAreSafe` (`MinutesSurvive`), from one invariant. The properties speak of
  one step, and nothing in them says why the step is rare, so `IInv` has to:
  `OnePoll` (the lock directory keeps polls apart), `PollInHand` (the poll's list has
  one file of a family, and of no family that is logged), `QueuedIsLogged` (what was
  queued is in the log, or about to be by the poll that holds it, or exposed),
  `FilesAreNamed` and `BackfillInHand` (only what a backfill or `stop` took up has
  another name), `NotesApart` (of two commands between looking a note up and
  writing it, the meeting is `raced`) and `OneNotePerMeeting`.

**Artifacts**

* `PlainCopyIsKept` (`BaselineKept`) and `TranscriptReliable` (`TranscriptAgrees`),
  for every set of settings and any number of faults. A property of the files at
  rest says nothing of the files half way, so `Calm` says, for each script, what
  its remaining operations will leave: the target of an open operation and the
  sources of the later ones (`Adopting`, `Promoting`, `Recognising`, `CopiesAreOfPlain`,
  `LabelsInOrder`), and that while nothing is `disturbed` one writer is at work
  (`OneAtWork`).
  `TranscriptReliable` assumes `NotInPlace`: no setting has the sidecar, a recording
  named by the meeting id and a kept baseline together. `ArtifactsBaseline` is that
  combination, and shows the assumption is needed.
* `ArtifactsOfNotesStay` (`PruneSparesNotes`). `SearchIsSound` says that a pruning
  past its scan has missed the note, and that a scan that comes to the last folders
  without having missed it finds it there.

**The parts**

* `ArchivesAreInstalled` of `Deploy` by itself, and `UpdatesStayWhole` beside the
  other parts (both `InstallsWhatWasPacked`), for any number of paths, applied
  in any order of their names, and any number of releases. The invariant says that
  while the repository stands still (`steady`) the bundle is of its release as far as
  it was copied, that a `sound` archive is one release, and that the target is the
  source's as far as it was applied, with nothing left of what a killed update had
  put in the path that is being copied. Of an archive packed in part, or from a
  repository that went on, only the last is promised.
* `CallsAreSound` (`CallIsSound`) of the summary client by itself, and `CallsStaySound`
  beside the other parts, for any number of models and retries. In `CallIInv`,
  `AskedInOrder` ties the history of requests to the candidate being
  asked and its attempts, `NeverTooOften` bounds it, and `RepairComesSecond` says
  that nothing was asked for a repair before an unreadable answer came back.
* `SummariesAreWhole` (`SummaryIsWhole`), `CalendarsAnswer` (`CalendarAnswers`),
  `SpeechIsAlwaysKept` (`SpeechIsKept`) and `CatchupsResume` (`CatchupResumes`), as
  invariants of `PartsSpec` for all `Inputs`: answers nested to any depth, calendars of
  any number of events, any sound, transcript, vault and batch. `SummariesAreWhole` promises minutes within
  two layers of encoding and the lists of a whole outer reply; the lists of an inner
  object or of a reply that was cut off it does not. That an answered
  question was one of the inputs (`Asked`) is the whole of the invariant; the rest is
  about the operators, in three layers.
  * *Lists.* A finite set that is listed in a total order has each member once, in
    that order (`Listed`, from the well-foundedness of the natural numbers); hence what
    a filter or a stable sort of a list keeps.
  * *Loops.* A loop of the code is a function that is recursive in the place it has
    come to. It exists, and what holds at the start and is kept by a turn holds at each
    place: `RecursionExists` and `InductUpTo` say so once for every loop. Each loop
    has its invariant: `MergedSoFar` for the segments that are joined, `TellsAll`,
    `TellsOwn`, `TellsShort` and `TellsApart` for the turns (every timed word so far is told
    once, in order, by its speaker, in turns that are not too long), `RunSoFar` for a
    batch (what it has finished and written, and why it stopped).
  * *Choices.* `OnlyFitOrNone` comes from the candidates being sorted by their distance
    before they are cut to `MaxCandidates`: two that fit equally well stand together at
    the head, so one cut off can not make the other the only one, if at least two
    are kept.
* `NotesStayKept` (`NotesAreKept`), for every note, every dict of updates, every path
  and every list of dropped tags, from three theorems about the tools.
  * `NormalizingKeepsTheRest`. Setting a value changes the line of its key and no
    other (`SetValueSets`), hence what the loops over the defaults and over the
    settings have done so far (`FilledSoFar`, `SetSoFar`). A second run finds every
    default there and every value as it would set it (`NothingToFill`,
    `NothingToSet`). "The rest in its order" is that two lists which are alike at the
    places a filter keeps are the same when filtered (`FilteredAlike`).
  * `FixerAgrees`. The block of tags is one splice of the list: what is beside it
    stays (`FixedKeepsKeys`), the tags read back are those written (`FixedHasTags`),
    and to fix them again replaces the block by itself (`FixedIsFixed`).
  * `PatchKeepsToItsRegions`. A patch of one region replaces its text and moves what
    is behind it (`IsMoved`): every marker is found again, moved or not
    (`MovedStands`), and the text outside stays (`MovedOutside`). `IsPatchedTo` is the
    invariant of the loop over the updates. A region that comes to its turn twice, in
    two patches, says what it said (`SaidStays`), if its markers stand on lines of
    their own.
* `FallbackFindsEvents`, `MinutesReachTheNote`, `RecordingsAreFiledOnEvidence`,
  `SpeakerLimitsAreKept`, `SparseSpeakersAreGone`, `LabelledByWhomIsAllowed`,
  `LongSpeechIsHeard`, `WordsAreKept` and `EveryBatchIsPickedUp` state the parts of these
  by themselves.

Before each of these proofs TLC checked the invariant on an instance: those of
`Ingest` on `IngestRaces`, of `Artifacts` on all thirty-two settings (for
`NotInPlace`, the twenty-eight it allows), `Once` on `QueueQuiet` in both
failure modes, `AloneInv` with each combination of formats, of `InPlace` and of a
flawed wav.

Every invariant and every action property of the passing runs is a theorem. Model-checked
only is liveness (`EveryJobSettles`, `LockIsReleased`, `EveryJobIsSettled`,
`EveryRecordingIsQueued`, `CallEnds`): it needs `ENABLED`.

## Not modelled

Parsing, formatting, logging, permissions (`chmod`), the wording of messages and
the contents of payloads. Power loss that undoes a completed write is left out:
`_atomic_write_lines` and `write_state` call `fsync`, the appends do not, so a
job appended just before a power loss may vanish from the disk. Each component
without a module has its reason in `PROJECT.json`. Of those with one:

* **Notes.** A patch of a note is one step. Two programs that read, change and
  write one note at a time do lose an update; nothing in the code keeps them
  apart. Two meetings that start in the same minute share the key by which a note
  is looked up; `EventAt` has one event for a time.
* **Ingest.** `--process-now`, dry runs and file lists; the `.txt` and `.mp3` beside
  a recording that a rename takes along; a backfill of a recording that has
  vanished but whose name still carries its date, which queues a job that the
  worker skips.
* **Transcription.** The retry with the m4a is in `Pipeline`; which whisperx model
  is found, and what its exit codes mean, is left out.
* **Calendar.** What the EventKit helper, JXA and icalBuddy print, and its parsing,
  but for what icalBuddy's output cannot say.
* **Diarization.** Loading of models, inference, and the clustering itself: labels of
  windows are an input. The report files of the scripts.

## Plan

1. `QueueWorker`, `RecordingControl`, `Pipeline`, their abstractions and proofs.
   *Done.*
2. `Ingest`, `Artifacts`, the parts, the proofs of `SummaryClient`. *Done.*
3. The proofs of `Ingest`, `Artifacts`, `Deploy`, of the parts, and those of the runs'
   properties that need an assumption on the instance. *Done.*
4. To model after that: a note as a file that is read, changed and written, with
   the editor as another writer, so as to state which updates survive.

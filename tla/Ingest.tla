------------------------------- MODULE Ingest -------------------------------
(***************************************************************************)
(* From a recording on disk to a queued job: the poll of `ingest-watch`    *)
(* under scripts/run_ingest_once.sh, `backfill`, and the `start` command,  *)
(* which all look for the meeting's note and create it when there is none. *)
(*                                                                         *)
(*   - A poll reads the ingested log once, takes every recording whose     *)
(*     family is not in it, matches it with the calendar event near the    *)
(*     present, finds or creates the note, queues the job, writes the log. *)
(*   - A backfill matches with the event near the recording's own time, is *)
(*     stopped by done markers and by an existing transcript, may rename   *)
(*     the recording after the meeting, and never writes the log.          *)
(*   - Only the automation's polls take a lock, the directory              *)
(*     automation_ingest.lock.                                             *)
(*                                                                         *)
(* The queue worker is the single step Process here; QueueWorker and       *)
(* Pipeline hold its detail.                                               *)
(***************************************************************************)
EXTENDS Naturals, Sequences, FiniteSets

CONSTANTS
  Recordings,   \* recordings; each also stands for the ad hoc meeting id
                \* derived from its file name and start
  Named,        \* those `stop` leaves under their meeting's id and queues
  Variants,     \* the formats each is kept in: [Recordings -> SUBSET Formats]
  Meetings,     \* ids of calendar meetings
  EventAt,      \* the event the calendar finds at each time, or None
  TakenAt,      \* when each recording was made
  Pollers,      \* run_ingest_once.sh invocations
  Backfillers,  \* backfill invocations
  Starters,     \* start commands
  Broken,       \* recordings whose filing always raises
  Rename,       \* backfill --rename
  Review,       \* backfill --review-calendar
  Faults,       \* "crash", "fail" (a lookup, write or job raises), "move" (the
                \* user files a note elsewhere in the vault)
  MaxFaults,    \* how many of them in one behaviour
  None

Formats == {"wav", "m4a"}
Times == DOMAIN EventAt
Ids == Meetings \union Recordings
Files == Ids \X Formats   \* named after the recording, or after a meeting
Commands == Pollers \union Backfillers \union Starters

ASSUME ConstantsAssumption ==
  /\ Named \subseteq Recordings /\ Broken \subseteq Recordings
  /\ Meetings \intersect Recordings = {} /\ None \notin Ids \union Files
  /\ 0 \in Times /\ Times \subseteq Nat
  /\ EventAt \in [Times -> Meetings \union {None}]
  /\ TakenAt \in [Recordings -> Times]
  /\ Variants \in [Recordings -> (SUBSET Formats) \ {{}}]
  /\ \A r \in Named : EventAt[TakenAt[r]] # None
  /\ Pollers \intersect Backfillers = {} /\ Starters \intersect Backfillers = {}
  /\ Pollers \intersect Starters = {}
  /\ Rename \in BOOLEAN /\ Review \in BOOLEAN /\ MaxFaults \in Nat
  /\ Faults \subseteq {"crash", "fail", "move"}

(* A note: its meeting id, its number when the name was taken, its folder. *)
Note(id, copy) == [id |-> id, copy |-> copy, place |-> "meetings"]
Copies == 1..3
Notes == [id : Ids, copy : Copies, place : {"meetings", "elsewhere"}]

VARIABLES
  now,
  audio,        \* whose sound each file of the recordings folder holds, or None
  arrived,      \* recordings made
  grown,        \* recordings old enough to be ingested
  notes,        \* notes in the vault
  minutes,      \* those that hold a summary
  transcripts,  \* meetings with a transcript
  markers,      \* audio files with a .done.json beside them
  queue,        \* queued jobs: meeting, note, file
  ingested,     \* families in the ingested log
  lockDir,      \* does automation_ingest.lock exist?
  pc, mem,      \* per command
  queued,       \* history: recordings ever queued
  exposed,      \* history: recordings something other than an undisturbed
                \* poll took up
  raced,        \* history: meetings whose note two commands looked for at
                \* once, or whose note was moved
  faults        \* how many faults have happened

folder == <<audio, arrived, grown, markers>>
vault == <<notes, minutes, transcripts>>
history == <<queued, exposed, raced, faults>>
vars == <<now, folder, vault, queue, ingested, lockDir, pc, mem, history>>

Blank == [todo |-> {}, seen |-> {}, at |-> 0, file |-> None, take |-> None,
          id |-> None, note |-> None]

Init ==
  /\ now = 0 /\ audio = [f \in Files |-> None] /\ arrived = {} /\ grown = {}
  /\ notes = {} /\ minutes = {} /\ transcripts = {} /\ markers = {}
  /\ queue = <<>> /\ ingested = {} /\ lockDir = FALSE
  /\ pc = [c \in Commands |-> "idle"] /\ mem = [c \in Commands |-> Blank]
  /\ queued = {} /\ exposed = {} /\ raced = {} /\ faults = 0

-----------------------------------------------------------------------------
(* The world *)

Tick ==
  /\ now + 1 \in Times /\ now' = now + 1
  /\ UNCHANGED <<folder, vault, queue, ingested, lockDir, pc, mem, history>>

FamilyOf(r) == IF r \in Named THEN EventAt[TakenAt[r]] ELSE r

(* A recording appears, at once or later when it is synced.  `stop` queues *)
(* a job for the one it ends, which names the file by the meeting's id.    *)
Arrive(r) ==
  LET own == {<<FamilyOf(r), x>> : x \in Variants[r]} IN
  /\ now >= TakenAt[r] /\ r \notin arrived
  /\ arrived' = arrived \union {r}
  /\ audio' = [f \in Files |-> IF f \in own THEN r ELSE audio[f]]
  /\ \/ r \notin Named /\ UNCHANGED <<queue, queued, exposed>>
     \/ \E f \in own :
          /\ r \in Named /\ Note(f[1], 1) \in notes
          /\ queue' = Append(queue, [id |-> f[1], note |-> Note(f[1], 1), file |-> f])
          /\ queued' = queued \union {r} /\ exposed' = exposed \union {r}
  /\ UNCHANGED <<now, grown, markers, vault, ingested, lockDir, pc, mem, raced, faults>>

(* Its files are complete and older than --min-age-seconds. *)
Grow(r) ==
  /\ r \in arrived \ grown
  /\ grown' = grown \union {r}
  /\ UNCHANGED <<now, audio, arrived, markers, vault, queue, ingested, lockDir, pc, mem, history>>

Fault(kind) == kind \in Faults /\ faults < MaxFaults /\ faults' = faults + 1

MoveNote(n) ==
  /\ Fault("move") /\ n \in notes /\ n.place = "meetings"
  /\ LET moved == [n EXCEPT !.place = "elsewhere"]
         Swap(S) == IF n \in S THEN (S \ {n}) \union {moved} ELSE S
     IN /\ moved \notin notes
        /\ notes' = Swap(notes) /\ minutes' = Swap(minutes)
  /\ raced' = raced \union {n.id}
  /\ UNCHANGED <<now, folder, transcripts, queue, ingested, lockDir, pc, mem,
                 queued, exposed>>

-----------------------------------------------------------------------------
(* The commands *)

Goto(c, label) == pc' = [pc EXCEPT ![c] = label]

(* The command's next label, when only its memory changes besides. *)
Continue(c, label, memory) ==
  /\ Goto(c, label)
  /\ mem' = [mem EXCEPT ![c] = memory]
  /\ UNCHANGED <<now, folder, vault, queue, ingested, lockDir>>

(* Mutant: mkdir -p, which succeeds on a directory that exists. *)
Lock_Always(c) ==
  /\ c \in Pollers /\ pc[c] = "idle"
  /\ lockDir' = TRUE
  /\ Goto(c, "discover")
  /\ UNCHANGED <<now, folder, vault, queue, ingested, mem, history>>

(* mkdir succeeds for one invocation; the others exit at once. *)
Lock(c) ==
  /\ c \in Pollers /\ pc[c] = "idle" /\ ~lockDir
  /\ lockDir' = TRUE
  /\ Goto(c, "discover")
  /\ UNCHANGED <<now, folder, vault, queue, ingested, mem, history>>

(* trap ... EXIT, when the poll and the drain are over or one of them failed. *)
Unlock(c) ==
  /\ c \in Pollers /\ pc[c] = "work" /\ mem[c].todo = {}
  /\ lockDir' = FALSE
  /\ Goto(c, "idle") /\ mem' = [mem EXCEPT ![c] = Blank]
  /\ UNCHANGED <<now, folder, vault, queue, ingested, history>>

(* One file per family, the wav if there is one. *)
Collapsed == {f \in Files : audio[f] # None /\ (f[2] = "m4a" => audio[<<f[1], "wav">>] = None)}

(* The ingested log and the folder are read once; the present the calendar *)
(* is asked about is the start of the poll.                                *)
Discover(c) ==
  /\ \/ c \in Pollers /\ pc[c] = "discover"
     \/ c \in Backfillers /\ pc[c] = "idle"
  /\ Continue(c, "work",
       [Blank EXCEPT !.todo = IF c \in Backfillers THEN Collapsed
                              ELSE {f \in Collapsed : f[1] \notin ingested /\ audio[f] \in grown},
                     !.seen = IF c \in Backfillers THEN ingested ELSE {}, !.at = now])
  /\ UNCHANGED history

(* The memory of a command back at the head of its loop. *)
Looped(c) == [Blank EXCEPT !.todo = mem[c].todo, !.seen = mem[c].seen, !.at = mem[c].at]

(* Reading the age of a file that has vanished ends the poll. *)
PickVanished(c, f) ==
  /\ pc[c] = "work" /\ f \in mem[c].todo /\ audio[f] = None
  /\ Continue(c, "work", IF c \in Pollers THEN Blank ELSE [mem[c] EXCEPT !.todo = @ \ {f}])
  /\ UNCHANGED history

MarkedDone(f) == \E x \in Formats : <<f[1], x>> \in markers

(* A backfill skips what the log it read or a done marker says is          *)
(* processed, and what its user tells it to skip.                          *)
Skip(c, f) ==
  /\ c \in Backfillers /\ pc[c] = "work" /\ f \in mem[c].todo
  /\ Review \/ f[1] \in mem[c].seen \/ MarkedDone(f)
  /\ Continue(c, "work", [mem[c] EXCEPT !.todo = @ \ {f}])
  /\ UNCHANGED history

(* The event near the present for a poll, for a backfill the one near the  *)
(* recording's start or the one its user picks; an ad hoc id without.      *)
Match(c, f) ==
  LET r == audio[f]
      events == CASE c \in Pollers -> {EventAt[mem[c].at]}
                  [] c \in Backfillers /\ ~Review -> {EventAt[TakenAt[r]]}
                  [] OTHER -> {EventAt[t] : t \in Times} \union {None}
  IN /\ pc[c] = "work" /\ f \in mem[c].todo /\ r # None
     /\ c \in Backfillers => f[1] \notin mem[c].seen /\ ~MarkedDone(f)
     /\ \E e \in events :
          Continue(c, "find", [mem[c] EXCEPT !.todo = @ \ {f}, !.file = f, !.take = r,
                                             !.id = IF e = None THEN r ELSE e])
     /\ exposed' = IF c \in Backfillers THEN exposed \union {r} ELSE exposed
     /\ UNCHANGED <<queued, raced, faults>>

(* `start` creates the note of the event the calendar finds now.           *)
Start(c) ==
  /\ c \in Starters /\ pc[c] = "idle" /\ EventAt[now] # None
  /\ Continue(c, "find", [Blank EXCEPT !.id = EventAt[now]])
  /\ UNCHANGED history

(* Two commands at once between the lookup of a note and its creation. *)
Creating(c) == pc[c] \in {"find", "name", "write"}

(* Where a command goes once it has a note. *)
Noted(c) == CASE c \in Starters -> "done" [] c \in Pollers -> "queue" [] c \in Backfillers -> "rename"

(* Mutants: only notes with the event's start are looked for; a note that  *)
(* is found is rendered anew.                                              *)
FindNote_ScanOnly(c) ==
  LET found == {n \in notes : n.id = mem[c].id /\ c \notin Starters} IN
  /\ pc[c] = "find"
  /\ \/ found = {} /\ Continue(c, "name", mem[c])
     \/ \E n \in found : Continue(c, Noted(c), [mem[c] EXCEPT !.note = n])
  /\ UNCHANGED history

FindNote_Renders(c) ==
  /\ pc[c] = "find"
  /\ \/ (\A n \in notes : n.id # mem[c].id) /\ Continue(c, "name", mem[c])
     \/ \E n \in notes : n.id = mem[c].id /\ Continue(c, "write", [mem[c] EXCEPT !.note = n])
  /\ UNCHANGED history

(* A poll or backfill with an event scans the vault for a note with the    *)
(* event's start, those outside the meetings folder first; the others look *)
(* in the meetings folder for the id.  Names sort " (2)" before none.      *)
FindNote(c) ==
  LET id == mem[c].id
      found == {n \in notes : n.id = id /\ (c \in Starters \/ id \in Recordings => n.place = "meetings")}
      first == CHOOSE n \in found : \A o \in found :
                 \/ n.place = "elsewhere" /\ o.place = "meetings"
                 \/ n.place = o.place /\ n.copy >= o.copy
  IN /\ pc[c] = "find"
     /\ \/ found = {} /\ Continue(c, "name", mem[c])
        \/ /\ found # {}
           /\ Continue(c, Noted(c), IF c \in Starters THEN Blank ELSE [mem[c] EXCEPT !.note = first])
     /\ raced' = IF \E d \in Commands \ {c} : Creating(d) /\ mem[d].id = id
                 THEN raced \union {id} ELSE raced
     /\ UNCHANGED <<queued, exposed, faults>>

(* ensure_collision_safe_path: the first name that does not exist.         *)
NameNote(c) ==
  /\ pc[c] = "name"
  /\ \E k \in Copies :
       /\ Note(mem[c].id, k) \notin notes /\ \A i \in 1..k-1 : Note(mem[c].id, i) \in notes
       /\ Continue(c, "write", [mem[c] EXCEPT !.note = Note(mem[c].id, k)])
  /\ UNCHANGED history

(* write_text replaces whatever has appeared under the name meanwhile.     *)
WriteNote(c) ==
  /\ pc[c] = "write" /\ mem[c].take \notin Broken
  /\ notes' = notes \union {mem[c].note}
  /\ minutes' = minutes \ {mem[c].note}
  /\ Goto(c, Noted(c))
  /\ mem' = IF c \in Starters THEN [mem EXCEPT ![c] = Blank] ELSE mem
  /\ UNCHANGED <<now, folder, transcripts, queue, ingested, lockDir, history>>

(* The recording is renamed after its meeting, its other formats are not.  *)
(* A meeting that has a transcript is left alone; an existing file is not  *)
(* overwritten.                                                            *)
RenameFile(c) ==
  LET m == mem[c]
      target == <<m.id, m.file[2]>>
      moved == IF Rename /\ m.id \in Meetings THEN target ELSE m.file
      refused == \/ m.id \in transcripts
                 \/ moved # m.file /\ (audio[target] # None \/ audio[m.file] = None)
  IN /\ pc[c] = "rename"
     /\ \/ /\ refused /\ Goto(c, "work")
           /\ mem' = [mem EXCEPT ![c] = Looped(c)]
           /\ UNCHANGED audio
        \/ /\ ~refused /\ Goto(c, "queue")
           /\ audio' = [[audio EXCEPT ![m.file] = None] EXCEPT ![moved] = audio[m.file]]
           /\ mem' = [mem EXCEPT ![c].file = moved]
     /\ UNCHANGED <<now, arrived, grown, markers, vault, queue, ingested, lockDir, history>>

Enqueue(c) ==
  LET m == mem[c] IN
  /\ pc[c] = "queue"
  /\ queue' = Append(queue, [id |-> m.id, note |-> m.note, file |-> m.file])
  /\ queued' = queued \union {m.take}
  /\ \/ c \in Pollers /\ Goto(c, "log") /\ UNCHANGED mem
     \/ c \in Backfillers /\ Goto(c, "work") /\ mem' = [mem EXCEPT ![c] = Looped(c)]
  /\ UNCHANGED <<now, folder, vault, ingested, lockDir, exposed, raced, faults>>

(* The whole family is logged, not the file: the m4a beside a wav that has *)
(* been processed and deleted is no new recording.                         *)
Log(c) ==
  /\ pc[c] = "log"
  /\ ingested' = ingested \union {mem[c].file[1]}
  /\ Goto(c, "work") /\ mem' = [mem EXCEPT ![c] = Looped(c)]
  /\ UNCHANGED <<now, folder, vault, queue, lockDir, history>>

(* Mutant: an exception ends the poll. *)
Raise_EndsPoll(c) ==
  /\ pc[c] = "write" /\ mem[c].take \in Broken
  /\ Continue(c, IF c \in Starters THEN "done" ELSE "work", [Looped(c) EXCEPT !.todo = {}])
  /\ UNCHANGED history

(* An exception ends the filing of one recording; the loop goes on.  After *)
(* the job was queued it leaves the recording unlogged.                    *)
Raise(c) ==
  /\ \/ Fault("fail") /\ pc[c] \in {"find", "name", "write", "queue", "log"}
     \/ pc[c] = "write" /\ mem[c].take \in Broken /\ UNCHANGED faults
  /\ exposed' = IF pc[c] = "log" THEN exposed \union {mem[c].take} ELSE exposed
  /\ Continue(c, IF c \in Starters THEN "done" ELSE "work", Looped(c))
  /\ UNCHANGED <<queued, raced>>

(* Killed: the automation's lock stays. *)
Crash(c) ==
  /\ Fault("crash") /\ pc[c] \notin {"idle", "done"}
  /\ exposed' = IF pc[c] = "log" THEN exposed \union {mem[c].take} ELSE exposed
  /\ Continue(c, IF c \in Pollers THEN "idle" ELSE "done", Blank)
  /\ UNCHANGED <<queued, raced>>

(* A backfill that is through its list. *)
Finish(c) ==
  /\ c \in Backfillers /\ pc[c] = "work" /\ mem[c].todo = {}
  /\ Continue(c, "done", Blank)
  /\ UNCHANGED history

-----------------------------------------------------------------------------
(* Mutant: a note that was moved is not looked for. *)
Process_NoteGone ==
  LET j == Head(queue) IN
  /\ queue # <<>> /\ queue' = Tail(queue)
  /\ minutes' = minutes \union {j.note}
  /\ transcripts' = transcripts \union {j.id}
  /\ UNCHANGED <<now, folder, notes, ingested, lockDir, pc, mem, history>>

(* One job of the queue worker: its wav is preferred and then deleted; the *)
(* m4a, when there is one, stays and is marked done.  A job whose file or  *)
(* note is gone is skipped.                                                *)
Process ==
  LET j == Head(queue)
      wav == <<j.file[1], "wav">>
      m4a == <<j.file[1], "m4a">>
      found == IF j.note \in notes THEN {j.note} ELSE {n \in notes : n.id = j.id}
  IN /\ queue # <<>>
     /\ queue' = Tail(queue)
     /\ \/ /\ audio[j.file] = None \/ found = {}
           /\ UNCHANGED <<audio, markers, vault>>
        \/ /\ audio[j.file] # None
           /\ \E n \in found : minutes' = minutes \union {n}
           /\ transcripts' = transcripts \union {j.id}
           /\ audio' = [audio EXCEPT ![wav] = None]
           /\ markers' = IF audio[m4a] # None THEN markers \union {m4a} ELSE markers
           /\ UNCHANGED notes
     /\ UNCHANGED <<now, arrived, grown, ingested, lockDir, pc, mem, history>>

(* The operator removes a lock directory that nothing owns. *)
RemoveStaleLock ==
  /\ lockDir /\ \A c \in Pollers : pc[c] = "idle"
  /\ lockDir' = FALSE
  /\ UNCHANGED <<now, folder, vault, queue, ingested, pc, mem, history>>

CommandStep(c) ==
  \/ \E f \in Files : PickVanished(c, f) \/ Match(c, f) \/ Skip(c, f)
  \/ FindNote(c) \/ NameNote(c) \/ WriteNote(c) \/ RenameFile(c) \/ Enqueue(c)
  \/ Log(c) \/ Unlock(c) \/ Finish(c) \/ Raise(c)
  \/ c \in Pollers /\ Discover(c)

Next ==
  \/ Tick \/ Process \/ RemoveStaleLock
  \/ \E r \in Recordings : Grow(r) \/ Arrive(r)
  \/ \E n \in notes : MoveNote(n)
  \/ \E c \in Commands : Lock(c) \/ Start(c) \/ CommandStep(c) \/ Crash(c)
  \/ \E c \in Backfillers : Discover(c)

(* launchd and Hazel keep triggering the automation, and a command that    *)
(* runs goes on.                                                           *)
Fairness ==
  /\ WF_vars(\E c \in Pollers : Lock(c))
  /\ \A c \in Commands : WF_vars(CommandStep(c))

Spec == Init /\ [][Next]_vars /\ Fairness

-----------------------------------------------------------------------------
(* Properties *)

TypeOK ==
  /\ now \in Times /\ audio \in [Files -> Recordings \union {None}]
  /\ arrived \subseteq Recordings /\ grown \subseteq arrived /\ notes \subseteq Notes /\ minutes \subseteq notes
  /\ transcripts \subseteq Ids /\ markers \subseteq Files
  /\ queue \in Seq([id : Ids, note : Notes, file : Files])
  /\ ingested \subseteq Ids /\ lockDir \in BOOLEAN
  /\ pc \in [Commands -> {"idle", "discover", "work", "find", "name", "write",
                          "rename", "queue", "log", "done"}]
  /\ \A c \in Commands : DOMAIN mem[c] = DOMAIN Blank
  /\ queued \subseteq Recordings /\ exposed \subseteq Recordings /\ raced \subseteq Ids

(* Polls queue a recording once, whatever format of it is still there and  *)
(* however often they are triggered and meet, unless a backfill or `stop`  *)
(* took it up as well, or a poll died or failed between the queue and the  *)
(* ingested log.                                                           *)
QueuedOnce ==
  [][\A c \in Pollers : Enqueue(c) => mem[c].take \notin queued \/ mem[c].take \in exposed]_vars

(* A summary that is in a note stays there: no command that creates a note *)
(* overwrites one, unless it looked for the note together with another.    *)
MinutesSurvive ==
  [][\A n \in minutes : n \in minutes' \/ n.id \in raced']_vars

(* A meeting has one note, however many commands file recordings under it, *)
(* unless two of them looked for the note at once or the user moved it.    *)
OneNotePerMeeting ==
  \A n, o \in notes : n.id = o.id => n = o \/ n.id \in raced

(* A recording that a poll picks up while its meeting is the event near    *)
(* the present is filed under that meeting, however long the poll takes.   *)
FiledUnderItsMeeting ==
  \A c \in Pollers : pc[c] \in {"queue", "log"} /\ mem[c].at = TakenAt[mem[c].take] =>
    mem[c].note.id = IF EventAt[mem[c].at] = None THEN mem[c].take ELSE EventAt[mem[c].at]

(* Filing, whoever does it: one note for a meeting, and the right one.     *)
FiledInItsNote == OneNotePerMeeting /\ FiledUnderItsMeeting

(* A complete recording is eventually queued, whatever else in the folder  *)
(* fails every time, unless the automation's lock was left behind.         *)
StaleLock == lockDir /\ \A c \in Pollers : pc[c] = "idle"
EveryRecordingIsQueued ==
  \A r \in Recordings \ Broken : r \in grown ~> r \in queued \/ StaleLock
=============================================================================

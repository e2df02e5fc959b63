------------------------------ MODULE Pipeline ------------------------------
(***************************************************************************)
(* What the processing handler (cli._default_queue_handler, process.py,    *)
(* audio.py) does to the files of one meeting: its recordings, transcript, *)
(* mp3, note, done markers and processed-jobs log.                         *)
(*                                                                         *)
(* Handlers run in the queue worker and, with --process-now, in            *)
(* ingest-watch and backfill, which take no lock: several may be at work   *)
(* on one meeting, each at any step.  A job whose handler raised or died   *)
(* is run again.                                                           *)
(*                                                                         *)
(* A meeting may have several takes: ingest-watch gives every recording it *)
(* finds the calendar event near the present, so a meeting that was        *)
(* recorded in two parts, or a backlog ingested at once, shares one        *)
(* meeting id, hence one transcript, one mp3 and one note.                 *)
(***************************************************************************)
EXTENDS Naturals

CONSTANTS
  Takes,       \* recordings of the meeting
  Recorded,    \* their files: <<take, "wav">> and <<take, "m4a">>
  Unreadable,  \* files no tool can decode
  Handlers,    \* processes that run jobs
  InPlace,     \* does the transcriber write the transcript file itself, not
               \* a file of its own that is then renamed?
  Faults,      \* "fail": a tool or a write may fail; "crash"; "note": the
               \* user may delete the note
  None

Formats == {"wav", "m4a"}

ASSUME ConstantsAssumption ==
  /\ Recorded \subseteq Takes \X Formats
  /\ Unreadable \subseteq Recorded
  /\ None \notin Takes /\ "low" \notin Takes /\ "partial" \notin Takes
  /\ None \notin {"low", "partial"}
  /\ None \notin (Takes \union {"meeting"}) \X (Formats \union {"mp3"})
  /\ InPlace \in BOOLEAN
  /\ Faults \subseteq {"fail", "crash", "note"}

VARIABLES
  files,       \* recordings on disk
  mp3,         \* whose audio <meeting id>.mp3 holds; "low": an old one of
               \* 128 kbit/s or less
  transcript,  \* whose words <meeting id>.txt holds, or "partial", or None
  noteFile,    \* is the note in the vault?
  minutes,     \* what its summary was made from
  references,  \* the audio file its references name
  markers,     \* audio files with a .done.json beside them
  logged,      \* takes in processed_jobs.jsonl
  jobs,        \* recordings whose job is still queued, dead-lettered or retried
  pc, job, active, heard, audio  \* per handler; heard is what it summarises

meetingVars == <<files, mp3, transcript, noteFile, minutes, references, markers>>
handlerVars == <<pc, job, active, heard, audio>>
vars == <<meetingVars, logged, jobs, handlerVars>>

Wav(t) == <<t, "wav">>
M4a(t) == <<t, "m4a">>
Mp3 == <<"meeting", "mp3">>

Init ==
  /\ files = Recorded /\ mp3 \in {None, "low"} /\ transcript = None
  /\ noteFile = TRUE /\ minutes = None /\ references = None
  /\ markers = {} /\ logged = {} /\ jobs = Recorded
  /\ pc = [h \in Handlers |-> "idle"]
  /\ job = [h \in Handlers |-> None]
  /\ active = [h \in Handlers |-> None]
  /\ heard = [h \in Handlers |-> None]
  /\ audio = [h \in Handlers |-> None]

-----------------------------------------------------------------------------
Goto(h, label) == pc' = [pc EXCEPT ![h] = label]

Take(h) == job[h][1]

(* The handler returns or raises; nothing of its memory stays. *)
Leave(h) ==
  /\ Goto(h, "idle")
  /\ job' = [job EXCEPT ![h] = None]
  /\ active' = [active EXCEPT ![h] = None]
  /\ heard' = [heard EXCEPT ![h] = None]
  /\ audio' = [audio EXCEPT ![h] = None]

-----------------------------------------------------------------------------
(* Finding the input *)

Skip(h, f) ==
  /\ jobs' = jobs \ {f}
  /\ UNCHANGED <<meetingVars, logged>>

(* Mutant: a job whose recording is gone fails. *)
Resolve_Raises(h, f) ==
  /\ pc[h] = "idle" /\ f \in jobs \intersect files
  /\ job' = [job EXCEPT ![h] = f]
  /\ active' = [active EXCEPT ![h] =
                  IF Wav(f[1]) \in files THEN Wav(f[1]) ELSE M4a(f[1])]
  /\ Goto(h, "note")
  /\ UNCHANGED <<meetingVars, logged, jobs, heard, audio>>

(* The job names a recording.  If that very file is gone the job is skipped *)
(* and counts as processed; otherwise the wav of the take is preferred.     *)
Resolve(h, f) ==
  /\ pc[h] = "idle" /\ f \in jobs
  /\ \/ /\ f \notin files
        /\ Skip(h, f)
        /\ UNCHANGED handlerVars
     \/ /\ f \in files
        /\ job' = [job EXCEPT ![h] = f]
        /\ active' = [active EXCEPT ![h] =
                        IF Wav(f[1]) \in files THEN Wav(f[1]) ELSE M4a(f[1])]
        /\ Goto(h, "note")
        /\ UNCHANGED <<meetingVars, logged, jobs, heard, audio>>

(* A note that was moved is found by its meeting id; without one the job is *)
(* skipped. *)
FindNote(h) ==
  /\ pc[h] = "note"
  /\ \/ /\ noteFile /\ Goto(h, "check")
        /\ UNCHANGED <<meetingVars, logged, jobs, job, active, heard, audio>>
     \/ ~noteFile /\ Skip(h, job[h]) /\ Leave(h)

-----------------------------------------------------------------------------
(* Transcript, summary, note *)

(* Mutant: an existing transcript counts as a summarised one. *)
CheckTranscript_SkipsNote(h) ==
  /\ pc[h] = "check"
  /\ Goto(h, IF transcript = None THEN "transcribe" ELSE "convert")
  /\ UNCHANGED <<meetingVars, logged, jobs, job, active, heard, audio>>

(* Mutant: a rerun transcribes again. *)
CheckTranscript_Always(h) ==
  /\ pc[h] = "check"
  /\ Goto(h, "transcribe")
  /\ UNCHANGED <<meetingVars, logged, jobs, job, active, heard, audio>>

(* Whatever transcript is there is used, whichever run it comes from. *)
CheckTranscript(h) ==
  /\ pc[h] = "check"
  /\ Goto(h, IF transcript = None THEN "transcribe" ELSE "summarize")
  /\ UNCHANGED <<meetingVars, logged, jobs, job, active, heard, audio>>

(* The transcriber has decoded the recording; the file in the way is       *)
(* overwritten, or unlinked to make room. *)
Transcribe(h) ==
  /\ pc[h] = "transcribe" /\ active[h] \in files \ Unreadable
  /\ transcript' = IF InPlace THEN "partial" ELSE None
  /\ Goto(h, "promote")
  /\ UNCHANGED <<files, mp3, noteFile, minutes, references, markers, logged, jobs,
                 job, active, heard, audio>>

Promote(h) ==
  /\ pc[h] = "promote"
  /\ transcript' = Take(h)
  /\ Goto(h, "summarize")
  /\ UNCHANGED <<files, mp3, noteFile, minutes, references, markers, logged, jobs,
                 job, active, heard, audio>>

(* A wav that cannot be transcribed is given up for its m4a sibling. *)
TranscribeFails(h) ==
  LET m4a == M4a(Take(h)) IN
  /\ pc[h] \in {"transcribe"} \union IF InPlace THEN {"promote"} ELSE {}
  /\ "fail" \in Faults \/ active[h] \notin files \ Unreadable
  /\ \/ /\ active[h] = Wav(Take(h)) /\ m4a \in files
        /\ active' = [active EXCEPT ![h] = m4a]
        /\ Goto(h, "transcribe")
        /\ UNCHANGED <<job, heard, audio>>
     \/ /\ active[h] = m4a \/ m4a \notin files
        /\ Leave(h)
  /\ UNCHANGED <<meetingVars, logged, jobs>>

(* The transcript is read, then sent to the model.  One that is gone again *)
(* makes the handler raise. *)
Summarize(h) ==
  /\ pc[h] = "summarize"
  /\ \/ /\ transcript # None
        /\ heard' = [heard EXCEPT ![h] = transcript]
        /\ Goto(h, "patch")
        /\ UNCHANGED <<job, active, audio>>
     \/ transcript = None /\ Leave(h)
  /\ UNCHANGED <<meetingVars, logged, jobs>>

(* Each run asks for a summary of its own and patches the note with the    *)
(* answer: `minutes` is not the answer but the transcript it was made from.*)
Patch(h) ==
  /\ pc[h] = "patch"
  /\ \/ /\ noteFile
        /\ minutes' = heard[h]
        /\ Goto(h, "convert")
        /\ UNCHANGED <<job, active, heard, audio>>
     \/ ~noteFile /\ Leave(h) /\ UNCHANGED minutes
  /\ UNCHANGED <<files, mp3, transcript, noteFile, references, markers, logged, jobs>>

-----------------------------------------------------------------------------
(* Audio *)

KeepM4a(h) ==
  /\ audio' = [audio EXCEPT ![h] = M4a(Take(h))]
  /\ Goto(h, "references")
  /\ UNCHANGED <<job, active, heard>>

(* An m4a is the canonical audio as it is, and the wav beside one is       *)
(* dropped.  A wav without one is to be encoded, unless the meeting has an *)
(* mp3 of more than 128 kbit/s already: then it is only to be deleted.     *)
Convert(h) ==
  LET wav == Wav(Take(h))
      m4a == M4a(Take(h))
  IN
  /\ pc[h] = "convert"
  /\ \/ /\ active[h] = m4a
        /\ KeepM4a(h) /\ UNCHANGED files
     \/ /\ active[h] = wav /\ m4a \in files
        /\ files' = files \ {wav}
        /\ KeepM4a(h)
     \/ /\ active[h] = wav /\ m4a \notin files /\ wav \in files
        /\ Goto(h, IF mp3 \in Takes THEN "unlink" ELSE "encode")
        /\ UNCHANGED <<files, job, active, heard, audio>>
     \/ /\ active[h] = wav /\ m4a \notin files /\ wav \notin files
        /\ Leave(h) /\ UNCHANGED files
  /\ UNCHANGED <<mp3, transcript, noteFile, minutes, references, markers, logged, jobs>>

(* ffmpeg has opened the wav, encodes it to a temp file, and that replaces *)
(* the mp3. *)
Encode(h) ==
  /\ pc[h] = "encode" /\ active[h] \notin Unreadable
  /\ mp3' = Take(h)
  /\ Goto(h, "unlink")
  /\ UNCHANGED <<files, transcript, noteFile, minutes, references, markers, logged,
                 jobs, job, active, heard, audio>>

(* Mutants: the canonical audio is not remembered; the references of a     *)
(* converted wav are not updated. *)
DeleteWav_ForgetsAudio(h) ==
  /\ pc[h] = "unlink" /\ active[h] \in files
  /\ files' = files \ {active[h]}
  /\ Goto(h, "references")
  /\ UNCHANGED <<mp3, transcript, noteFile, minutes, references, markers, logged, jobs,
                 job, active, heard, audio>>

DeleteWav_ToMark(h) ==
  /\ pc[h] = "unlink" /\ active[h] \in files
  /\ files' = files \ {active[h]}
  /\ audio' = [audio EXCEPT ![h] = Mp3]
  /\ Goto(h, "mark")
  /\ UNCHANGED <<mp3, transcript, noteFile, minutes, references, markers, logged, jobs,
                 job, active, heard>>

(* A wav another handler has deleted meanwhile makes this one raise. *)
DeleteWav(h) ==
  /\ pc[h] = "unlink"
  /\ \/ /\ active[h] \in files
        /\ files' = files \ {active[h]}
        /\ audio' = [audio EXCEPT ![h] = Mp3]
        /\ Goto(h, "references")
        /\ UNCHANGED <<job, active, heard>>
     \/ active[h] \notin files /\ Leave(h) /\ UNCHANGED files
  /\ UNCHANGED <<mp3, transcript, noteFile, minutes, references, markers, logged, jobs>>

-----------------------------------------------------------------------------
(* Book-keeping *)

References(h) ==
  /\ pc[h] = "references"
  /\ \/ /\ noteFile
        /\ references' = audio[h]
        /\ Goto(h, "mark")
        /\ UNCHANGED <<job, active, heard, audio>>
     \/ ~noteFile /\ Leave(h) /\ UNCHANGED references
  /\ UNCHANGED <<files, mp3, transcript, noteFile, minutes, markers, logged, jobs>>

(* Writes the marker anew if it is there, with the time of this run.       *)
Mark(h) ==
  /\ pc[h] = "mark"
  /\ markers' = markers \union {audio[h]}
  /\ Goto(h, "log")
  /\ UNCHANGED <<files, mp3, transcript, noteFile, minutes, references, logged, jobs,
                 job, active, heard, audio>>

Log(h) ==
  /\ pc[h] = "log"
  /\ logged' = logged \union {Take(h)}
  /\ Goto(h, "settle")
  /\ UNCHANGED <<meetingVars, jobs, job, active, heard, audio>>

(* The handler has returned: its caller takes the job off the queue, or    *)
(* notes the recording as ingested. *)
Settle(h) ==
  /\ pc[h] = "settle"
  /\ jobs' = jobs \ {job[h]}
  /\ Leave(h)
  /\ UNCHANGED <<meetingVars, logged>>

-----------------------------------------------------------------------------
(* Faults *)

(* Mutant: the wav is deleted even if ffmpeg fails. *)
StepFails_DeletesWav(h) ==
  /\ pc[h] \notin {"idle", "transcribe", "promote", "settle"}
  /\ "fail" \in Faults
  /\ files' = IF pc[h] = "encode" THEN files \ {active[h]} ELSE files
  /\ Leave(h)
  /\ UNCHANGED <<mp3, transcript, noteFile, minutes, references, markers, logged, jobs>>

(* A tool or a write fails and the handler raises (TranscribeFails apart): *)
(* the job is kept for another run. *)
StepFails(h) ==
  /\ pc[h] \notin {"idle", "transcribe", "promote", "settle"}
  /\ "fail" \in Faults \/ (pc[h] = "encode" /\ active[h] \in Unreadable)
  /\ Leave(h)
  /\ UNCHANGED <<meetingVars, logged, jobs>>

Crash(h) ==
  /\ "crash" \in Faults /\ pc[h] # "idle"
  /\ Leave(h)
  /\ UNCHANGED <<meetingVars, logged, jobs>>

DeleteNote ==
  /\ "note" \in Faults /\ noteFile
  /\ noteFile' = FALSE
  /\ UNCHANGED <<files, mp3, transcript, minutes, references, markers, logged, jobs,
                 handlerVars>>

-----------------------------------------------------------------------------
Work(h) ==
  \/ FindNote(h) \/ CheckTranscript(h) \/ Transcribe(h) \/ Promote(h)
  \/ TranscribeFails(h) \/ Summarize(h) \/ Patch(h) \/ Convert(h) \/ Encode(h)
  \/ DeleteWav(h) \/ References(h) \/ Mark(h) \/ Log(h) \/ Settle(h)

Next ==
  \/ \E h \in Handlers : Work(h) \/ StepFails(h) \/ Crash(h)
  \/ \E h \in Handlers, f \in Recorded : Resolve(h, f)
  \/ DeleteNote

Spec == Init /\ [][Next]_vars

(* Jobs are retried, and a handler that has begun runs on. *)
FairSpec ==
  /\ Spec
  /\ \A h \in Handlers : WF_vars(Work(h))
  /\ \A f \in Recorded : WF_vars(\E h \in Handlers : Resolve(h, f))

-----------------------------------------------------------------------------
(* Properties *)

Labels == {"idle", "note", "check", "transcribe", "promote", "summarize", "patch",
           "convert", "encode", "unlink", "references", "mark", "log", "settle"}

Texts == Takes \union {"partial", None}

AudioFiles == {M4a(t) : t \in Takes} \union {Mp3}

(* Every file holds what it can hold; a handler past Resolve has a job and *)
(* works on a recording of its take; from "references" on it knows the     *)
(* canonical audio. *)
TypeOK ==
  /\ files \subseteq Recorded /\ jobs \subseteq Recorded
  /\ mp3 \in Takes \union {"low", None}
  /\ transcript \in Texts /\ minutes \in Texts
  /\ noteFile \in BOOLEAN /\ references \in AudioFiles \union {None}
  /\ markers \subseteq AudioFiles /\ logged \subseteq Takes
  /\ pc \in [Handlers -> Labels]
  /\ job \in [Handlers -> Recorded \union {None}]
  /\ active \in [Handlers -> (Takes \X Formats) \union {None}]
  /\ heard \in [Handlers -> Texts]
  /\ audio \in [Handlers -> AudioFiles \union {None}]
  /\ \A h \in Handlers : pc[h] # "idle" =>
       job[h] \in Recorded /\ active[h] \in {Wav(Take(h)), M4a(Take(h))}
  /\ \A h \in Handlers :
       /\ pc[h] \in {"encode", "unlink"} => active[h] = Wav(Take(h))
       /\ pc[h] \in {"references", "mark"} => audio[h] \in AudioFiles

(* The audio of every take can still be heard, in some file.               *)
AudioSurvives ==
  \A t \in Takes : mp3 = t \/ \E f \in files \ Unreadable : f[1] = t

(* A wav is only ever deleted beside an m4a of the same take or for an mp3 *)
(* of this meeting made from a take, and recordings vanish no other way.   *)
DeletedOnlyAfterArchive ==
  \A f \in Recorded \ files : M4a(f[1]) \in files \/ mp3 \in Takes

(* A take in the processed-jobs log has a done marker, and its meeting's   *)
(* note, unless deleted, has minutes and references.                       *)
LoggedMeansComplete ==
  \A t \in logged :
    /\ M4a(t) \in markers \/ Mp3 \in markers
    /\ noteFile => minutes # None /\ references # None

(* Once a job is off the books, the note has minutes, unless the user      *)
(* deleted it: however its handlers failed or died, a recording that can   *)
(* no longer be processed had been summarised.                             *)
SettledMeansPatched == jobs # Recorded => minutes # None \/ ~noteFile

(* A job that is off the books was carried out: none was skipped whose     *)
(* processing had not reached the log, after the references and the marker.*)
SettledMeansDone == \A f \in Recorded \ jobs : f[1] \in logged

(* With one take and one handler at a time, a job run again after it was   *)
(* logged uses what the earlier runs made: it transcribes and encodes      *)
(* nothing again, whichever of them failed or died, and the note keeps its *)
(* audio. (The summary is asked for again, and the note gets the new       *)
(* answer; the marker is written again with the new time.)                 *)
RerunReusesFiles == [][logged # {} => UNCHANGED <<mp3, transcript, references>>]_vars

(* A tool, a write or the process fails, and not for want of a readable    *)
(* recording. *)
Misfortune(h) ==
  \/ Crash(h)
  \/ /\ pc[h] \in {"transcribe", "encode"} => active[h] \in files \ Unreadable
     /\ StepFails(h) \/ TranscribeFails(h)

(* Once nothing fails any more, every job is done or skipped in the end,   *)
(* from whatever the failures have left behind.                            *)
EveryJobIsSettled ==
  <>[][\A h \in Handlers : ~Misfortune(h)]_vars =>
    \A f \in Recorded : f \in jobs ~> f \notin jobs
=============================================================================

----------------------------- MODULE Artifacts -----------------------------
(***************************************************************************)
(* The text artifacts of one meeting, <vault>/_artifacts/<meeting id>/,    *)
(* and the programs that rewrite them file by file, taking no lock:        *)
(*                                                                         *)
(*   - the processing handler with the sidecar backend (transcription.py): *)
(*     a diarized transcript, a plain baseline beside it, a plain          *)
(*     transcript alone when the sidecar fails;                            *)
(*   - diarization_catchup.py --replace-active, which diarizes old         *)
(*     recordings and makes the result the meeting's transcript;           *)
(*   - diarization_minutes_refresh.py --apply-diarized, which rewrites the *)
(*     minutes from the diarized transcript;                               *)
(*   - prune_orphan_artifacts.py --apply, which deletes the directories of *)
(*     meetings without a note.                                            *)
(*                                                                         *)
(* A program's work on the directory is a script: a sequence of writes,    *)
(* copies and moves, each leaving a partial or no file until it is done.   *)
(***************************************************************************)
EXTENDS Naturals, Sequences

CONSTANTS
  Settings,   \* the settings a behaviour may run under, each a set of
              \* "sidecar", "whisperx": the backend, else whisper;
              \* "inplace": the recording is named by the meeting id, as `stop`
              \* leaves it; "keep": MEETINGCTL_DIARIZATION_KEEP_BASELINE;
              \* "fallback": MEETINGCTL_TRANSCRIPTION_FALLBACK_TO_WHISPER
  Faults,     \* "fail": a tool fails or times out, a write raises; "crash";
              \* "missing": the sidecar leaves a file out; "note": the user
              \* moves or deletes the note
  MaxFaults,  \* how many of them in one behaviour
  None

ASSUME ConstantsAssumption ==
  /\ Settings \subseteq SUBSET {"sidecar", "whisperx", "inplace", "keep", "fallback"}
  /\ Faults \subseteq {"fail", "crash", "missing", "note"} /\ MaxFaults \in Nat
  /\ None \notin {"plain", "labelled", "partial", "meetings", "elsewhere"}

(* <id>.txt, <id>.diarized.txt, <id>.basic.txt, <recording>.txt and the    *)
(* same with .json; the .srt, which no program reads, goes wherever the    *)
(* .json does, one step before it, and is left out.  "plain" text has no   *)
(* speaker labels.                                                         *)
Kinds == {"txt", "json"}
Names == {"active", "diarized", "basic", "raw"}
Contents == {"plain", "labelled", "partial", None}
Whole == {"plain", "labelled"}
Writers == {"handler", "catchup"}
Programs == Writers \union {"refresh", "prune"}

VARIABLES
  setting,    \* one of Settings
  dir,        \* [Names \X Kinds -> Contents]
  sidecar,    \* per writer: what the sidecar run it is adopting left behind
  script,     \* per writer: the operations still to do
  held,       \* per writer: what the file being written will hold, or None
  pc,         \* per program
  heard,      \* what the handler's or the refresh's summary was made from
  note,       \* where the meeting's note is: "meetings", "elsewhere", or None
  minutes,    \* what the summary in the note was made from
  missed,     \* history: was the note ever where a search could not find it:
              \* gone, or moved while the search was going on?
  disturbed,  \* history: was a script ever cut short, or begun or read while
              \* another writer was at work?
  faults      \* how many faults have happened

disk == <<dir, sidecar, script, held>>
history == <<missed, disturbed>>
vars == <<setting, disk, pc, heard, note, minutes, history, faults>>

Init ==
  /\ setting \in Settings
  /\ dir = [f \in Names \X Kinds |-> None]
  /\ sidecar = [p \in Writers |-> {}]
  /\ script = [p \in Writers |-> <<>>] /\ held = [p \in Writers |-> None]
  /\ pc = [p \in Programs |-> "idle"] /\ heard = [p \in Programs |-> None]
  /\ note = "meetings" /\ minutes = None /\ missed = FALSE /\ disturbed = FALSE /\ faults = 0

-----------------------------------------------------------------------------
(* Scripts *)

Goto(p, label) == pc' = [pc EXCEPT ![p] = label]

(* One operation per kind, in the order the code treats them. *)
PerKind(Op(_)) == <<Op("txt"), Op("json")>>

(* Operations.  "need" raises when its source is missing, "copy" then does *)
(* nothing, "backup" does nothing either when its target exists, "move"    *)
(* renames, "write" is a transcriber's output. *)
Op(how, from, to, k) == [how |-> how, from |-> from, to |-> <<to, k>>, kind |-> k]

(* whisper writes <recording>.* into the artifact directory and the files  *)
(* are renamed to the target's name, if it differs.                        *)
Stem == IF "inplace" \in setting THEN "active" ELSE "raw"
Whisper(target) ==
  LET Write(k) == Op("write", "plain", Stem, k)
      Move(k) == Op("move", Stem, target, k)
  IN IF Stem = target THEN PerKind(Write) ELSE PerKind(Write) \o PerKind(Move)

(* The sidecar's files become the diarized and the active transcript. *)
Adopt ==
  LET Both(k) == <<Op("need", "sidecar", "diarized", k), Op("need", "sidecar", "active", k)>>
  IN Both("txt") \o Both("json")

Collect == LET Copy(k) == Op("copy", "sidecar", "diarized", k) IN PerKind(Copy)

(* Mutant: the backup comes after the replacement. *)
Promote_TooLate ==
  LET Backup(k) == Op("backup", "active", "basic", k)
      Copy(k) == Op("copy", "diarized", "active", k)
  IN PerKind(Copy) \o PerKind(Backup)

(* _promote_diarized_to_active *)
Promote ==
  LET Backup(k) == Op("backup", "active", "basic", k)
      Copy(k) == Op("copy", "diarized", "active", k)
  IN PerKind(Backup) \o PerKind(Copy)

Diarized == \A k \in Kinds : dir[<<"diarized", k>>] # None

(* Another writer is at work on the meeting. *)
Beside(p) == \E q \in Writers \ {p} : pc[q] # "idle"

Begin(p, label, ops, left) ==
  /\ Goto(p, label)
  /\ sidecar' = [sidecar EXCEPT ![p] = left]
  /\ script' = [script EXCEPT ![p] = ops]
  /\ disturbed' = (disturbed \/ Beside(p) \/ held[p] # None)
  /\ held' = [held EXCEPT ![p] = None]
  /\ UNCHANGED <<setting, dir, heard, note, minutes, missed>>

Source(p, op) ==
  CASE op.from = "plain" -> "plain"
    [] op.from = "sidecar" -> IF op.kind \in sidecar[p] THEN "labelled" ELSE None
    [] OTHER -> dir[<<op.from, op.kind>>]

Idle(p, op) ==
  \/ op.how \in {"copy", "backup", "move"} /\ Source(p, op) = None
  \/ op.how = "backup" /\ dir[op.to] # None

(* The target is truncated, or unlinked before a rename. *)
Open(p) ==
  LET op == Head(script[p]) IN
  /\ script[p] # <<>> /\ held[p] = None
  /\ \/ /\ Idle(p, op)
        /\ script' = [script EXCEPT ![p] = Tail(@)]
        /\ UNCHANGED <<dir, held>>
     \/ /\ ~Idle(p, op) /\ Source(p, op) # None
        /\ dir' = [dir EXCEPT ![op.to] = IF op.how = "move" THEN None ELSE "partial"]
        /\ held' = [held EXCEPT ![p] = Source(p, op)]
        /\ UNCHANGED script
  /\ UNCHANGED <<setting, sidecar, pc, heard, note, minutes, history, faults>>

(* The file is whole; one that was deleted meanwhile stays deleted. *)
Close(p) ==
  LET op == Head(script[p])
      there == op.how = "move" \/ dir[op.to] # None
      from == <<op.from, op.kind>>
  IN /\ script[p] # <<>> /\ held[p] # None
     /\ dir' = [f \in Names \X Kinds |->
                  IF f = op.to /\ there THEN held[p]
                  ELSE IF op.how = "move" /\ f = from THEN None ELSE dir[f]]
     /\ script' = [script EXCEPT ![p] = Tail(@)]
     /\ held' = [held EXCEPT ![p] = None]
     /\ UNCHANGED <<setting, sidecar, pc, heard, note, minutes, history, faults>>

Fault(kind) == kind \in Faults /\ faults < MaxFaults /\ faults' = faults + 1

(* The sidecar's container ran: it left its files, or all but one. *)
Leaves(left) ==
  \/ left = Kinds /\ UNCHANGED faults
  \/ Fault("missing") /\ \E k \in Kinds : left = Kinds \ {k}

-----------------------------------------------------------------------------
(* The handler: the runner the settings ask for, inside run_processing.    *)

Process ==
  /\ pc["handler"] = "idle" /\ note # None
  /\ IF dir[<<"active", "txt">>] # None
     THEN Begin("handler", "summarise", <<>>, {})
     ELSE IF "sidecar" \in setting
     THEN Begin("handler", "sidecar", <<>>, {})
     ELSE Begin("handler", IF "whisperx" \in setting THEN "whisperx" ELSE "whisper",
                Whisper("active"), {})
  /\ UNCHANGED faults

(* The sidecar returned a manifest with labels; or, after the fallback, it *)
(* labelled the segments of the plain transcript.                          *)
Diarize ==
  \E left \in SUBSET Kinds :
    /\ Leaves(left)
    /\ \/ pc["handler"] = "sidecar" /\ Begin("handler", "adopt", Adopt, left)
       \/ /\ pc["handler"] = "rediarize" /\ dir[<<"active", "json">>] # None
          /\ Begin("handler", "readopt", Adopt, left)

Done(p, label) == pc[p] = label /\ script[p] = <<>>

(* _write_baseline, once. *)
Baseline ==
  /\ Done("handler", "adopt") /\ "keep" \in setting /\ dir[<<"basic", "txt">>] = None
  /\ Begin("handler", "baseline", Whisper("basic"), {})
  /\ UNCHANGED faults

Transcribed ==
  /\ \/ Done("handler", "adopt") /\ ~("keep" \in setting /\ dir[<<"basic", "txt">>] = None)
     \/ Done("handler", "baseline") \/ Done("handler", "readopt")
     \/ Done("handler", "rediarize") /\ dir[<<"active", "json">>] = None
  /\ Begin("handler", "summarise", <<>>, {})
  /\ UNCHANGED faults

(* A file of the sidecar's is missing. *)
AdoptRaises ==
  LET op == Head(script["handler"]) IN
  /\ script["handler"] # <<>> /\ op.how = "need" /\ Source("handler", op) = None
  /\ UNCHANGED faults

(* Mutant: the rest of the script is still carried out. *)
Abandon_Resumes(p, label) ==
  /\ Goto(p, label)
  /\ held' = [held EXCEPT ![p] = None]
  /\ disturbed' = (disturbed \/ script[p] # <<>>)
  /\ UNCHANGED <<setting, dir, sidecar, script, heard, note, minutes, missed>>

(* What the writer was at is cut short. *)
Abandon(p, label) ==
  /\ Goto(p, label)
  /\ script' = [script EXCEPT ![p] = <<>>]
  /\ held' = [held EXCEPT ![p] = None]
  /\ disturbed' = (disturbed \/ script[p] # <<>>)
  /\ sidecar' = [sidecar EXCEPT ![p] = {}]
  /\ UNCHANGED <<setting, dir, heard, note, minutes, missed>>

(* Mutant: the handler goes on without a transcript. *)
SidecarFails_GoesOn ==
  /\ pc["handler"] \in {"sidecar", "adopt"}
  /\ Fault("fail") \/ AdoptRaises
  /\ Abandon("handler", "summarise")

(* The sidecar, or the adoption of its files, raised: whisper does it.     *)
SidecarFails ==
  /\ pc["handler"] \in {"sidecar", "adopt"}
  /\ Fault("fail") \/ AdoptRaises
  /\ \/ "fallback" \in setting /\ Begin("handler", "whisper", Whisper("active"), {})
     \/ "fallback" \notin setting /\ Abandon("handler", "idle")

(* With the sidecar, it is run once more, on the transcript's segments.    *)
WhisperDone ==
  /\ Done("handler", "whisper") \/ Done("handler", "whisperx")
  /\ dir[<<"active", "txt">>] # None
  /\ Goto("handler", IF "sidecar" \in setting THEN "rediarize" ELSE "summarise")
  /\ UNCHANGED <<setting, disk, heard, note, minutes, history, faults>>

(* It failed, or left no transcript; whisper stands in for whisperx.       *)
WhisperFails ==
  LET at == pc["handler"] IN
  /\ at \in {"whisper", "whisperx"}
  /\ \/ Fault("fail")
     \/ Done("handler", at) /\ dir[<<"active", "txt">>] = None /\ UNCHANGED faults
  /\ IF at = "whisperx" /\ "fallback" \in setting
     THEN Begin("handler", "whisper", Whisper("active"), {})
     ELSE Abandon("handler", "idle")

(* The baseline and the second sidecar run are best effort. *)
BestEffortFails ==
  /\ pc["handler"] \in {"baseline", "rediarize", "readopt"}
  /\ Fault("fail") \/ AdoptRaises
  /\ Abandon("handler", "summarise")

(* A program reads one transcript; one that is being written may be heard  *)
(* in part.                                                                *)
Hear(p, name) ==
  /\ heard' = [heard EXCEPT ![p] = dir[<<name, "txt">>]]
  /\ disturbed' = (disturbed \/ \E q \in Writers \ {p} : script[q] # <<>>)

(* The transcript that is not there makes the handler raise. *)
Summarise ==
  /\ pc["handler"] = "summarise"
  /\ \/ /\ dir[<<"active", "txt">>] # None
        /\ Hear("handler", "active") /\ Goto("handler", "patch")
     \/ /\ dir[<<"active", "txt">>] = None
        /\ Goto("handler", "idle") /\ UNCHANGED <<heard, disturbed>>
  /\ UNCHANGED <<setting, disk, note, minutes, missed, faults>>

(* The handler and the refresh write what they heard into the note; a note *)
(* that is gone makes them raise. *)
PatchNote(p) ==
  /\ pc[p] = "patch"
  /\ Goto(p, "idle")
  /\ minutes' = IF note = None THEN minutes ELSE heard[p]
  /\ heard' = [heard EXCEPT ![p] = None]
  /\ UNCHANGED <<setting, disk, note, history, faults>>

-----------------------------------------------------------------------------
(* diarization_catchup.run with --replace-active, for this recording.      *)

Catchup ==
  /\ pc["catchup"] = "idle"
  /\ IF Diarized THEN Begin("catchup", "promote", Promote, {})
                 ELSE Begin("catchup", "sidecar", <<>>, {})
  /\ UNCHANGED faults

Collected ==
  /\ pc["catchup"] = "sidecar"
  /\ \E left \in SUBSET Kinds : Leaves(left) /\ Begin("catchup", "collect", Collect, left)

PromoteCollected ==
  /\ Done("catchup", "collect")
  /\ IF "txt" \in sidecar["catchup"] /\ Diarized
     THEN Begin("catchup", "promote", Promote, {})
     ELSE Begin("catchup", "idle", <<>>, {})
  /\ UNCHANGED faults

CatchupDone ==
  /\ Done("catchup", "promote")
  /\ Goto("catchup", "idle")
  /\ UNCHANGED <<setting, disk, heard, note, minutes, history, faults>>

CatchupFails ==
  /\ pc["catchup"] # "idle" /\ Fault("fail")
  /\ Abandon("catchup", "idle")

-----------------------------------------------------------------------------
(* diarization_minutes_refresh.run with --apply-diarized; both transcripts *)
(* are summarised, the diarized one is used. *)

Refresh ==
  /\ pc["refresh"] = "idle" /\ note # None
  /\ dir[<<"active", "txt">>] # None /\ dir[<<"diarized", "txt">>] # None
  /\ Hear("refresh", "diarized") /\ Goto("refresh", "patch")
  /\ UNCHANGED <<setting, disk, note, minutes, missed, faults>>

(* prune_orphan_artifacts.run: the vault is searched folder by folder for  *)
(* the meeting's note, then its directory is deleted. *)
(* Mutant: only the meetings folder is searched. *)
Scan_MeetingsOnly ==
  /\ pc["prune"] = "idle"
  /\ Goto("prune", IF note = "meetings" THEN "idle" ELSE "delete")
  /\ UNCHANGED <<setting, disk, heard, note, minutes, history, faults>>

Scan ==
  /\ \/ pc["prune"] = "idle" /\ note # "meetings" /\ Goto("prune", "scan")
     \/ /\ pc["prune"] = "scan"
        /\ Goto("prune", IF note = "elsewhere" THEN "idle" ELSE "delete")
  /\ UNCHANGED <<setting, disk, heard, note, minutes, history, faults>>

Rmtree ==
  /\ pc["prune"] = "delete"
  /\ dir' = [f \in Names \X Kinds |-> None]
  /\ Goto("prune", "idle")
  /\ disturbed' = (disturbed \/ Beside("prune"))
  /\ UNCHANGED <<setting, sidecar, script, held, heard, note, minutes, missed, faults>>

-----------------------------------------------------------------------------
(* The user files the note elsewhere, deletes it, restores it.             *)

MoveNote ==
  /\ note # None /\ Fault("note")
  /\ note' = IF note = "meetings" THEN "elsewhere" ELSE "meetings"
  /\ missed' = (missed \/ pc["prune"] = "scan")
  /\ UNCHANGED <<setting, disk, pc, heard, minutes, disturbed>>

DeleteNote ==
  /\ note # None /\ Fault("note")
  /\ note' = None /\ missed' = TRUE
  /\ UNCHANGED <<setting, disk, pc, heard, minutes, disturbed>>

RestoreNote ==
  /\ note = None
  /\ note' = "elsewhere"
  /\ UNCHANGED <<setting, disk, pc, heard, minutes, history, faults>>

(* A handler or a catch-up dies; what it was writing stays as it is. *)
Crash(p) ==
  /\ pc[p] # "idle" /\ Fault("crash")
  /\ Abandon(p, "idle")

Next ==
  \/ Process \/ Diarize \/ Baseline \/ Transcribed \/ SidecarFails \/ WhisperDone
  \/ WhisperFails \/ BestEffortFails \/ Summarise
  \/ Catchup \/ Collected \/ PromoteCollected \/ CatchupDone \/ CatchupFails
  \/ Refresh \/ Scan \/ Rmtree
  \/ MoveNote \/ DeleteNote \/ RestoreNote
  \/ \E p \in {"handler", "refresh"} : PatchNote(p)
  \/ \E p \in Writers : Open(p) \/ Close(p) \/ Crash(p)

Spec == Init /\ [][Next]_vars

-----------------------------------------------------------------------------
(* Properties *)

Labels ==
  [handler |-> {"idle", "sidecar", "adopt", "baseline", "whisper", "whisperx", "rediarize", "readopt",
                "summarise", "patch"},
   catchup |-> {"idle", "sidecar", "collect", "promote"},
   refresh |-> {"idle", "patch"},
   prune |-> {"idle", "scan", "delete"}]

(* Every variable has its type; a file is only being written by a program  *)
(* that has a script, which no program has at rest. *)
TypeOK ==
  /\ setting \in Settings
  /\ dir \in [Names \X Kinds -> Contents]
  /\ sidecar \in [Writers -> SUBSET Kinds]
  /\ held \in [Writers -> Contents]
  /\ \A p \in Programs : pc[p] \in Labels[p] /\ heard[p] \in Contents
  /\ note \in {"meetings", "elsewhere", None} /\ minutes \in Contents
  /\ {missed, disturbed} \subseteq BOOLEAN /\ faults \in 0..MaxFaults
  /\ \A p \in Writers : /\ held[p] # None => script[p] # <<>>
                        /\ script[p] # <<>> => pc[p] \notin {"idle", "sidecar", "rediarize"}

(* When the handler goes on to summarise, the meeting has its transcript:  *)
(* whatever failed on the way, and whoever else wrote to the directory     *)
(* meanwhile (except for the pruning of a meeting whose note was missing). *)
TranscriptIsThere ==
  pc["handler"] = "summarise" /\ ~missed => dir[<<"active", "txt">>] # None

(* The catch-up replaces a plain transcript only when a whole plain copy   *)
(* is in place as .basic, unless it worked beside a handler or was cut     *)
(* short.                                                                  *)
BaselineKept ==
  [][\A k \in Kinds :
       /\ pc["catchup"] = "promote"
       /\ dir[<<"active", k>>] = "plain" /\ dir'[<<"active", k>>] \in {"partial", "labelled"}
       => disturbed \/ dir[<<"basic", k>>] = "plain"]_vars

(* At rest, the files of the transcript tell the same: all plain or  *)
(* all with speakers, as far as they exist and nothing was cut short or    *)
(* overlapped.                                                             *)
ActiveAgrees ==
  (\A p \in Writers : pc[p] = "idle") /\ ~disturbed =>
    \A k, l \in Kinds : {dir[<<"active", k>>], dir[<<"active", l>>]} # Whole

(* The active transcript can be relied on: by the handler, and at rest.    *)
TranscriptAgrees == TranscriptIsThere /\ ActiveAgrees

(* The artifacts of a meeting are deleted only if a search of the vault    *)
(* could really miss its note. *)
PruneSparesNotes ==
  [][dir[<<"active", "txt">>] # None /\ pc["prune"] = "delete" /\ pc'["prune"] = "idle"
       => missed]_vars
=============================================================================

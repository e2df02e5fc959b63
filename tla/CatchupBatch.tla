---------------------------- MODULE CatchupBatch ----------------------------
(***************************************************************************)
(* One run of diarization_catchup over a list of recordings: which meeting *)
(* each belongs to, which notes it writes, which recordings are skipped,   *)
(* and where the run ends. What it does to the files of one meeting is in  *)
(* Artifacts.                                                              *)
(***************************************************************************)
EXTENDS Listing

CONSTANTS
  None,        \* no meeting, no time, no path
  Tolerance    \* between a recording's time and the start of its note

(* A variant of a recording is [family, ext, mtime]. One of each family is *)
(* taken, a wav before an m4a, and they are worked on oldest first.        *)
Collapsed(found) ==
  {f \in found : f.ext = "m4a" => \A g \in found : g.family = f.family => g.ext = "m4a"}
InOrder(chosen) ==
  Listed(chosen, {p \in chosen \X chosen :
                    Precedes(<<p[1].mtime, p[1].family>>, <<p[2].mtime, p[2].family>>)})

Path(f) == <<f.family, f.ext>>

(* A note is [meeting, start, audio], in the order the vault is scanned;   *)
(* of two that name one recording the later counts.                        *)
ByAudio(f, notes) ==
  LET naming == {i \in DOMAIN notes : notes[i].meeting # None /\ notes[i].audio = Path(f)}
  IN  IF naming = {} THEN None
      ELSE notes[CHOOSE i \in naming : \A j \in naming : j <= i].meeting

Near(f, note) ==
  /\ note.meeting # None /\ note.start # None /\ f.taken # None
  /\ note.start - f.taken \in -Tolerance..Tolerance
ByStart(f, notes) ==
  LET near == {i \in DOMAIN notes : Near(f, notes[i])}
  IN  IF Cardinality(near) = 1 THEN notes[CHOOSE i \in near : TRUE].meeting ELSE None

(* The marker, the note that names the file, the only note of that time;   *)
(* a recording of none of them gets a note, and a meeting, of its own: the *)
(* id is made from its name and the start the note service infers for it,  *)
(* from the name where it can and from the file's dates otherwise. Such a  *)
(* note names no audio, and is not written again once it is there.         *)
Own(f) == <<"new", f.family>>
MeetingOf(f, notes) ==
  CASE f.marker # None -> f.marker
    [] f.marker = None /\ ByAudio(f, notes) # None -> ByAudio(f, notes)
    [] f.marker = None /\ ByAudio(f, notes) = None /\ ByStart(f, notes) # None ->
         ByStart(f, notes)
    [] OTHER -> Own(f)

OwnNote(f) == [meeting |-> Own(f), start |-> f.inferred, audio |-> None]
Written(f, notes) ==
  IF MeetingOf(f, notes) = Own(f) /\ \A i \in DOMAIN notes : notes[i].meeting # Own(f)
    THEN <<OwnNote(f)>> ELSE << >>

(* What is recognised in the output of a failed sidecar, by the first rule *)
(* that matches; the first two concern every recording and stop the run.   *)
Rules == <<"onepassword", "docker", "lightning">>
Issue(matched) ==
  LET hits == {i \in DOMAIN Rules : Rules[i] \in matched}
  IN  IF hits = {} THEN "sidecar_failure"
      ELSE Rules[CHOOSE i \in hits : \A j \in hits : i <= j]

(* Mutant: every failure that is recognised stops the run. *)
StopsTheRun_AnyRule(issue) == \E i \in DOMAIN Rules : issue = Rules[i]

StopsTheRun(issue) == issue \in {"onepassword", "docker"}

(* env: `transcribed`, the meetings with a transcript to start from, and   *)
(* `require`, whether one is needed. sidecar: for each family whether the  *)
(* sidecar does it, what a failure's output matches, and what `raises`,    *)
(* which nothing catches: "stat" when the files are sorted, "note" when    *)
(* its note is written, "copies" before the three files are in the         *)
(* meeting's folder, "promotion" after, "none" if nothing does.            *)
Outcome(f, done, notes, env, sidecar) ==
  LET m == MeetingOf(f, notes)
      end == sidecar[f.family]
      noted == m = Own(f) => end.raises # "note"
      missing == env.require /\ m \notin env.transcribed
      last == IF ~end.ok THEN Issue(end.matched)
              ELSE IF end.raises \in {"copies", "promotion"} THEN "raised" ELSE "ok"
  IN  CASE f.short -> "short"
        [] ~f.short /\ ~noted -> "raised"
        [] ~f.short /\ noted /\ missing -> "no transcript"
        [] ~f.short /\ noted /\ ~missing /\ m \in done ->
             IF end.raises = "promotion" THEN "raised" ELSE "already"
        [] OTHER -> last

(* The run after one more recording. The look-up of notes is made before   *)
(* the first: the notes it writes are for the next run to find.            *)
Process(before, f, notes, env, sidecar) ==
  LET result == Outcome(f, before.done, notes, env, sidecar)
      raises == sidecar[f.family].raises
      diarized == result = "ok" \/ (result = "raised" /\ raises = "promotion")
      unwritten == result = "short" \/ (result = "raised" /\ raises = "note")
  IN  IF before.stopped THEN before
      ELSE [done |-> IF diarized THEN before.done \cup {MeetingOf(f, notes)} ELSE before.done,
            written |-> before.written \o IF unwritten THEN << >> ELSE Written(f, notes),
            results |-> IF result = "raised" THEN before.results
                        ELSE Append(before.results, result),
            stopped |-> result = "raised" \/ StopsTheRun(result)]

Run(files, notes, diarized, env, sidecar) ==
  LET lost == \E n \in DOMAIN files : sidecar[files[n].family].raises = "stat"
      state[n \in 0..Len(files)] ==
        IF n = 0 THEN [done |-> diarized, written |-> << >>, results |-> << >>, stopped |-> lost]
        ELSE Process(state[n - 1], files[n], notes, env, sidecar)
  IN  state[Len(files)]

-----------------------------------------------------------------------------
(* A recording is put with a meeting only on evidence: its marker, a note  *)
(* that names this very file, or its time when that fits one note only. Of *)
(* two notes that fit it takes neither, and makes its own; a recording     *)
(* that a note names as its audio is not lost to a note of the same time.  *)
FiledOnEvidence(f, notes) ==
  LET m == MeetingOf(f, notes)
      named == \E i \in DOMAIN notes : notes[i].meeting # None /\ notes[i].audio = Path(f)
  IN  /\ f.marker # None => m = f.marker
      /\ f.marker = None /\ named =>
           \E i \in DOMAIN notes : notes[i].audio = Path(f) /\ m = notes[i].meeting
      /\ f.marker = None /\ ~named /\ m # Own(f) =>
           \E i \in DOMAIN notes : /\ m = notes[i].meeting
                                   /\ Near(f, notes[i])
                                   /\ \A j \in DOMAIN notes \ {i} : ~Near(f, notes[j])

(* Recordings whose times are so far apart that none fits a note that is   *)
(* written for another.                                                    *)
Apart(chosen) == \A f, g \in chosen : f # g => ~Near(f, OwnNote(g))

(* What the second of two runs owes the first, the notes being `then`: it  *)
(* puts every recording with the same meeting, leaves each meeting whose   *)
(* recording is long enough and may be used diarized, and does none twice. *)
Resumes(first, second, files, notes, then, env) ==
  LET meeting(n) == MeetingOf(files[n], notes)
      usable(n) == ~files[n].short /\ (env.require => meeting(n) \in env.transcribed)
      ran(n) == second.results[n] \notin {"short", "no transcript", "already"}
  IN  /\ \A n \in DOMAIN files : MeetingOf(files[n], then) = meeting(n)
      /\ \A n \in DOMAIN files : usable(n) => meeting(n) \in second.done
      /\ \A n \in DOMAIN files : ran(n) => meeting(n) \notin first.done
      /\ \A k, n \in DOMAIN files : k < n /\ ran(k) /\ ran(n) => meeting(k) # meeting(n)

(* A run ends early only at a failure that concerns every recording or at  *)
(* an exception, with all before it worked on and none after it.           *)
EndsForAReason(run, files, sidecar) ==
  LET at == Len(run.results)
  IN  /\ run.stopped \/ at = Len(files)
      /\ run.stopped =>
           \/ \E n \in DOMAIN files : sidecar[files[n].family].raises = "stat"
           \/ at < Len(files) /\ sidecar[files[at + 1].family].raises # "none"
           \/ at > 0 /\ \E rule \in {"onepassword", "docker"} :
                           rule \in sidecar[files[at].family].matched

(* A run that is stopped, or in which some recordings fail, is picked up   *)
(* by one that meets no failure and finds the notes the first has written, *)
(* if the recordings are apart.                                            *)
NextRunPicksUp(found, notes, env, sidecar) ==
  LET chosen == Collapsed(found)
      files == InOrder(chosen)
      well == [family \in DOMAIN sidecar |-> [ok |-> TRUE, matched |-> {}, raises |-> "none"]]
      first == Run(files, notes, {}, env, sidecar)
      then == notes \o first.written
  IN  /\ Apart(chosen) =>
           Resumes(first, Run(files, then, first.done, env, well), files, notes, then, env)
      /\ EndsForAReason(first, files, sidecar)
      /\ \A f, g \in chosen : f.family = g.family => f = g
=============================================================================

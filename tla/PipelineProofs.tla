--------------------------- MODULE PipelineProofs ---------------------------
(***************************************************************************)
(* Proofs about Pipeline: what any number of handlers, failing or dying    *)
(* anywhere, never do to the recordings and the note of a meeting.         *)
(***************************************************************************)
EXTENDS Pipeline, TLAPS

-----------------------------------------------------------------------------
(* Type correctness *)

LEMMA RecordedFiles ==
  ASSUME NEW f \in Recorded
  PROVE  /\ f[1] \in Takes /\ f[2] \in Formats
         /\ f \in {Wav(f[1]), M4a(f[1])}
BY ConstantsAssumption DEF Formats, Wav, M4a

LEMMA LeaveType ==
  ASSUME TypeOK, NEW h \in Handlers, Leave(h)
  PROVE  /\ pc' \in [Handlers -> Labels]
         /\ job' \in [Handlers -> Recorded \union {None}]
         /\ active' \in [Handlers -> (Takes \X Formats) \union {None}]
         /\ heard' \in [Handlers -> Texts]
         /\ audio' \in [Handlers -> AudioFiles \union {None}]
         /\ \A g \in Handlers : pc'[g] # "idle" =>
              /\ g # h /\ pc'[g] = pc[g] /\ job'[g] = job[g] /\ active'[g] = active[g]
              /\ heard'[g] = heard[g] /\ audio'[g] = audio[g]
BY DEF TypeOK, Leave, Goto, Labels, Texts

(* TypeOK speaks of the files of the meeting and of each handler. *)
MeetingType ==
  /\ files \subseteq Recorded /\ jobs \subseteq Recorded
  /\ mp3 \in Takes \union {"low", None}
  /\ transcript \in Texts /\ minutes \in Texts
  /\ noteFile \in BOOLEAN /\ references \in AudioFiles \union {None}
  /\ markers \subseteq AudioFiles /\ logged \subseteq Takes

HandlerType ==
  /\ pc \in [Handlers -> Labels]
  /\ job \in [Handlers -> Recorded \union {None}]
  /\ active \in [Handlers -> (Takes \X Formats) \union {None}]
  /\ heard \in [Handlers -> Texts]
  /\ audio \in [Handlers -> AudioFiles \union {None}]
  /\ \A h \in Handlers : pc[h] # "idle" =>
       job[h] \in Recorded /\ active[h] \in {Wav(Take(h)), M4a(Take(h))}
  /\ \A h \in Handlers :
       /\ pc[h] \in {"encode", "unlink"} => active[h] = Wav(Take(h))
       /\ pc[h] \in {"references", "mark"} => audio[h] \in AudioFiles

LEMMA TypeParts == TypeOK <=> MeetingType /\ HandlerType
BY DEF TypeOK, MeetingType, HandlerType

LEMMA LeaveHandler ==
  ASSUME TypeOK, NEW h \in Handlers, Leave(h)
  PROVE  HandlerType'
BY LeaveType DEF TypeOK, HandlerType, Take

(* A handler goes to another label with its job and recording kept. *)
LEMMA GotoHandler ==
  ASSUME TypeOK, NEW h \in Handlers, NEW label \in Labels, Goto(h, label), pc[h] # "idle",
         UNCHANGED <<job, active>>,
         heard' = heard \/ \E text \in Texts : heard' = [heard EXCEPT ![h] = text],
         audio' = audio \/ \E a \in AudioFiles : audio' = [audio EXCEPT ![h] = a],
         label \in {"encode", "unlink"} => active[h] = Wav(Take(h)),
         label \in {"references", "mark"} => audio'[h] \in AudioFiles
  PROVE  HandlerType'
BY DEF TypeOK, HandlerType, Take, Goto

(* What a handler past Resolve works on. *)
LEMMA AtWork ==
  ASSUME TypeOK, NEW h \in Handlers, pc[h] # "idle"
  PROVE  /\ job[h] \in Recorded /\ Take(h) \in Takes
         /\ active[h] \in {Wav(Take(h)), M4a(Take(h))}
         /\ M4a(Take(h)) \in AudioFiles /\ Mp3 \in AudioFiles
BY RecordedFiles DEF TypeOK, Take, AudioFiles

LEMMA TypeInit == Init => TypeOK
BY ConstantsAssumption DEF Init, TypeOK, Texts, Labels

LEMMA ResolveType ==
  ASSUME TypeOK, NEW h \in Handlers, NEW f \in Recorded, Resolve(h, f)
  PROVE  TypeOK'
<1>1. CASE f \notin files
  BY <1>1 DEF Resolve, Skip, TypeOK, meetingVars, handlerVars, Take
<1>2. CASE f \in files
  <2> DEFINE g == IF Wav(f[1]) \in files THEN Wav(f[1]) ELSE M4a(f[1])
  <2>1. /\ job' = [job EXCEPT ![h] = f] /\ active' = [active EXCEPT ![h] = g]
        /\ pc' = [pc EXCEPT ![h] = "note"]
        /\ UNCHANGED <<meetingVars, logged, jobs, heard, audio>>
    BY <1>2 DEF Resolve, Goto
  <2>2. g \in Takes \X Formats /\ g \in {Wav(f[1]), M4a(f[1])}
    BY RecordedFiles DEF Wav, M4a, Formats
  <2>3. MeetingType'
    BY <2>1 DEF TypeOK, MeetingType, meetingVars
  <2> HIDE DEF g
  <2>4. HandlerType'
    BY <2>1, <2>2 DEF TypeOK, HandlerType, Take, Labels
  <2> QED
    BY <2>3, <2>4, TypeParts DEF TypeOK, MeetingType, HandlerType
<1> QED
  BY <1>1, <1>2

LEMMA TypeNext == TypeOK /\ [Next]_vars => TypeOK'
<1> SUFFICES ASSUME TypeOK, [Next]_vars PROVE TypeOK'
  OBVIOUS
<1> SUFFICES MeetingType' /\ HandlerType'
  BY DEF TypeOK, MeetingType, HandlerType
<1>1. ASSUME NEW h \in Handlers, FindNote(h) PROVE MeetingType' /\ HandlerType'
  <2>1. MeetingType'
    BY <1>1 DEF FindNote, Skip, TypeOK, MeetingType, meetingVars
  <2>2. HandlerType'
    BY <1>1, LeaveHandler, GotoHandler DEF FindNote, Labels
  <2> QED
    BY <2>1, <2>2
<1>2. ASSUME NEW h \in Handlers, CheckTranscript(h) PROVE MeetingType' /\ HandlerType'
  <2>1. MeetingType'
    BY <1>2 DEF CheckTranscript, TypeOK, MeetingType, meetingVars
  <2>2. HandlerType'
    BY <1>2, GotoHandler DEF CheckTranscript, Labels
  <2> QED
    BY <2>1, <2>2
<1>3. ASSUME NEW h \in Handlers, Transcribe(h) \/ Promote(h) PROVE MeetingType' /\ HandlerType'
  <2>1. MeetingType'
    BY <1>3, AtWork DEF Transcribe, Promote, TypeOK, MeetingType, Texts
  <2>2. HandlerType'
    BY <1>3, GotoHandler DEF Transcribe, Promote, Labels
  <2> QED
    BY <2>1, <2>2
<1>4. ASSUME NEW h \in Handlers, TranscribeFails(h) PROVE MeetingType' /\ HandlerType'
  <2>1. MeetingType'
    BY <1>4 DEF TranscribeFails, TypeOK, MeetingType, meetingVars
  <2>2. CASE Leave(h)
    BY <2>1, <2>2, LeaveHandler
  <2>3. CASE ~Leave(h)
    <3>1. /\ pc[h] # "idle" /\ active' = [active EXCEPT ![h] = M4a(Take(h))]
          /\ pc' = [pc EXCEPT ![h] = "transcribe"] /\ UNCHANGED <<job, heard, audio>>
      BY <1>4, <2>3 DEF TranscribeFails, Goto
    <3>2. M4a(Take(h)) \in Takes \X Formats
      BY <3>1, AtWork DEF M4a, Formats
    <3>3. HandlerType'
      BY <3>1, <3>2 DEF TypeOK, HandlerType, Take, Labels
    <3> QED
      BY <2>1, <3>3
  <2> QED
    BY <2>2, <2>3
<1>5. ASSUME NEW h \in Handlers, Summarize(h) PROVE MeetingType' /\ HandlerType'
  <2>1. MeetingType'
    BY <1>5 DEF Summarize, TypeOK, MeetingType, meetingVars
  <2>2. transcript \in Texts
    BY DEF TypeOK
  <2>3. HandlerType'
    BY <1>5, <2>2, LeaveHandler, GotoHandler DEF Summarize, Labels
  <2> QED
    BY <2>1, <2>3
<1>6. ASSUME NEW h \in Handlers, Patch(h) PROVE MeetingType' /\ HandlerType'
  <2>1. MeetingType'
    BY <1>6 DEF Patch, TypeOK, MeetingType
  <2>2. HandlerType'
    BY <1>6, LeaveHandler, GotoHandler DEF Patch, Labels
  <2> QED
    BY <2>1, <2>2
<1>7. ASSUME NEW h \in Handlers, Convert(h) PROVE MeetingType' /\ HandlerType'
  <2>1. MeetingType'
    BY <1>7 DEF Convert, TypeOK, MeetingType
  <2>2. pc[h] # "idle" /\ M4a(Take(h)) \in AudioFiles
    BY <1>7, AtWork DEF Convert
  <2>3. CASE Leave(h)
    BY <2>1, <2>3, LeaveHandler
  <2>4. CASE KeepM4a(h)
    <3>1. audio'[h] = M4a(Take(h))
      BY <2>4 DEF KeepM4a, TypeOK
    <3> QED
      BY <2>1, <2>2, <2>4, <3>1, GotoHandler DEF KeepM4a, Labels
  <2>5. CASE ~Leave(h) /\ ~KeepM4a(h)
    BY <1>7, <2>1, <2>2, <2>5, GotoHandler DEF Convert, Labels
  <2> QED
    BY <2>3, <2>4, <2>5
<1>8. ASSUME NEW h \in Handlers, Encode(h) PROVE MeetingType' /\ HandlerType'
  <2>1. MeetingType'
    BY <1>8, AtWork DEF Encode, TypeOK, MeetingType
  <2>2. HandlerType'
    BY <1>8, GotoHandler DEF Encode, Labels, TypeOK
  <2> QED
    BY <2>1, <2>2
<1>9. ASSUME NEW h \in Handlers, DeleteWav(h) PROVE MeetingType' /\ HandlerType'
  <2>1. MeetingType'
    BY <1>9 DEF DeleteWav, TypeOK, MeetingType
  <2>2. Mp3 \in AudioFiles
    BY DEF AudioFiles
  <2>3. HandlerType'
    BY <1>9, <2>2, LeaveHandler, GotoHandler DEF DeleteWav, Labels, TypeOK
  <2> QED
    BY <2>1, <2>3
<1>10. ASSUME NEW h \in Handlers, References(h) \/ Mark(h) PROVE MeetingType' /\ HandlerType'
  <2>1. MeetingType'
    BY <1>10 DEF References, Mark, TypeOK, MeetingType
  <2>2. HandlerType'
    BY <1>10, LeaveHandler, GotoHandler DEF References, Mark, Labels, TypeOK
  <2> QED
    BY <2>1, <2>2
<1>11. ASSUME NEW h \in Handlers, Log(h) \/ Settle(h) PROVE MeetingType' /\ HandlerType'
  <2>1. MeetingType'
    BY <1>11, AtWork DEF Log, Settle, TypeOK, MeetingType, meetingVars
  <2>2. HandlerType'
    BY <1>11, LeaveHandler, GotoHandler DEF Log, Settle, Labels
  <2> QED
    BY <2>1, <2>2
<1>12. ASSUME NEW h \in Handlers, StepFails(h) \/ Crash(h) PROVE MeetingType' /\ HandlerType'
  BY <1>12, LeaveHandler DEF StepFails, Crash, TypeOK, MeetingType, meetingVars
<1>13. ASSUME NEW h \in Handlers, NEW f \in Recorded, Resolve(h, f)
       PROVE MeetingType' /\ HandlerType'
  BY <1>13, ResolveType DEF TypeOK, MeetingType, HandlerType
<1>14. CASE DeleteNote
  BY <1>14 DEF DeleteNote, handlerVars, TypeOK, MeetingType, HandlerType, Take
<1>15. CASE UNCHANGED vars
  BY <1>15 DEF vars, meetingVars, handlerVars, TypeOK, MeetingType, HandlerType, Take
<1> QED
  BY <1>1, <1>2, <1>3, <1>4, <1>5, <1>6, <1>7, <1>8, <1>9, <1>10, <1>11, <1>12, <1>13,
     <1>14, <1>15 DEF Next, Work

(* Every step of every handler keeps TypeOK. *)
THEOREM TypeCorrect == Spec => []TypeOK
BY TypeInit, TypeNext, PTL DEF Spec

-----------------------------------------------------------------------------
(* Recordings *)

(* A handler reaches "unlink" only with an mp3 of the meeting on disk; an  *)
(* mp3 made from a take is only ever replaced by another such, and no m4a  *)
(* is ever removed.                                                        *)
ArchiveInv ==
  /\ \A h \in Handlers : pc[h] = "unlink" => mp3 \in Takes
  /\ DeletedOnlyAfterArchive
  /\ \A f \in Recorded \ files : f = Wav(f[1])

(* Steps that neither delete a recording, nor touch the mp3, nor lead to   *)
(* "unlink". *)
LEMMA ArchiveKept ==
  ASSUME TypeOK, ArchiveInv, UNCHANGED <<files, mp3>>,
         \A h \in Handlers : pc'[h] = "unlink" => pc[h] = "unlink"
  PROVE  ArchiveInv'
BY DEF ArchiveInv, DeletedOnlyAfterArchive

LEMMA GotoKept ==
  ASSUME TypeOK, ArchiveInv, UNCHANGED <<files, mp3>>, NEW h \in Handlers,
         Leave(h) \/ \E label \in Labels \ {"unlink"} : Goto(h, label)
  PROVE  ArchiveInv'
<1>1. \A g \in Handlers : pc'[g] = "unlink" => pc[g] = "unlink"
  BY DEF Leave, Goto, TypeOK
<1> QED
  BY <1>1, ArchiveKept

LEMMA ConvertArchive ==
  ASSUME TypeOK, ArchiveInv, NEW h \in Handlers, Convert(h)
  PROVE  ArchiveInv'
<1> DEFINE wav == Wav(Take(h))
           m4a == M4a(Take(h))
<1>1. CASE UNCHANGED files /\ (Leave(h) \/ KeepM4a(h) \/ Goto(h, "encode"))
  BY <1>1, GotoKept DEF Convert, KeepM4a, Labels
<1>2. CASE Goto(h, "unlink") /\ mp3 \in Takes /\ UNCHANGED files
  BY <1>2 DEF Convert, Goto, TypeOK, ArchiveInv, DeletedOnlyAfterArchive
<1>3. CASE m4a \in files /\ files' = files \ {wav} /\ KeepM4a(h)
  <2>1. m4a # wav /\ wav[1] = Take(h) /\ mp3' = mp3
    BY <1>3 DEF Wav, M4a, Convert
  <2>2. \A f \in Recorded \ files' : f \in Recorded \ files \/ f = wav
    BY <1>3
  <2>3. \A f \in Recorded \ files' : M4a(f[1]) \in files' \/ mp3' \in Takes
    <3> SUFFICES ASSUME NEW f \in Recorded \ files', mp3' \notin Takes
                 PROVE  M4a(f[1]) \in files'
      OBVIOUS
    <3>1. M4a(f[1]) \in files
      BY <1>3, <2>1, <2>2 DEF ArchiveInv, DeletedOnlyAfterArchive
    <3>2. M4a(f[1]) # wav
      BY DEF Wav, M4a
    <3> QED
      BY <1>3, <3>1, <3>2
  <2>4. \A f \in Recorded \ files' : f = Wav(f[1])
    BY <2>1, <2>2 DEF ArchiveInv
  <2>5. \A g \in Handlers : pc'[g] = "unlink" => mp3' \in Takes
    BY <1>3, <2>1 DEF KeepM4a, Goto, TypeOK, ArchiveInv
  <2> QED
    BY <2>3, <2>4, <2>5 DEF ArchiveInv, DeletedOnlyAfterArchive
<1> QED
  BY <1>1, <1>2, <1>3 DEF Convert

LEMMA DeleteWavArchive ==
  ASSUME TypeOK, ArchiveInv, NEW h \in Handlers, DeleteWav(h)
  PROVE  ArchiveInv'
<1>1. mp3 \in Takes /\ mp3' = mp3 /\ active[h] = Wav(Take(h))
  BY DEF DeleteWav, ArchiveInv, TypeOK
<1>2. DeletedOnlyAfterArchive' /\ \A g \in Handlers : pc'[g] = "unlink" => mp3' \in Takes
  BY <1>1 DEF DeletedOnlyAfterArchive
<1>3. \A f \in Recorded \ files' : f = Wav(f[1])
  BY <1>1 DEF DeleteWav, ArchiveInv, Wav
<1> QED
  BY <1>2, <1>3 DEF ArchiveInv

LEMMA ArchiveInit == Init => ArchiveInv
BY DEF Init, ArchiveInv, DeletedOnlyAfterArchive

LEMMA ArchiveNext == TypeOK /\ ArchiveInv /\ [Next]_vars => ArchiveInv'
<1> SUFFICES ASSUME TypeOK, ArchiveInv, [Next]_vars PROVE ArchiveInv'
  OBVIOUS
<1>1. ASSUME NEW h \in Handlers, Encode(h) PROVE ArchiveInv'
  BY <1>1, AtWork DEF Encode, ArchiveInv, DeletedOnlyAfterArchive
<1>2. ASSUME NEW h \in Handlers, Convert(h) \/ DeleteWav(h) PROVE ArchiveInv'
  BY <1>2, ConvertArchive, DeleteWavArchive
<1>3. ASSUME NEW h \in Handlers, FindNote(h) \/ CheckTranscript(h) \/ Transcribe(h)
        \/ Promote(h) \/ TranscribeFails(h) \/ Summarize(h) \/ Patch(h)
      PROVE  ArchiveInv'
  BY <1>3, GotoKept DEF FindNote, Skip, CheckTranscript, Transcribe, Promote, TranscribeFails,
     Summarize, Patch, meetingVars, Labels
<1>4. ASSUME NEW h \in Handlers, References(h) \/ Mark(h) \/ Log(h) \/ Settle(h)
        \/ StepFails(h) \/ Crash(h)
      PROVE  ArchiveInv'
  BY <1>4, GotoKept DEF References, Mark, Log, Settle, StepFails, Crash, meetingVars, Labels
<1>5. ASSUME NEW h \in Handlers, NEW f \in Recorded, Resolve(h, f) PROVE ArchiveInv'
  <2>1. UNCHANGED <<files, mp3>> /\ (pc' = pc \/ Goto(h, "note"))
    BY <1>5 DEF Resolve, Skip, meetingVars, handlerVars
  <2> QED
    BY <2>1, GotoKept, ArchiveKept DEF Labels
<1>6. CASE DeleteNote \/ UNCHANGED vars
  BY <1>6, ArchiveKept DEF DeleteNote, vars, meetingVars, handlerVars
<1> QED
  BY <1>1, <1>2, <1>3, <1>4, <1>5, <1>6 DEF Next, Work

(* Whatever handlers do to whichever takes, a recording is deleted only    *)
(* beside an m4a of its take or for an mp3 of its meeting.                 *)
THEOREM RecordingsAreArchived == Spec => []DeletedOnlyAfterArchive
<1>1. ArchiveInv => DeletedOnlyAfterArchive
  BY DEF ArchiveInv
<1> QED
  BY <1>1, TypeCorrect, ArchiveInit, ArchiveNext, PTL DEF Spec

(* Only a take without an m4a is ever encoded. *)
EncodedInv ==
  /\ \A h \in Handlers : pc[h] = "encode" => M4a(Take(h)) \notin Recorded
  /\ mp3 \in Takes => M4a(mp3) \notin Recorded

LEMMA EncodedInit == ConstantsAssumption /\ Init => EncodedInv
BY DEF Init, EncodedInv, ConstantsAssumption

(* Steps that neither encode nor lead to "encode". *)
LEMMA EncodedKept ==
  ASSUME TypeOK, EncodedInv, mp3' = mp3, NEW h \in Handlers,
         Leave(h) \/ \E label \in Labels \ {"encode"} : Goto(h, label),
         \A g \in Handlers \ {h} : job'[g] = job[g]
  PROVE  EncodedInv'
<1>1. \A g \in Handlers : pc'[g] = "encode" => g # h /\ pc[g] = "encode"
  BY DEF Leave, Goto, TypeOK, Labels
<1> QED
  BY <1>1 DEF EncodedInv, Take

LEMMA EncodedNext == TypeOK /\ ArchiveInv /\ EncodedInv /\ [Next]_vars => EncodedInv'
<1> SUFFICES ASSUME TypeOK, ArchiveInv, EncodedInv, [Next]_vars PROVE EncodedInv'
  OBVIOUS
<1>1. ASSUME NEW h \in Handlers, Convert(h) PROVE EncodedInv'
  <2> DEFINE m4a == M4a(Take(h))
  <2>1. CASE Leave(h) \/ KeepM4a(h) \/ Goto(h, "unlink")
    <3>1. \A g \in Handlers \ {h} : job'[g] = job[g]
      BY <1>1 DEF Convert, Leave, KeepM4a, TypeOK
    <3> QED
      BY <1>1, <2>1, <3>1, EncodedKept DEF Convert, KeepM4a, Labels
  <2>2. CASE Goto(h, "encode") /\ m4a \notin files /\ UNCHANGED job
    <3>1. m4a \notin Recorded
      BY <2>2 DEF ArchiveInv, M4a, Wav
    <3>2. \A g \in Handlers : pc'[g] = "encode" => g = h \/ pc[g] = "encode"
      BY <2>2 DEF Goto, TypeOK
    <3> QED
      BY <1>1, <2>2, <3>1, <3>2 DEF EncodedInv, Take, Convert
  <2> QED
    BY <1>1, <2>1, <2>2 DEF Convert
<1>2. ASSUME NEW h \in Handlers, Encode(h) PROVE EncodedInv'
  <2>1. \A g \in Handlers : pc'[g] = "encode" => pc[g] = "encode" /\ job'[g] = job[g]
    BY <1>2 DEF Encode, Goto, TypeOK
  <2> QED
    BY <1>2, <2>1 DEF Encode, EncodedInv, Take
<1>3. ASSUME NEW h \in Handlers, FindNote(h) \/ CheckTranscript(h) \/ Transcribe(h)
        \/ Promote(h) \/ TranscribeFails(h) \/ Summarize(h) \/ Patch(h)
      PROVE  EncodedInv'
  <2>1. mp3' = mp3 /\ (Leave(h) \/ \E label \in Labels \ {"encode"} : Goto(h, label))
    BY <1>3 DEF FindNote, Skip, CheckTranscript, Transcribe, Promote, TranscribeFails,
       Summarize, Patch, meetingVars, Labels
  <2>2. job' = job \/ Leave(h)
    BY <1>3 DEF FindNote, CheckTranscript, Transcribe, Promote, TranscribeFails,
       Summarize, Patch
  <2>3. \A g \in Handlers \ {h} : job'[g] = job[g]
    BY <2>2 DEF Leave, TypeOK
  <2> QED
    BY <2>1, <2>3, EncodedKept
<1>4. ASSUME NEW h \in Handlers, DeleteWav(h) \/ References(h) \/ Mark(h) \/ Log(h)
        \/ Settle(h) \/ StepFails(h) \/ Crash(h)
      PROVE  EncodedInv'
  <2>1. mp3' = mp3 /\ (Leave(h) \/ \E label \in Labels \ {"encode"} : Goto(h, label))
    BY <1>4 DEF DeleteWav, References, Mark, Log, Settle, StepFails, Crash, meetingVars, Labels
  <2>2. job' = job \/ Leave(h)
    BY <1>4 DEF DeleteWav, References, Mark, Log, Settle, StepFails, Crash
  <2>3. \A g \in Handlers \ {h} : job'[g] = job[g]
    BY <2>2 DEF Leave, TypeOK
  <2> QED
    BY <2>1, <2>3, EncodedKept
<1>5. ASSUME NEW h \in Handlers, NEW f \in Recorded, Resolve(h, f) PROVE EncodedInv'
  <2>1. CASE UNCHANGED <<mp3, pc, job>>
    BY <2>1 DEF EncodedInv, Take
  <2>2. CASE mp3' = mp3 /\ Goto(h, "note") /\ job' = [job EXCEPT ![h] = f]
    BY <2>2, EncodedKept DEF Labels, TypeOK
  <2> QED
    BY <1>5, <2>1, <2>2 DEF Resolve, Skip, meetingVars, handlerVars
<1>6. CASE DeleteNote \/ UNCHANGED vars
  BY <1>6 DEF DeleteNote, vars, meetingVars, handlerVars, EncodedInv, Take
<1> QED
  BY <1>1, <1>2, <1>3, <1>4, <1>5, <1>6 DEF Next, Work

(* A meeting at most one take of which has no m4a, and no m4a of which is  *)
(* flawed, keeps the audio of every take that had any: under concurrent    *)
(* handlers, failures and deaths.  Both conditions are needed. *)
THEOREM AudioIsKept ==
  ASSUME \A t, u \in Takes : M4a(t) \notin Recorded /\ M4a(u) \notin Recorded => t = u,
         \A t \in Takes : M4a(t) \notin Unreadable,
         \A t \in Takes : \E f \in Recorded \ Unreadable : f[1] = t
  PROVE  Spec => []AudioSurvives
<1>1. TypeOK /\ ArchiveInv /\ EncodedInv => AudioSurvives
  <2> SUFFICES ASSUME TypeOK, ArchiveInv, EncodedInv, NEW t \in Takes, mp3 # t
               PROVE  \E f \in files \ Unreadable : f[1] = t
    BY DEF AudioSurvives
  <2>1. PICK f \in Recorded \ Unreadable : f[1] = t
    OBVIOUS
  <2>2. M4a(t)[1] = t /\ M4a(t) # Wav(M4a(t)[1])
    BY DEF M4a, Wav
  <2>3. CASE M4a(t) \in Recorded
    BY <2>2, <2>3 DEF ArchiveInv
  <2>4. CASE M4a(t) \notin Recorded
    <3>1. mp3 \notin Takes
      BY <2>4 DEF EncodedInv
    <3>2. f \in files
      BY <2>1, <2>4, <3>1 DEF ArchiveInv, DeletedOnlyAfterArchive, TypeOK
    <3> QED
      BY <2>1, <3>2
  <2> QED
    BY <2>3, <2>4
<1> QED
  BY <1>1, TypeCorrect, ArchiveInit, ArchiveNext, ConstantsAssumption, EncodedInit, EncodedNext,
     PTL DEF Spec

-----------------------------------------------------------------------------
(* The note *)

(* Labels a handler reaches only after it has patched the note. *)
PastPatch == {"convert", "encode", "unlink", "references", "mark", "log", "settle"}

(* A recording is deleted, and a job settled, only past the patch, or when *)
(* the note is gone for good. *)
NoteInv ==
  /\ \A h \in Handlers : pc[h] = "patch" => heard[h] # None
  /\ \A h \in Handlers : pc[h] \in PastPatch => minutes # None
  /\ files # Recorded => minutes # None
  /\ SettledMeansPatched

LEMMA NoteInit == Init => NoteInv
BY DEF Init, NoteInv, PastPatch, SettledMeansPatched

(* Steps of a handler that stay on one side of the patch. *)
LEMMA NoteKept ==
  ASSUME TypeOK, NoteInv, NEW h \in Handlers, UNCHANGED <<minutes, jobs, noteFile>>,
         files' = files \/ pc[h] \in PastPatch,
         \/ Leave(h)
         \/ /\ UNCHANGED heard
            /\ \E label \in Labels \ {"patch"} :
                 Goto(h, label) /\ (label \in PastPatch => pc[h] \in PastPatch)
  PROVE  NoteInv'
<1>1. \A g \in Handlers : pc'[g] = "patch" => pc[g] = "patch" /\ heard'[g] = heard[g]
  BY DEF Leave, Goto, TypeOK, PastPatch
<1>2. \A g \in Handlers : pc'[g] \in PastPatch => minutes' # None
  BY DEF Leave, Goto, TypeOK, PastPatch, NoteInv
<1>3. files' # Recorded => minutes' # None
  BY DEF NoteInv
<1> QED
  BY <1>1, <1>2, <1>3 DEF NoteInv, SettledMeansPatched

LEMMA NoteNext == TypeOK /\ NoteInv /\ [Next]_vars => NoteInv'
<1> SUFFICES ASSUME TypeOK, NoteInv, [Next]_vars PROVE NoteInv'
  OBVIOUS
<1>1. ASSUME NEW h \in Handlers, FindNote(h) PROVE NoteInv'
  <2>1. CASE noteFile /\ UNCHANGED jobs
    BY <1>1, <2>1, NoteKept DEF FindNote, Skip, meetingVars, Labels, PastPatch
  <2>2. CASE ~noteFile
    <3>1. Leave(h) /\ UNCHANGED <<meetingVars, logged>>
      BY <1>1, <2>2 DEF FindNote, Skip
    <3>2. \A g \in Handlers : pc'[g] # "idle" => pc'[g] = pc[g] /\ heard'[g] = heard[g]
      BY <3>1, LeaveType
    <3> QED
      BY <2>2, <3>1, <3>2 DEF NoteInv, SettledMeansPatched, meetingVars, PastPatch
  <2> QED
    BY <1>1, <2>1, <2>2 DEF FindNote
<1>2. ASSUME NEW h \in Handlers, CheckTranscript(h) \/ Transcribe(h) \/ Promote(h)
        \/ TranscribeFails(h)
      PROVE  NoteInv'
  BY <1>2, NoteKept DEF CheckTranscript, Transcribe, Promote, TranscribeFails, meetingVars,
     Labels, PastPatch
<1>3. ASSUME NEW h \in Handlers, Summarize(h) PROVE NoteInv'
  <2>1. CASE Leave(h)
    BY <1>3, <2>1, NoteKept DEF Summarize, meetingVars
  <2>2. CASE transcript # None /\ heard' = [heard EXCEPT ![h] = transcript] /\ Goto(h, "patch")
    BY <1>3, <2>2 DEF Summarize, Goto, meetingVars, TypeOK, NoteInv, PastPatch,
       SettledMeansPatched
  <2> QED
    BY <1>3, <2>1, <2>2 DEF Summarize
<1>4. ASSUME NEW h \in Handlers, Patch(h) PROVE NoteInv'
  <2>1. CASE Leave(h) /\ UNCHANGED minutes
    BY <1>4, <2>1, NoteKept DEF Patch
  <2>2. CASE minutes' = heard[h] /\ Goto(h, "convert") /\ UNCHANGED heard
    BY <1>4, <2>2 DEF Patch, Goto, TypeOK, NoteInv, SettledMeansPatched
  <2> QED
    BY <1>4, <2>1, <2>2 DEF Patch
<1>5. ASSUME NEW h \in Handlers, Convert(h) PROVE NoteInv'
  BY <1>5, NoteKept DEF Convert, KeepM4a, Labels, PastPatch
<1>6. ASSUME NEW h \in Handlers, Encode(h) \/ DeleteWav(h) \/ References(h) \/ Mark(h) \/ Log(h)
      PROVE  NoteInv'
  BY <1>6, NoteKept DEF Encode, DeleteWav, References, Mark, Log, meetingVars, Labels, PastPatch
<1>7. ASSUME NEW h \in Handlers, Settle(h) PROVE NoteInv'
  <2>1. Leave(h) /\ UNCHANGED <<meetingVars, logged>> /\ minutes # None
    BY <1>7 DEF Settle, NoteInv, PastPatch
  <2>2. \A g \in Handlers : pc'[g] # "idle" => pc'[g] = pc[g] /\ heard'[g] = heard[g]
    BY <2>1, LeaveType
  <2> QED
    BY <2>1, <2>2 DEF NoteInv, SettledMeansPatched, meetingVars, PastPatch
<1>8. ASSUME NEW h \in Handlers, StepFails(h) \/ Crash(h) PROVE NoteInv'
  BY <1>8, NoteKept DEF StepFails, Crash, meetingVars
<1>9. ASSUME NEW h \in Handlers, NEW f \in Recorded, Resolve(h, f) PROVE NoteInv'
  <2>1. CASE f \notin files
    <3>1. minutes # None /\ UNCHANGED <<meetingVars, handlerVars>>
      BY <1>9, <2>1 DEF NoteInv, Resolve, Skip
    <3> QED
      BY <3>1 DEF NoteInv, SettledMeansPatched, meetingVars, handlerVars
  <2>2. CASE f \in files
    BY <1>9, <2>2, NoteKept DEF Resolve, meetingVars, Labels, PastPatch
  <2> QED
    BY <2>1, <2>2
<1>10. CASE DeleteNote \/ UNCHANGED vars
  BY <1>10 DEF DeleteNote, vars, meetingVars, handlerVars, NoteInv, SettledMeansPatched
<1> QED
  BY <1>1, <1>2, <1>3, <1>4, <1>5, <1>6, <1>7, <1>8, <1>9, <1>10 DEF Next, Work

(* However handlers fail, die or overtake each other, no job leaves the    *)
(* books before the note has its minutes.                                  *)
THEOREM NoJobIsForgotten == Spec => []SettledMeansPatched
<1>1. NoteInv => SettledMeansPatched
  BY DEF NoteInv
<1> QED
  BY <1>1, TypeCorrect, NoteInit, NoteNext, PTL DEF Spec

-----------------------------------------------------------------------------
(* The books *)

(* The last steps come in order: the canonical audio is known, the         *)
(* references name it, the marker is beside it, and only then the take is  *)
(* logged. *)
BookInv ==
  /\ \A h \in Handlers : pc[h] \in {"references", "mark", "log"} =>
       audio[h] \in {M4a(Take(h)), Mp3}
  /\ \A h \in Handlers : pc[h] \in {"mark", "log"} => references # None
  /\ \A h \in Handlers : pc[h] = "log" => audio[h] \in markers
  /\ \A t \in logged : /\ M4a(t) \in markers \/ Mp3 \in markers
                       /\ minutes # None /\ references # None

LEMMA NotNone == None \notin AudioFiles
BY ConstantsAssumption DEF AudioFiles, M4a, Mp3, Formats

LEMMA BookInit == Init => BookInv
BY DEF Init, BookInv

(* Steps outside the last ones: nothing is unmarked or erased. *)
LEMMA BookKept ==
  ASSUME TypeOK, BookInv, UNCHANGED <<references, markers, logged>>,
         minutes' = minutes \/ minutes' # None, NEW h \in Handlers,
         \/ Leave(h)
         \/ /\ UNCHANGED <<audio, job>>
            /\ \E label \in Labels \ {"references", "mark", "log"} : Goto(h, label)
  PROVE  BookInv'
<1>1. \A g \in Handlers : pc'[g] \in {"references", "mark", "log"} =>
        pc'[g] = pc[g] /\ audio'[g] = audio[g] /\ Take(g)' = Take(g)
  BY LeaveType DEF Goto, TypeOK, Take
<1> QED
  BY <1>1 DEF BookInv

(* A handler comes to know the canonical audio. *)
LEMMA BookAudio ==
  ASSUME TypeOK, BookInv, UNCHANGED <<references, markers, logged, minutes, job>>,
         NEW h \in Handlers, NEW a \in {M4a(Take(h)), Mp3},
         audio' = [audio EXCEPT ![h] = a], Goto(h, "references")
  PROVE  BookInv'
<1>1. /\ pc'[h] = "references" /\ audio'[h] = a /\ Take(h)' = Take(h)
      /\ \A g \in Handlers \ {h} :
           pc'[g] = pc[g] /\ audio'[g] = audio[g] /\ Take(g)' = Take(g)
  BY DEF Goto, TypeOK, Take
<1> QED
  BY <1>1 DEF BookInv

LEMMA BookNext == TypeOK /\ NoteInv /\ BookInv /\ [Next]_vars => BookInv'
<1> SUFFICES ASSUME TypeOK, NoteInv, BookInv, [Next]_vars PROVE BookInv'
  OBVIOUS
<1>1. ASSUME NEW h \in Handlers, FindNote(h) \/ CheckTranscript(h) \/ Transcribe(h) \/ Promote(h)
      PROVE  BookInv'
  BY <1>1, BookKept DEF FindNote, Skip, CheckTranscript, Transcribe, Promote, meetingVars, Labels
<1>2. ASSUME NEW h \in Handlers, TranscribeFails(h) \/ Summarize(h) PROVE BookInv'
  BY <1>2, BookKept DEF TranscribeFails, Summarize, meetingVars, Labels
<1>3. ASSUME NEW h \in Handlers, Patch(h) PROVE BookInv'
  <2>1. minutes' = minutes \/ minutes' # None
    BY <1>3 DEF Patch, NoteInv
  <2> QED
    BY <1>3, <2>1, BookKept DEF Patch, Labels
<1>4. ASSUME NEW h \in Handlers, Convert(h) PROVE BookInv'
  BY <1>4, BookKept, BookAudio DEF Convert, KeepM4a, Labels
<1>5. ASSUME NEW h \in Handlers, Encode(h) PROVE BookInv'
  BY <1>5, BookKept DEF Encode, Labels
<1>6. ASSUME NEW h \in Handlers, DeleteWav(h) PROVE BookInv'
  BY <1>6, BookKept, BookAudio DEF DeleteWav
<1>7. ASSUME NEW h \in Handlers, References(h) PROVE BookInv'
  <2>1. CASE Leave(h) /\ UNCHANGED references
    BY <1>7, <2>1, BookKept DEF References
  <2>2. CASE references' = audio[h] /\ Goto(h, "mark") /\ UNCHANGED <<job, active, heard, audio>>
    <3>1. audio[h] \in AudioFiles /\ audio[h] # None
      BY <1>7, NotNone DEF References, TypeOK
    <3>2. \A g \in Handlers : Take(g)' = Take(g) /\ (g # h => pc'[g] = pc[g])
      BY <2>2 DEF Take, Goto, TypeOK
    <3>3. pc'[h] = "mark" /\ pc[h] = "references"
      BY <1>7, <2>2 DEF References, Goto, TypeOK
    <3> QED
      BY <1>7, <2>2, <3>1, <3>2, <3>3 DEF References, BookInv
  <2> QED
    BY <1>7, <2>1, <2>2 DEF References
<1>8. ASSUME NEW h \in Handlers, Mark(h) PROVE BookInv'
  <2>1. \A g \in Handlers : Take(g)' = Take(g) /\ (g # h => pc'[g] = pc[g])
    BY <1>8 DEF Mark, Take, Goto, TypeOK
  <2>2. pc'[h] = "log" /\ pc[h] = "mark"
    BY <1>8 DEF Mark, Goto, TypeOK
  <2> QED
    BY <1>8, <2>1, <2>2 DEF Mark, BookInv
<1>9. ASSUME NEW h \in Handlers, Log(h) PROVE BookInv'
  <2>1. \A g \in Handlers : Take(g)' = Take(g) /\ (g # h => pc'[g] = pc[g])
    BY <1>9 DEF Log, Take, Goto, TypeOK
  <2>2. pc'[h] = "settle" /\ pc[h] = "log"
    BY <1>9 DEF Log, Goto, TypeOK
  <2>3. minutes # None
    BY <2>2 DEF NoteInv, PastPatch
  <2> QED
    BY <1>9, <2>1, <2>2, <2>3 DEF Log, BookInv, meetingVars
<1>10. ASSUME NEW h \in Handlers, Settle(h) \/ StepFails(h) \/ Crash(h) PROVE BookInv'
  BY <1>10, BookKept DEF Settle, StepFails, Crash, meetingVars
<1>11. ASSUME NEW h \in Handlers, NEW f \in Recorded, Resolve(h, f) PROVE BookInv'
  <2>1. CASE f \notin files
    BY <1>11, <2>1 DEF Resolve, Skip, meetingVars, handlerVars, BookInv, Take
  <2>2. CASE f \in files
    <3>1. \A g \in Handlers : pc'[g] \in {"references", "mark", "log"} =>
            g # h /\ pc'[g] = pc[g] /\ Take(g)' = Take(g)
      BY <1>11, <2>2 DEF Resolve, Goto, TypeOK, Take
    <3> QED
      BY <1>11, <2>2, <3>1 DEF Resolve, meetingVars, BookInv
  <2> QED
    BY <2>1, <2>2
<1>12. CASE DeleteNote \/ UNCHANGED vars
  BY <1>12 DEF DeleteNote, vars, meetingVars, handlerVars, BookInv, Take
<1> QED
  BY <1>1, <1>2, <1>3, <1>4, <1>5, <1>6, <1>7, <1>8, <1>9, <1>10, <1>11, <1>12 DEF Next, Work

(* A take in the processed-jobs log is finished, whatever happened on the  *)
(* way: marker, minutes and references were all there before it.           *)
THEOREM LogMeansDone == Spec => []LoggedMeansComplete
<1>1. BookInv => LoggedMeansComplete
  BY DEF BookInv, LoggedMeansComplete
<1> QED
  BY <1>1, TypeCorrect, NoteInit, NoteNext, BookInit, BookNext, PTL DEF Spec

-----------------------------------------------------------------------------
(* Running a job again *)

(* The meeting has one take, and handlers run one at a time.               *)
Alone ==
  /\ \A t, u \in Takes : t = u
  /\ \A g, h \in Handlers : g = h

(* The file that stays: the m4a if the recorder wrote one, else the mp3.   *)
Canonical(t) == IF M4a(t) \in Recorded THEN M4a(t) ELSE Mp3

(* What the handler has read, and then the note, is the transcript.        *)
Summarised(h) ==
  /\ pc[h] = "patch" => heard[h] = transcript /\ transcript # None
  /\ pc[h] \in PastPatch => transcript # None /\ minutes = transcript

(* A handler works on a recording there was; it encodes only for want of   *)
(* an m4a; its last steps name the canonical audio, one after the other,   *)
(* when a wav that had to be encoded is gone.                              *)
Filed(t, h) ==
  /\ pc[h] # "idle" => active[h] \in Recorded
  /\ M4a(t) \in Recorded => M4a(t) \in files /\ pc[h] \notin {"encode", "unlink"}
  /\ pc[h] \in {"references", "mark"} => audio[h] = Canonical(t)
  /\ pc[h] \in {"mark", "log", "settle"} => references = Canonical(t)
  /\ pc[h] \in {"log", "settle"} => Canonical(t) \in markers
  /\ pc[h] \in {"references", "mark", "log", "settle"} /\ M4a(t) \notin Recorded => files = {}

(* Once the take is logged, nothing is left to transcribe, to encode or to *)
(* rename. *)
Finished(t, h) == logged # {} =>
  /\ transcript # None /\ minutes = transcript
  /\ pc[h] \notin {"transcribe", "promote"}
  /\ references = Canonical(t) /\ Canonical(t) \in markers
  /\ M4a(t) \notin Recorded => files = {} /\ pc[h] \in {"idle", "settle"}

AloneInv ==
  \A t \in Takes, h \in Handlers : Summarised(h) /\ Filed(t, h) /\ Finished(t, h)

LEMMA AloneInit == Init => AloneInv
BY DEF Init, AloneInv, Summarised, Filed, Finished, PastPatch

(* A handler at work works on the one take, on its wav or its m4a.         *)
LEMMA OneTakeAtWork ==
  ASSUME Alone, TypeOK, NEW t \in Takes, NEW h \in Handlers, pc[h] # "idle"
  PROVE  Take(h) = t /\ active[h] \in {Wav(t), M4a(t)}
BY AtWork DEF Alone

LEMMA OneTakesFiles ==
  ASSUME Alone, NEW t \in Takes
  PROVE  Recorded \subseteq {Wav(t), M4a(t)} /\ Wav(t) # M4a(t)
<1>1. Wav(t) # M4a(t)
  BY DEF Wav, M4a
<1>2. \A f \in Recorded : f \in {Wav(t), M4a(t)}
  BY RecordedFiles DEF Alone
<1> QED
  BY <1>1, <1>2

(* It is enough to look at the one handler that took the step.             *)
LEMMA AloneStep ==
  ASSUME Alone, NEW h \in Handlers,
         \A t \in Takes : (Summarised(h) /\ Filed(t, h) /\ Finished(t, h))'
  PROVE  AloneInv'
BY DEF Alone, AloneInv

(* A handler that ends without touching the meeting's files or the log.    *)
LEMMA AloneLeave ==
  ASSUME Alone, TypeOK, AloneInv, NEW h \in Handlers, Leave(h),
         UNCHANGED <<meetingVars, logged>>
  PROVE  AloneInv'
<1>1. pc'[h] = "idle"
  BY DEF Leave, Goto, TypeOK
<1>2. \A t \in Takes : (Summarised(h) /\ Filed(t, h) /\ Finished(t, h))'
  BY <1>1 DEF AloneInv, Summarised, Filed, Finished, meetingVars, PastPatch, Canonical
<1> QED
  BY <1>2, AloneStep

(* Steps up to the summary: only the transcript may change, and only       *)
(* before the take is logged. *)
LEMMA AloneEarly ==
  ASSUME Alone, TypeOK, AloneInv, NEW h \in Handlers,
         pc'[h] \in {"note", "check", "transcribe", "promote", "summarize"},
         active'[h] \in Recorded,
         UNCHANGED <<files, mp3, minutes, references, markers, logged>>,
         logged # {} => transcript' = transcript /\ pc'[h] \notin {"transcribe", "promote"}
                        /\ \E t \in Takes : M4a(t) \in Recorded \/ files # {}
  PROVE  AloneInv'
<1>1. ASSUME NEW t \in Takes PROVE (Summarised(h) /\ Filed(t, h) /\ Finished(t, h))'
  <2>1. Summarised(h)' /\ Filed(t, h)'
    BY DEF AloneInv, Summarised, Filed, PastPatch, Canonical
  <2>2. Finished(t, h)'
    BY DEF AloneInv, Finished, Canonical, Alone
  <2> QED
    BY <2>1, <2>2
<1> QED
  BY <1>1, AloneStep

LEMMA AloneResolve ==
  ASSUME Alone, TypeOK, AloneInv, NEW h \in Handlers, NEW f \in Recorded, Resolve(h, f)
  PROVE  AloneInv'
<1>1. CASE f \notin files
  BY <1>1 DEF Resolve, Skip, meetingVars, handlerVars, AloneInv, Summarised, Filed, Finished,
     PastPatch, Canonical
<1>2. CASE f \in files
  <2>1. /\ pc'[h] = "note" /\ UNCHANGED <<meetingVars, logged>>
        /\ active'[h] = IF Wav(f[1]) \in files THEN Wav(f[1]) ELSE M4a(f[1])
    BY <1>2 DEF Resolve, Goto, TypeOK
  <2>2. active'[h] \in Recorded
    BY <1>2, <2>1, RecordedFiles DEF TypeOK
  <2>3. files # {} /\ f[1] \in Takes
    BY <1>2, RecordedFiles
  <2> QED
    BY <2>1, <2>2, <2>3, AloneEarly DEF meetingVars
<1> QED
  BY <1>1, <1>2

LEMMA AloneBefore ==
  ASSUME Alone, TypeOK, AloneInv, NEW h \in Handlers,
         FindNote(h) \/ CheckTranscript(h) \/ Transcribe(h) \/ Promote(h) \/ TranscribeFails(h)
  PROVE  AloneInv'
<1>0. /\ pc[h] # "idle" /\ job[h] \in Recorded /\ active[h] \in Recorded /\ Take(h) \in Takes
      /\ \A t \in Takes : Finished(t, h)
  BY AtWork DEF FindNote, CheckTranscript, Transcribe, Promote, TranscribeFails, AloneInv, Filed
<1>1. logged # {} => pc[h] \notin {"transcribe", "promote"} /\ transcript # None
                     /\ (M4a(Take(h)) \in Recorded \/ pc[h] = "settle")
  BY <1>0 DEF Finished
<1>2. CASE FindNote(h)
  <2>1. CASE Leave(h)
    BY <1>2, <2>1, AloneLeave DEF FindNote, Skip
  <2>2. CASE Goto(h, "check") /\ UNCHANGED <<meetingVars, logged, active>>
    <3>1. pc'[h] = "check"
      BY <2>2 DEF Goto, TypeOK
    <3> QED
      BY <1>0, <1>1, <1>2, <2>2, <3>1, AloneEarly DEF FindNote, meetingVars
  <2> QED
    BY <1>2, <2>1, <2>2 DEF FindNote
<1>3. CASE CheckTranscript(h)
  <2>1. pc[h] = "check" /\ pc'[h] = IF transcript = None THEN "transcribe" ELSE "summarize"
    BY <1>3 DEF CheckTranscript, Goto, TypeOK
  <2> QED
    BY <1>0, <1>1, <1>3, <2>1, AloneEarly DEF CheckTranscript, meetingVars
<1>4. CASE Transcribe(h) \/ Promote(h)
  <2>1. pc[h] \in {"transcribe", "promote"} /\ pc'[h] \in {"promote", "summarize"}
    BY <1>4 DEF Transcribe, Promote, Goto, TypeOK
  <2> QED
    BY <1>0, <1>1, <1>4, <2>1, AloneEarly DEF Transcribe, Promote
<1>5. CASE TranscribeFails(h)
  <2>1. CASE Leave(h)
    BY <1>5, <2>1, AloneLeave DEF TranscribeFails
  <2>2. CASE M4a(Take(h)) \in files /\ active' = [active EXCEPT ![h] = M4a(Take(h))]
             /\ Goto(h, "transcribe")
    <3>1. /\ pc[h] \in {"transcribe", "promote"} /\ pc'[h] = "transcribe"
          /\ active'[h] \in Recorded
      BY <1>5, <2>2 DEF TranscribeFails, Goto, TypeOK
    <3> QED
      BY <1>1, <1>5, <3>1, AloneEarly DEF TranscribeFails, meetingVars
  <2> QED
    BY <1>5, <2>1, <2>2 DEF TranscribeFails
<1> QED
  BY <1>2, <1>3, <1>4, <1>5

LEMMA AloneNote ==
  ASSUME Alone, TypeOK, AloneInv, NEW h \in Handlers, Summarize(h) \/ Patch(h)
  PROVE  AloneInv'
<1>1. CASE Leave(h) /\ UNCHANGED <<meetingVars, logged>>
  BY <1>1, AloneLeave
<1>2. CASE /\ pc[h] = "summarize" /\ transcript # None
           /\ heard' = [heard EXCEPT ![h] = transcript] /\ Goto(h, "patch")
           /\ UNCHANGED <<active, audio, meetingVars, logged>>
  <2>1. /\ pc'[h] = "patch" /\ heard'[h] = transcript
        /\ active'[h] = active[h] /\ audio'[h] = audio[h]
    BY <1>2 DEF Goto, TypeOK
  <2>2. \A t \in Takes : (Summarised(h) /\ Filed(t, h) /\ Finished(t, h))'
    BY <1>2, <2>1 DEF AloneInv, Summarised, Filed, Finished, PastPatch, Canonical, meetingVars
  <2> QED
    BY <2>2, AloneStep
<1>3. CASE /\ pc[h] = "patch" /\ minutes' = heard[h] /\ Goto(h, "convert")
           /\ UNCHANGED <<files, transcript, references, markers, logged, active, audio>>
  <2>1. pc'[h] = "convert" /\ active'[h] = active[h] /\ audio'[h] = audio[h]
    BY <1>3 DEF Goto, TypeOK
  <2>2. Summarised(h) /\ minutes' = transcript /\ transcript # None
    BY <1>3, AtWork DEF AloneInv, Summarised
  <2>3. \A t \in Takes : (Summarised(h) /\ Filed(t, h) /\ Finished(t, h))'
    BY <1>3, <2>1, <2>2 DEF AloneInv, Summarised, Filed, Finished, PastPatch, Canonical
  <2> QED
    BY <2>3, AloneStep
<1> QED
  BY <1>1, <1>2, <1>3 DEF Summarize, Patch, meetingVars

LEMMA AloneConvert ==
  ASSUME Alone, TypeOK, AloneInv, NEW h \in Handlers, Convert(h)
  PROVE  AloneInv'
<1> DEFINE wav == Wav(Take(h))
           m4a == M4a(Take(h))
<1>0. /\ pc[h] = "convert" /\ Take(h) \in Takes /\ active[h] \in {wav, m4a}
      /\ Summarised(h) /\ active[h] \in Recorded
      /\ UNCHANGED <<transcript, minutes, references, markers, logged>>
  BY AtWork DEF Convert, AloneInv, Filed
<1>1. CASE Leave(h) /\ UNCHANGED files
  BY <1>1, AloneLeave DEF Convert, meetingVars
<1>2. CASE m4a \in Recorded /\ KeepM4a(h) /\ (files' = files \/ files' = files \ {wav})
  <2>1. pc'[h] = "references" /\ audio'[h] = m4a /\ active'[h] = active[h]
    BY <1>2 DEF KeepM4a, Goto, TypeOK
  <2> SUFFICES ASSUME NEW t \in Takes
               PROVE  (Summarised(h) /\ Filed(t, h) /\ Finished(t, h))'
    BY AloneStep
  <2>2. t = Take(h) /\ wav # m4a
    BY <1>0, OneTakesFiles DEF Alone
  <2>3. Filed(t, h) /\ Finished(t, h)
    BY DEF AloneInv
  <2>4. Summarised(h)' /\ Finished(t, h)'
    BY <1>0, <1>2, <2>1, <2>2, <2>3 DEF Summarised, Finished, PastPatch, Canonical
  <2>5. Filed(t, h)'
    BY <1>0, <1>2, <2>1, <2>2, <2>3 DEF Filed, Canonical
  <2> QED
    BY <2>4, <2>5
<1>3. CASE m4a \notin files /\ UNCHANGED <<files, active>>
           /\ (Goto(h, "encode") \/ Goto(h, "unlink"))
  <2>1. pc'[h] \in {"encode", "unlink"} /\ active'[h] = active[h]
    BY <1>3 DEF Goto, TypeOK
  <2> SUFFICES ASSUME NEW t \in Takes
               PROVE  (Summarised(h) /\ Filed(t, h) /\ Finished(t, h))'
    BY AloneStep
  <2>2. t = Take(h) /\ Filed(t, h) /\ Finished(t, h)
    BY <1>0 DEF AloneInv, Alone
  <2> QED
    BY <1>0, <1>3, <2>1, <2>2 DEF Summarised, Filed, Finished, PastPatch, Canonical
<1> QED
  BY <1>0, <1>1, <1>2, <1>3 DEF Convert, KeepM4a, TypeOK

LEMMA AloneEncode ==
  ASSUME Alone, TypeOK, AloneInv, NEW h \in Handlers, Encode(h) \/ DeleteWav(h)
  PROVE  AloneInv'
<1>0. /\ pc[h] \in {"encode", "unlink"} /\ Take(h) \in Takes /\ active[h] = Wav(Take(h))
      /\ Summarised(h) /\ active[h] \in Recorded /\ pc[h] \in PastPatch
      /\ UNCHANGED <<transcript, minutes, references, markers, logged>>
  BY AtWork DEF Encode, DeleteWav, AloneInv, Filed, PastPatch, TypeOK
<1>1. CASE Leave(h) /\ DeleteWav(h) /\ UNCHANGED files
  BY <1>1, AloneLeave DEF DeleteWav, meetingVars
<1>2. CASE Encode(h) \/ (DeleteWav(h) /\ files' = files \ {active[h]})
  <2>1. CASE Encode(h)
    <3>1. pc'[h] = "unlink" /\ active'[h] = active[h] /\ files' = files
      BY <2>1 DEF Encode, Goto, TypeOK
    <3> SUFFICES ASSUME NEW t \in Takes
                 PROVE  (Summarised(h) /\ Filed(t, h) /\ Finished(t, h))'
      BY AloneStep
    <3>2. Filed(t, h) /\ Finished(t, h)
      BY DEF AloneInv
    <3> QED
      BY <1>0, <3>1, <3>2 DEF Summarised, Filed, Finished, PastPatch, Canonical
  <2>2. CASE /\ audio' = [audio EXCEPT ![h] = Mp3] /\ Goto(h, "references")
             /\ UNCHANGED active /\ files' = files \ {active[h]}
    <3>1. pc'[h] = "references" /\ active'[h] = active[h] /\ audio'[h] = Mp3
      BY <2>2 DEF Goto, TypeOK
    <3> SUFFICES ASSUME NEW t \in Takes
                 PROVE  (Summarised(h) /\ Filed(t, h) /\ Finished(t, h))'
      BY AloneStep
    <3>2. t = Take(h) /\ Filed(t, h) /\ Finished(t, h)
      BY <1>0 DEF AloneInv, Alone
    <3>3. M4a(t) \notin Recorded /\ logged = {}
      BY <1>0, <3>2 DEF Filed, Finished
    <3>4. files' = {}
      BY <1>0, <2>2, <3>2, <3>3, OneTakesFiles DEF TypeOK
    <3> QED
      BY <1>0, <3>1, <3>2, <3>3, <3>4 DEF Summarised, Filed, Finished, PastPatch, Canonical
  <2>3. \/ Encode(h)
        \/ Leave(h) /\ DeleteWav(h) /\ UNCHANGED files
        \/ /\ audio' = [audio EXCEPT ![h] = Mp3] /\ Goto(h, "references")
           /\ UNCHANGED active /\ files' = files \ {active[h]}
    BY <1>2 DEF DeleteWav
  <2> QED
    BY <1>1, <2>1, <2>2, <2>3
<1> QED
  BY <1>1, <1>2 DEF DeleteWav

LEMMA AloneBooks ==
  ASSUME Alone, TypeOK, AloneInv, NEW h \in Handlers, References(h) \/ Mark(h) \/ Log(h)
  PROVE  AloneInv'
<1>0. /\ pc[h] \in {"references", "mark", "log"} /\ Summarised(h) /\ pc[h] \in PastPatch
      /\ Take(h) \in Takes /\ UNCHANGED <<transcript, minutes, files>>
  BY AtWork DEF References, Mark, Log, AloneInv, PastPatch, meetingVars
<1>1. CASE Leave(h) /\ References(h) /\ UNCHANGED references
  BY <1>1, AloneLeave DEF References, meetingVars
<1> SUFFICES ASSUME ~(Leave(h) /\ References(h) /\ UNCHANGED references), NEW t \in Takes
             PROVE  (Summarised(h) /\ Filed(t, h) /\ Finished(t, h))'
  BY <1>1, AloneStep
<1>2. Filed(t, h) /\ Finished(t, h)
  BY DEF AloneInv
<1>3. CASE References(h)
  <2>1. /\ pc[h] = "references" /\ pc'[h] = "mark" /\ active'[h] = active[h]
        /\ audio'[h] = audio[h] /\ references' = audio[h] /\ UNCHANGED <<markers, logged>>
    BY <1>3 DEF References, Goto, TypeOK
  <2> QED
    BY <1>0, <1>2, <2>1 DEF Summarised, Filed, Finished, PastPatch, Canonical
<1>4. CASE Mark(h)
  <2>1. /\ pc[h] = "mark" /\ pc'[h] = "log" /\ active'[h] = active[h]
        /\ markers' = markers \union {audio[h]} /\ UNCHANGED <<references, logged>>
    BY <1>4 DEF Mark, Goto, TypeOK
  <2> QED
    BY <1>0, <1>2, <2>1 DEF Summarised, Filed, Finished, PastPatch, Canonical
<1>5. CASE Log(h)
  <2>1. /\ pc[h] = "log" /\ pc'[h] = "settle" /\ active'[h] = active[h]
        /\ UNCHANGED <<references, markers>>
    BY <1>5 DEF Log, Goto, TypeOK, meetingVars
  <2> QED
    BY <1>0, <1>2, <2>1 DEF Summarised, Filed, Finished, PastPatch, Canonical
<1> QED
  BY <1>3, <1>4, <1>5

LEMMA AloneNext == Alone /\ TypeOK /\ AloneInv /\ [Next]_vars => AloneInv'
<1> SUFFICES ASSUME Alone, TypeOK, AloneInv, [Next]_vars PROVE AloneInv'
  OBVIOUS
<1>1. ASSUME NEW h \in Handlers, Work(h) PROVE AloneInv'
  <2>1. CASE Settle(h)
    BY <2>1, AloneLeave DEF Settle
  <2> QED
    BY <1>1, <2>1, AloneBefore, AloneNote, AloneConvert, AloneEncode, AloneBooks DEF Work
<1>2. ASSUME NEW h \in Handlers, StepFails(h) \/ Crash(h) PROVE AloneInv'
  BY <1>2, AloneLeave DEF StepFails, Crash
<1>3. ASSUME NEW h \in Handlers, NEW f \in Recorded, Resolve(h, f) PROVE AloneInv'
  BY <1>3, AloneResolve
<1>4. CASE DeleteNote \/ UNCHANGED vars
  BY <1>4 DEF DeleteNote, vars, meetingVars, handlerVars, AloneInv, Summarised, Filed,
     Finished, PastPatch, Canonical
<1> QED
  BY <1>1, <1>2, <1>3, <1>4 DEF Next

(* In a state the invariant allows, no step of a finished meeting changes  *)
(* its mp3, transcript, minutes, references or markers. *)
LEMMA FinishedStays ==
  ASSUME Alone, TypeOK, AloneInv, logged # {}, [Next]_vars
  PROVE  UNCHANGED <<mp3, transcript, minutes, references, markers>>
<1>1. ASSUME NEW h \in Handlers, Work(h)
      PROVE  UNCHANGED <<mp3, transcript, minutes, references, markers>>
  <2>1. pc[h] # "idle"
    BY <1>1 DEF Work, FindNote, CheckTranscript, Transcribe, Promote, TranscribeFails,
       Summarize, Patch, Convert, Encode, DeleteWav, References, Mark, Log, Settle
  <2>2. PICK t \in Takes : t = Take(h)
    BY <2>1, AtWork
  <2>3. Summarised(h) /\ Filed(t, h) /\ Finished(t, h)
    BY DEF AloneInv
  <2>4. ~Encode(h) /\ ~Transcribe(h) /\ ~Promote(h)
    BY <2>3 DEF Encode, Transcribe, Promote, Filed, Finished
  <2>5. CASE Patch(h)
    BY <2>3, <2>5 DEF Patch, Summarised, Finished
  <2>6. CASE References(h)
    BY <2>3, <2>6 DEF References, Filed, Finished
  <2>7. CASE Mark(h)
    BY <2>3, <2>7 DEF Mark, Filed, Finished
  <2>8. CASE \/ FindNote(h) \/ CheckTranscript(h) \/ TranscribeFails(h) \/ Summarize(h)
             \/ Convert(h) \/ DeleteWav(h) \/ Log(h) \/ Settle(h)
    BY <2>8 DEF FindNote, Skip, CheckTranscript, TranscribeFails, Summarize, Convert,
       DeleteWav, Log, Settle, meetingVars
  <2> QED
    BY <1>1, <2>4, <2>5, <2>6, <2>7, <2>8 DEF Work
<1>2. CASE \E h \in Handlers : StepFails(h) \/ Crash(h)
  BY <1>2 DEF StepFails, Crash, meetingVars
<1>3. CASE \E h \in Handlers, f \in Recorded : Resolve(h, f)
  BY <1>3 DEF Resolve, Skip, meetingVars
<1>4. CASE DeleteNote \/ UNCHANGED vars
  BY <1>4 DEF DeleteNote, vars, meetingVars
<1> QED
  BY <1>1, <1>2, <1>3, <1>4 DEF Next

(* With one take and one handler at a time, a job that is run again after  *)
(* its take was logged, wherever the earlier runs failed or died and       *)
(* whichever transcriber wrote, transcribes and encodes nothing again and  *)
(* leaves the note its audio.                                              *)
THEOREM RunAgainReusesFiles ==
  ASSUME Alone
  PROVE  Spec => RerunReusesFiles
<1>1. Init => AloneInv
  BY AloneInit
<1>2. TypeOK /\ AloneInv /\ [Next]_vars => AloneInv'
  BY AloneNext
<1>3. TypeOK /\ AloneInv /\ [Next]_vars =>
        (logged # {} => UNCHANGED <<mp3, transcript, references>>)
  BY FinishedStays
<1>4. Spec => [](TypeOK /\ AloneInv)
  BY <1>1, <1>2, TypeCorrect, PTL DEF Spec
<1> QED
  BY <1>3, <1>4, PTL DEF Spec, RerunReusesFiles
=============================================================================

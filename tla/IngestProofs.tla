---------------------------- MODULE IngestProofs ----------------------------
(***************************************************************************)
(* Filing a recording, for any number of recordings, meetings, commands    *)
(* and faults: the types, one note per meeting, the right one, one job per *)
(* recording, and minutes that survive.                                    *)
(***************************************************************************)
EXTENDS Ingest, TLAPS

-----------------------------------------------------------------------------
(* The inductive invariant *)

Memory == [todo : SUBSET Files, seen : SUBSET Ids, at : Times, file : Files \union {None},
           take : Recordings \union {None}, id : Ids \union {None}, note : Notes \union {None}]

Filing == {"find", "name", "write", "rename", "queue", "log"}

(* What a command has in its memory at a label.  A poll files a recording  *)
(* under the event it found at its start. *)
CommandOK(c, label, m) ==
  /\ m \in Memory
  /\ label \in {"idle", "discover", "work", "find", "name", "write", "rename", "queue", "log", "done"}
  /\ c \in Pollers => label \notin {"rename", "done"}
  /\ c \in Backfillers => label \notin {"discover", "log"}
  /\ c \in Starters => label \in {"idle", "find", "name", "write", "done"}
  /\ label \in Filing => m.id \in Ids
  /\ label \in Filing /\ c \notin Starters => m.file \in Files /\ m.take \in Recordings
  /\ label \in {"write", "rename", "queue", "log"} => m.note \in Notes /\ m.note.id = m.id
  /\ label = "write" => m.note.place = "meetings"
  /\ label \in Filing /\ c \in Pollers =>
       m.id = IF EventAt[m.at] = None THEN m.take ELSE EventAt[m.at]

MemoryOK ==
  /\ mem \in [Commands -> Memory]
  /\ \A c \in Commands : CommandOK(c, pc[c], mem[c])

Typed == TypeOK /\ MemoryOK

(* The lock directory keeps the polls apart. *)
OnePoll ==
  \A c \in Pollers : pc[c] # "idle" => lockDir /\ \A d \in Pollers \ {c} : pc[d] = "idle"

(* Only backfills and `stop` name a file otherwise than its recording.     *)
FilesAreNamed ==
  \A f \in Files : audio[f] # None =>
    /\ audio[f] \in arrived
    /\ f[1] \in Recordings \/ audio[f] \notin exposed => f[1] = audio[f]

(* What a backfill has in hand has been exposed. *)
BackfillInHand ==
  \A c \in Backfillers : pc[c] \in Filing =>
    /\ mem[c].take \in exposed /\ mem[c].take \in arrived
    /\ mem[c].file[1] \in Recordings => mem[c].file[1] = mem[c].take
    /\ audio[mem[c].file] \in exposed \union {None}

(* A poll takes one file of each family, of no family that was logged.     *)
PollInHand ==
  \A c \in Pollers :
    /\ pc[c] = "idle" => mem[c].todo = {}
    /\ \A f \in mem[c].todo : f[1] \notin ingested
    /\ \A f, g \in mem[c].todo : f[1] = g[1] => f = g
    /\ pc[c] \in Filing =>
         /\ mem[c].file[1] \notin ingested /\ \A f \in mem[c].todo : f[1] # mem[c].file[1]
         /\ mem[c].take \notin exposed => mem[c].file[1] = mem[c].take

(* What was queued is logged, or about to be. *)
QueuedIsLogged ==
  \A r \in queued \ exposed :
    r \in ingested \/ \E c \in Pollers : pc[c] = "log" /\ mem[c].take = r

(* Without a race a command that creates a note is alone at it, and the    *)
(* meeting has none yet. *)
AboutToWrite(c) == pc[c] \in {"name", "write"}
NotesApart ==
  /\ \A n \in notes : n.place = "elsewhere" => n.id \in raced
  /\ \A c \in Commands : AboutToWrite(c) /\ mem[c].id \notin raced =>
       /\ \A n \in notes : n.id # mem[c].id
       /\ \A d \in Commands \ {c} : AboutToWrite(d) => mem[d].id # mem[c].id

NotesOK == NotesApart /\ OneNotePerMeeting
TakenOK == FilesAreNamed /\ BackfillInHand /\ PollInHand /\ QueuedIsLogged
IInv == Typed /\ NotesOK /\ OnePoll /\ TakenOK

-----------------------------------------------------------------------------
(* Types *)

LEMMA BlankIsMemory == Blank \in Memory
BY ConstantsAssumption DEF Blank, Memory, Times

LEMMA MemoryDomain ==
  ASSUME NEW m \in Memory
  PROVE  DOMAIN m = DOMAIN Blank
BY DEF Memory, Blank

(* A note, by its id and its number. *)
LEMMA NoteIs ==
  ASSUME NEW id \in Ids, NEW k \in Copies
  PROVE  Note(id, k) \in Notes /\ Note(id, k).id = id /\ Note(id, k).place = "meetings" /\ Note(id, k).copy = k
BY DEF Note, Notes

LEMMA FileIs ==
  ASSUME NEW f \in Files
  PROVE  f[1] \in Ids /\ f[2] \in Formats /\ f = <<f[1], f[2]>>
BY DEF Files

(* One command takes a step in its own memory. *)
LEMMA OneCommand ==
  ASSUME Typed, NEW c \in Commands, NEW label, NEW m, CommandOK(c, label, m),
         pc' = [pc EXCEPT ![c] = label], mem' = [mem EXCEPT ![c] = m],
         now' \in Times, audio' \in [Files -> Recordings \union {None}],
         arrived' = arrived, grown' = grown, notes' \subseteq Notes, minutes' \subseteq notes',
         transcripts' = transcripts, markers' = markers,
         queue' \in Seq([id : Ids, note : Notes, file : Files]),
         ingested' \subseteq Ids, lockDir' \in BOOLEAN,
         queued' \subseteq Recordings, exposed' \subseteq Recordings, raced' \subseteq Ids
  PROVE  Typed'
<1>1. MemoryOK'
  <2>1. mem' \in [Commands -> Memory]
    BY DEF Typed, MemoryOK, CommandOK
  <2>2. \A d \in Commands : CommandOK(d, pc'[d], mem'[d])
    BY DEF Typed, MemoryOK, TypeOK
  <2>3. \A d \in Commands : CommandOK(d, pc[d], mem[d])'
    BY <2>2 DEF CommandOK
  <2> QED
    BY <2>1, <2>3 DEF MemoryOK
<1>2. \A d \in Commands : DOMAIN mem'[d] = DOMAIN Blank
  BY <1>1, MemoryDomain DEF MemoryOK
<1>3. pc' \in [Commands -> {"idle", "discover", "work", "find", "name", "write", "rename", "queue", "log", "done"}]
  BY DEF Typed, TypeOK, CommandOK
<1>4. TypeOK'
  BY <1>2, <1>3 DEF Typed, TypeOK
<1> QED
  BY <1>1, <1>4 DEF Typed

(* The world's steps leave the commands alone. *)
LEMMA NoCommand ==
  ASSUME Typed, UNCHANGED <<pc, mem>>,
         now' \in Times, audio' \in [Files -> Recordings \union {None}],
         arrived' \subseteq Recordings, grown' \subseteq arrived', notes' \subseteq Notes, minutes' \subseteq notes',
         transcripts' \subseteq Ids, markers' \subseteq Files,
         queue' \in Seq([id : Ids, note : Notes, file : Files]),
         ingested' \subseteq Ids, lockDir' \in BOOLEAN,
         queued' \subseteq Recordings, exposed' \subseteq Recordings, raced' \subseteq Ids
  PROVE  Typed'
<1>1. MemoryOK'
  BY DEF Typed, MemoryOK, CommandOK
<1>2. TypeOK'
  BY DEF Typed, TypeOK
<1> QED
  BY <1>1, <1>2 DEF Typed

LEMMA InitTyped == Init => Typed
<1> SUFFICES ASSUME Init PROVE Typed
  OBVIOUS
<1>1. \A c \in Commands : CommandOK(c, pc[c], mem[c])
  BY BlankIsMemory DEF Init, CommandOK, Filing, Commands
<1>2. MemoryOK
  BY <1>1, BlankIsMemory DEF Init, MemoryOK
<1>3. TypeOK
  BY ConstantsAssumption DEF Init, TypeOK
<1> QED
  BY <1>2, <1>3 DEF Typed
(* Only the command's memory changes, with its label. *)
LEMMA ContinueTyped ==
  ASSUME Typed, NEW c \in Commands, NEW label, NEW m, CommandOK(c, label, m), Continue(c, label, m),
         queued' \subseteq Recordings, exposed' \subseteq Recordings, raced' \subseteq Ids
  PROVE  Typed'
BY OneCommand DEF Continue, Goto, folder, vault, Typed, TypeOK

LEMMA LoopedOK ==
  ASSUME Typed, NEW c \in Commands
  PROVE  /\ Looped(c) \in Memory /\ Looped(c).todo = mem[c].todo
         /\ c \notin Starters => CommandOK(c, "work", Looped(c))
         /\ c \in Starters => CommandOK(c, "done", Looped(c))
<1>1. mem[c] \in Memory
  BY DEF Typed, MemoryOK
<1>2. Looped(c) \in Memory /\ Looped(c).todo = mem[c].todo
  BY <1>1, BlankIsMemory DEF Looped, Memory, Blank
<1> QED
  BY <1>2, ConstantsAssumption DEF CommandOK, Filing, Commands

(* The best of the notes that are found. *)
LEMMA OneIsFirst ==
  ASSUME NEW found \in SUBSET Notes, NEW id, found # {}, \A n \in found : n.id = id
  PROVE  \E n \in found : \A o \in found :
           \/ n.place = "elsewhere" /\ o.place = "meetings"
           \/ n.place = o.place /\ n.copy >= o.copy
<1>1. \A n \in Notes : n.copy \in {1, 2, 3} /\ n.place \in {"meetings", "elsewhere"}
  BY DEF Notes, Copies
<1>2. ASSUME NEW S \in SUBSET found, S # {}
      PROVE  \E n \in S : \A o \in S : n.copy >= o.copy
  <2>1. CASE \E n \in S : n.copy = 3
    BY <1>1, <2>1
  <2>2. CASE (\A n \in S : n.copy # 3) /\ \E n \in S : n.copy = 2
    BY <1>1, <2>2
  <2>3. CASE \A n \in S : n.copy = 1
    BY <1>2, <2>3
  <2> QED
    BY <1>1, <2>1, <2>2, <2>3
<1> DEFINE Away == {n \in found : n.place = "elsewhere"}
<1>3. CASE Away # {}
  <2>1. PICK n \in Away : \A o \in Away : n.copy >= o.copy
    BY <1>2, <1>3
  <2> QED
    BY <1>1, <2>1
<1>4. CASE Away = {}
  <2>1. PICK n \in found : \A o \in found : n.copy >= o.copy
    BY <1>2
  <2> QED
    BY <1>1, <1>4, <2>1
<1> QED
  BY <1>3, <1>4

LEMMA FindNoteTyped ==
  ASSUME Typed, NEW c \in Commands, FindNote(c)
  PROVE  Typed'
<1> DEFINE id == mem[c].id
           found == {n \in notes : n.id = id /\ (c \in Starters \/ id \in Recordings => n.place = "meetings")}
           first == CHOOSE n \in found : \A o \in found :
                      \/ n.place = "elsewhere" /\ o.place = "meetings"
                      \/ n.place = o.place /\ n.copy >= o.copy
<1>1. /\ CommandOK(c, "find", mem[c]) /\ pc[c] = "find" /\ notes \subseteq Notes /\ id \in Ids
      /\ queued \subseteq Recordings /\ exposed \subseteq Recordings /\ raced \subseteq Ids
  BY DEF FindNote, Typed, MemoryOK, TypeOK, CommandOK, Filing
<1>2. queued' \subseteq Recordings /\ exposed' \subseteq Recordings /\ raced' \subseteq Ids
  BY <1>1 DEF FindNote
<1>3. CASE found = {} /\ Continue(c, "name", mem[c])
  <2>1. CommandOK(c, "name", mem[c])
    BY <1>1 DEF CommandOK, Filing
  <2> QED
    BY <1>2, <1>3, <2>1, ContinueTyped
<1>4. CASE found # {} /\ Continue(c, Noted(c), IF c \in Starters THEN Blank ELSE [mem[c] EXCEPT !.note = first])
  <2>1. first \in found
    <3>1. found \in SUBSET Notes /\ \A n \in found : n.id = id
      BY <1>1
    <3> HIDE DEF found
    <3>2. \E n \in found : \A o \in found :
            \/ n.place = "elsewhere" /\ o.place = "meetings"
            \/ n.place = o.place /\ n.copy >= o.copy
      BY <1>4, <3>1, OneIsFirst
    <3> QED
      BY <3>2
  <2> HIDE DEF first
  <2>2. first \in Notes /\ first.id = id
    BY <1>1, <2>1
  <2>3. CASE c \in Starters
    <3>1. CommandOK(c, "done", Blank)
      BY <2>3, ConstantsAssumption, BlankIsMemory DEF CommandOK, Filing
    <3>2. Continue(c, "done", Blank)
      <4>1. Noted(c) = "done"
        BY <2>3, ConstantsAssumption DEF Noted
      <4> QED
        BY <1>4, <2>3, <4>1
    <3> QED
      BY <1>2, <3>1, <3>2, ContinueTyped
  <2>4. CASE c \notin Starters
    <3> DEFINE m == [mem[c] EXCEPT !.note = first]
    <3>1. m \in Memory /\ m.id = id /\ m.note = first /\ m.file = mem[c].file /\ m.take = mem[c].take /\ m.at = mem[c].at
      BY <1>1, <2>2 DEF CommandOK, Memory
    <3> HIDE DEF m
    <3>2. CommandOK(c, Noted(c), m)
      BY <1>1, <2>2, <2>4, <3>1, ConstantsAssumption DEF CommandOK, Filing, Noted, Commands
    <3> QED
      BY <1>2, <1>4, <2>4, <3>2, ContinueTyped DEF m
  <2> QED
    BY <2>3, <2>4
<1> QED
  BY <1>3, <1>4 DEF FindNote
LEMMA DiscoverTyped ==
  ASSUME Typed, NEW c \in Commands, Discover(c)
  PROVE  Typed'
<1> DEFINE todo == IF c \in Backfillers THEN Collapsed
                   ELSE {f \in Collapsed : f[1] \notin ingested /\ audio[f] \in grown}
           seen == IF c \in Backfillers THEN ingested ELSE {}
           m == [Blank EXCEPT !.todo = todo, !.seen = seen, !.at = now]
<1>1. /\ queued' \subseteq Recordings /\ exposed' \subseteq Recordings /\ raced' \subseteq Ids
      /\ ingested \subseteq Ids /\ now \in Times
  BY DEF Discover, Typed, TypeOK, history
<1>2. todo \subseteq Files /\ seen \subseteq Ids
  BY <1>1 DEF Collapsed
<1> HIDE DEF todo, seen
<1>3. m \in Memory
  BY <1>1, <1>2, BlankIsMemory DEF Memory
<1>4. CommandOK(c, "work", m)
  BY <1>3, ConstantsAssumption DEF CommandOK, Filing, Discover
<1>5. Continue(c, "work", m)
  BY DEF Discover, todo, seen
<1> QED
  BY <1>1, <1>4, <1>5, ContinueTyped

LEMMA MatchTyped ==
  ASSUME Typed, NEW c \in Commands, NEW f \in Files, Match(c, f)
  PROVE  Typed'
<1> DEFINE r == audio[f]
           mm(e) == [mem[c] EXCEPT !.todo = @ \ {f}, !.file = f, !.take = r,
                                   !.id = IF e = None THEN r ELSE e]
<1>1. /\ CommandOK(c, "work", mem[c]) /\ pc[c] = "work" /\ r \in Recordings /\ EventAt \in [Times -> Meetings \union {None}]
      /\ queued \subseteq Recordings /\ exposed \subseteq Recordings /\ raced \subseteq Ids
      /\ TakenAt[r] \in Times
  BY ConstantsAssumption DEF Match, Typed, MemoryOK, TypeOK
<1>2. queued' \subseteq Recordings /\ exposed' \subseteq Recordings /\ raced' \subseteq Ids
  BY <1>1 DEF Match
<1>3. PICK e \in Meetings \union {None} :
        /\ Continue(c, "find", mm(e))
        /\ c \in Pollers => e = EventAt[mem[c].at]
  <2>1. mem[c].at \in Times
    BY <1>1 DEF CommandOK, Memory
  <2>2. CASE c \in Pollers
    <3>1. EventAt[mem[c].at] \in Meetings \union {None}
      BY <1>1, <2>1 DEF Times
    <3>2. PICK e \in {EventAt[mem[c].at]} : Continue(c, "find", mm(e))
      BY <2>2, ConstantsAssumption DEF Match
    <3> QED
      BY <3>1, <3>2
  <2>3. CASE c \in Backfillers /\ ~Review
    BY <1>1, <2>3, ConstantsAssumption DEF Match
  <2>4. CASE c \notin Pollers /\ ~(c \in Backfillers /\ ~Review)
    BY <1>1, <2>4 DEF Match
  <2> QED
    BY <2>2, <2>3, <2>4
<1>4. /\ mm(e) \in Memory /\ mm(e).file = f /\ mm(e).take = r /\ mm(e).at = mem[c].at
      /\ mm(e).id = (IF e = None THEN r ELSE e) /\ mm(e).id \in Ids
  BY <1>1 DEF CommandOK, Memory, Ids
<1> HIDE DEF mm
<1>5. CommandOK(c, "find", mm(e))
  BY <1>1, <1>3, <1>4 DEF CommandOK, Filing
<1> QED
  BY <1>2, <1>3, <1>5, ContinueTyped

LEMMA RenameTyped ==
  ASSUME Typed, NEW c \in Commands, RenameFile(c)
  PROVE  Typed'
<1> DEFINE m == mem[c]
           target == <<m.id, m.file[2]>>
           moved == IF Rename /\ m.id \in Meetings THEN target ELSE m.file
           n == [m EXCEPT !.file = moved]
<1>1. /\ CommandOK(c, "rename", m) /\ pc[c] = "rename" /\ c \in Backfillers /\ c \notin Starters
      /\ mem \in [Commands -> Memory] /\ pc \in [Commands -> {"idle", "discover", "work", "find", "name", "write",
                          "rename", "queue", "log", "done"}]
      /\ audio \in [Files -> Recordings \union {None}]
  BY ConstantsAssumption DEF RenameFile, Typed, MemoryOK, TypeOK, CommandOK, Commands
<1>2. moved \in Files /\ m.file \in Files
  BY <1>1, FileIs DEF CommandOK, Filing, Files
<1>3. n \in Memory /\ n.file = moved /\ n.id = m.id /\ n.note = m.note /\ n.take = m.take
  BY <1>1, <1>2 DEF CommandOK, Memory
<1> HIDE DEF moved, n, m
<1>4. CommandOK(c, "queue", n)
  BY <1>1, <1>2, <1>3, ConstantsAssumption DEF CommandOK, Filing
<1>5. CommandOK(c, "work", Looped(c))
  BY <1>1, LoopedOK
<1>6. CASE pc' = [pc EXCEPT ![c] = "work"] /\ mem' = [mem EXCEPT ![c] = Looped(c)] /\ audio' = audio
  BY <1>1, <1>5, <1>6, OneCommand DEF RenameFile, vault, history, Typed, TypeOK
<1>7. CASE /\ pc' = [pc EXCEPT ![c] = "queue"] /\ mem' = [mem EXCEPT ![c] = n]
           /\ audio' = [[audio EXCEPT ![m.file] = None] EXCEPT ![moved] = audio[m.file]]
  <2>1. audio' \in [Files -> Recordings \union {None}]
    BY <1>1, <1>2, <1>7
  <2> QED
    BY <1>1, <1>4, <1>7, <2>1, OneCommand DEF RenameFile, vault, history, Typed, TypeOK
<1>8. mem' = [mem EXCEPT ![c].file = moved] => mem' = [mem EXCEPT ![c] = n]
  BY <1>1, <1>2 DEF n, m
<1> QED
  BY <1>6, <1>7, <1>8 DEF RenameFile, Goto, moved, m
LEMMA NameTyped ==
  ASSUME Typed, NEW c \in Commands, NameNote(c)
  PROVE  Typed'
<1>1. PICK k \in Copies : Continue(c, "write", [mem[c] EXCEPT !.note = Note(mem[c].id, k)])
  BY DEF NameNote
<1> DEFINE m == [mem[c] EXCEPT !.note = Note(mem[c].id, k)]
<1>2. CommandOK(c, "name", mem[c])
  BY DEF NameNote, Typed, MemoryOK
<1>3. /\ Note(mem[c].id, k) \in Notes /\ Note(mem[c].id, k).id = mem[c].id
      /\ Note(mem[c].id, k).place = "meetings"
  BY <1>2, NoteIs DEF CommandOK, Filing
<1>4. /\ m \in Memory /\ m.note = Note(mem[c].id, k) /\ m.id = mem[c].id /\ m.file = mem[c].file
      /\ m.take = mem[c].take /\ m.at = mem[c].at
  BY <1>2, <1>3 DEF CommandOK, Memory
<1> HIDE DEF m
<1>5. CommandOK(c, "write", m)
  BY <1>2, <1>3, <1>4 DEF CommandOK, Filing
<1>6. queued' \subseteq Recordings /\ exposed' \subseteq Recordings /\ raced' \subseteq Ids
  BY DEF NameNote, history, Typed, TypeOK
<1> QED
  BY <1>1, <1>5, <1>6, ContinueTyped DEF m

LEMMA WriteTyped ==
  ASSUME Typed, NEW c \in Commands, WriteNote(c)
  PROVE  Typed'
<1>1. /\ CommandOK(c, "write", mem[c]) /\ mem \in [Commands -> Memory]
      /\ notes' \subseteq Notes /\ minutes' \subseteq notes'
  BY DEF WriteNote, Typed, MemoryOK, TypeOK, CommandOK
<1>2. CASE c \in Starters
  <2>1. CommandOK(c, "done", Blank) /\ Noted(c) = "done"
    BY <1>2, ConstantsAssumption, BlankIsMemory DEF CommandOK, Filing, Noted
  <2> QED
    BY <1>1, <1>2, <2>1, OneCommand DEF WriteNote, Goto, folder, history, Typed, TypeOK
<1>3. CASE c \notin Starters
  <2>1. CommandOK(c, Noted(c), mem[c])
    BY <1>1, <1>3, ConstantsAssumption DEF CommandOK, Filing, Noted, Commands
  <2>2. mem' = [mem EXCEPT ![c] = mem[c]]
    BY <1>1, <1>3 DEF WriteNote
  <2> QED
    BY <1>1, <2>1, <2>2, OneCommand DEF WriteNote, Goto, folder, history, Typed, TypeOK
<1> QED
  BY <1>2, <1>3

LEMMA EnqueueTyped ==
  ASSUME Typed, NEW c \in Commands, Enqueue(c)
  PROVE  Typed'
<1>1. CommandOK(c, "queue", mem[c]) /\ mem \in [Commands -> Memory]
  BY DEF Enqueue, Typed, MemoryOK
<1>2. c \notin Starters /\ mem[c].id \in Ids /\ mem[c].note \in Notes /\ mem[c].file \in Files /\ mem[c].take \in Recordings
  BY <1>1, ConstantsAssumption DEF CommandOK, Filing
<1>3. queue' \in Seq([id : Ids, note : Notes, file : Files]) /\ queued' \subseteq Recordings
  BY <1>2 DEF Enqueue, Typed, TypeOK
<1>4. CASE c \in Pollers /\ Goto(c, "log") /\ UNCHANGED mem
  <2>1. CommandOK(c, "log", mem[c])
    BY <1>1, <1>4, ConstantsAssumption DEF CommandOK, Filing
  <2>2. mem' = [mem EXCEPT ![c] = mem[c]]
    BY <1>1, <1>4
  <2> QED
    BY <1>3, <1>4, <2>1, <2>2, OneCommand DEF Enqueue, Goto, folder, vault, Typed, TypeOK
<1>5. CASE c \in Backfillers /\ Goto(c, "work") /\ mem' = [mem EXCEPT ![c] = Looped(c)]
  BY <1>2, <1>3, <1>5, LoopedOK, OneCommand DEF Enqueue, Goto, folder, vault, Typed, TypeOK
<1> QED
  BY <1>4, <1>5 DEF Enqueue

LEMMA LogTyped ==
  ASSUME Typed, NEW c \in Commands, Log(c)
  PROVE  Typed'
<1>1. CommandOK(c, "log", mem[c])
  BY DEF Log, Typed, MemoryOK
<1>2. c \notin Starters /\ mem[c].file[1] \in Ids
  BY <1>1, FileIs DEF CommandOK, Filing
<1> QED
  BY <1>2, LoopedOK, OneCommand DEF Log, Goto, folder, vault, history, Typed, TypeOK

LEMMA BlankOK ==
  ASSUME NEW c \in Commands
  PROVE  /\ CommandOK(c, "idle", Blank)
         /\ c \notin Pollers => CommandOK(c, "done", Blank)
         /\ c \notin Starters => CommandOK(c, "work", Blank)
BY BlankIsMemory DEF CommandOK, Filing

(* Killed, or an exception. *)
LEMMA FailureTyped ==
  ASSUME Typed, NEW c \in Commands, Raise(c) \/ Crash(c)
  PROVE  Typed'
<1>1. CommandOK(c, pc[c], mem[c])
  BY DEF Typed, MemoryOK
<1>2. queued' \subseteq Recordings /\ raced' \subseteq Ids
  BY DEF Raise, Crash, Typed, TypeOK
<1>3. exposed' \subseteq Recordings
  <2>1. pc[c] = "log" => mem[c].take \in Recordings
    BY <1>1 DEF CommandOK, Filing
  <2> QED
    BY <2>1 DEF Raise, Crash, Typed, TypeOK
<1>4. CASE Raise(c)
  <2>1. PICK label : /\ Continue(c, label, Looped(c))
                     /\ label = IF c \in Starters THEN "done" ELSE "work"
    BY <1>4 DEF Raise
  <2> QED
    BY <1>2, <1>3, <2>1, LoopedOK, ContinueTyped
<1>5. CASE Crash(c)
  <2>1. PICK label : /\ Continue(c, label, Blank)
                     /\ label = IF c \in Pollers THEN "idle" ELSE "done"
    BY <1>5 DEF Crash
  <2> QED
    BY <1>2, <1>3, <2>1, BlankOK, ContinueTyped
<1> QED
  BY <1>4, <1>5

LEMMA ArriveTyped ==
  ASSUME Typed, NEW r \in Recordings, Arrive(r)
  PROVE  Typed'
<1> DEFINE own == {<<FamilyOf(r), x>> : x \in Variants[r]}
<1>1. FamilyOf(r) \in Ids
  BY ConstantsAssumption DEF FamilyOf, Ids
<1>2. \A f \in own : f \in Files /\ f[1] \in Ids
  BY <1>1, ConstantsAssumption DEF Files
<1>3. queue' \in Seq([id : Ids, note : Notes, file : Files])
  <2>1. CASE UNCHANGED queue
    BY <2>1 DEF Typed, TypeOK
  <2>2. ASSUME NEW f \in own, queue' = Append(queue, [id |-> f[1], note |-> Note(f[1], 1), file |-> f])
        PROVE  queue' \in Seq([id : Ids, note : Notes, file : Files])
    <3>1. Note(f[1], 1) \in Notes
      BY <1>2, NoteIs DEF Copies
    <3> QED
      BY <1>2, <2>2, <3>1 DEF Typed, TypeOK
  <2> QED
    BY <2>1, <2>2 DEF Arrive
<1>4. /\ audio' \in [Files -> Recordings \union {None}] /\ arrived' \subseteq Recordings
      /\ queued' \subseteq Recordings /\ exposed' \subseteq Recordings
  BY DEF Arrive, Typed, TypeOK
<1> QED
  BY <1>3, <1>4, NoCommand DEF Arrive, vault, Typed, TypeOK

LEMMA MoveTyped ==
  ASSUME Typed, NEW n \in notes, MoveNote(n)
  PROVE  Typed'
<1> DEFINE moved == [n EXCEPT !.place = "elsewhere"]
<1>1. n \in Notes /\ moved \in Notes /\ n.id \in Ids /\ moved.id = n.id
  BY DEF Typed, TypeOK, Notes
<1> HIDE DEF moved
<1>2. notes' \subseteq Notes /\ minutes' \subseteq notes' /\ raced' \subseteq Ids
  BY <1>1 DEF MoveNote, moved, Typed, TypeOK
<1> QED
  BY <1>2, NoCommand DEF MoveNote, folder, Typed, TypeOK

LEMMA ProcessTyped ==
  ASSUME Typed, Process
  PROVE  Typed'
<1> DEFINE S == [id : Ids, note : Notes, file : Files]
           j == Head(queue)
           wav == <<j.file[1], "wav">>
           m4a == <<j.file[1], "m4a">>
<1>1. j \in S /\ queue' \in Seq(S)
  <2>1. queue \in Seq(S) /\ queue # <<>> /\ queue' = Tail(queue)
    BY DEF Process, Typed, TypeOK
  <2> HIDE DEF S
  <2> QED
    BY <2>1
<1>2. wav \in Files /\ m4a \in Files /\ j.id \in Ids
  <2>1. j.id \in Ids /\ j.file \in Files
    BY <1>1
  <2> HIDE DEF j
  <2> QED
    BY <2>1, FileIs DEF Files, Formats
<1>3. /\ audio \in [Files -> Recordings \union {None}] /\ minutes \subseteq notes /\ notes \subseteq Notes
      /\ transcripts \subseteq Ids /\ markers \subseteq Files
  BY DEF Typed, TypeOK
<1>4. /\ audio' = audio \/ audio' = [audio EXCEPT ![wav] = None]
      /\ minutes' = minutes \/ \E n \in notes : minutes' = minutes \union {n}
      /\ transcripts' = transcripts \/ transcripts' = transcripts \union {j.id}
      /\ markers' = markers \/ markers' = markers \union {m4a}
      /\ notes' = notes
  BY DEF Process, vault
<1> HIDE DEF wav, m4a, j
<1>5. /\ audio' \in [Files -> Recordings \union {None}] /\ minutes' \subseteq notes
      /\ transcripts' \subseteq Ids /\ markers' \subseteq Files
  BY <1>2, <1>3, <1>4
<1> QED
  BY <1>1, <1>3, <1>4, <1>5, NoCommand DEF Process, history, Typed, TypeOK

LEMMA OtherStepTyped ==
  ASSUME Typed, NEW c \in Commands, Lock(c) \/ Unlock(c) \/ Finish(c) \/ Start(c)
  PROVE  Typed'
<1>1. /\ CommandOK(c, pc[c], mem[c]) /\ mem \in [Commands -> Memory] /\ now \in Times
      /\ EventAt \in [Times -> Meetings \union {None}]
  BY ConstantsAssumption DEF Typed, TypeOK, MemoryOK
<1>2. CASE Lock(c)
  <2>1. CommandOK(c, "discover", mem[c]) /\ mem' = [mem EXCEPT ![c] = mem[c]]
    BY <1>1, <1>2, ConstantsAssumption DEF Lock, CommandOK, Filing
  <2> QED
    BY <1>2, <2>1, OneCommand DEF Lock, Goto, folder, vault, history, Typed, TypeOK
<1>3. CASE Unlock(c)
  BY <1>3, BlankOK, OneCommand DEF Unlock, Goto, folder, vault, history, Typed, TypeOK
<1>4. CASE Finish(c)
  <2>1. c \notin Pollers
    BY <1>4, ConstantsAssumption DEF Finish
  <2> QED
    BY <1>4, <2>1, BlankOK, ContinueTyped DEF Finish, history, Typed, TypeOK
<1>5. CASE Start(c)
  <2> DEFINE m == [Blank EXCEPT !.id = EventAt[now]]
  <2>1. m \in Memory /\ m.id \in Ids
    BY <1>1, <1>5, BlankIsMemory DEF Start, Memory, Ids
  <2> HIDE DEF m
  <2>2. CommandOK(c, "find", m)
    BY <1>5, <2>1, ConstantsAssumption DEF CommandOK, Filing, Start
  <2> QED
    BY <1>5, <2>2, ContinueTyped DEF Start, m, history, Typed, TypeOK
<1> QED
  BY <1>2, <1>3, <1>4, <1>5

LEMMA ListTyped ==
  ASSUME Typed, NEW c \in Commands, NEW f \in Files, PickVanished(c, f) \/ Skip(c, f)
  PROVE  Typed'
<1> DEFINE m == [mem[c] EXCEPT !.todo = @ \ {f}]
<1>1. /\ CommandOK(c, "work", mem[c]) /\ queued' \subseteq Recordings /\ exposed' \subseteq Recordings /\ raced' \subseteq Ids
  BY DEF PickVanished, Skip, Typed, TypeOK, MemoryOK, history
<1>2. m \in Memory
  BY <1>1 DEF CommandOK, Memory
<1>3. CommandOK(c, "work", m) /\ CommandOK(c, "work", Blank)
  <2> HIDE DEF m
  <2> QED
    BY <1>1, <1>2, BlankIsMemory DEF CommandOK, Filing
<1>4. CASE Continue(c, "work", m)
  BY <1>1, <1>3, <1>4, ContinueTyped
<1>5. CASE Continue(c, "work", Blank)
  BY <1>1, <1>3, <1>5, ContinueTyped
<1> QED
  BY <1>4, <1>5 DEF PickVanished, Skip

(* Every step keeps the types. *)
LEMMA TypedNext == Typed /\ [Next]_vars => Typed'
<1> SUFFICES ASSUME Typed, [Next]_vars PROVE Typed'
  OBVIOUS
<1>1. CASE UNCHANGED vars
  BY <1>1, NoCommand DEF vars, folder, vault, history, Typed, TypeOK
<1>2. CASE Tick \/ RemoveStaleLock
  BY <1>2, NoCommand DEF Tick, RemoveStaleLock, folder, vault, history, Typed, TypeOK
<1>3. ASSUME NEW r \in Recordings, Grow(r) PROVE Typed'
  BY <1>3, NoCommand DEF Grow, vault, history, Typed, TypeOK
<1>4. ASSUME NEW c \in Commands, CommandStep(c) PROVE Typed'
  BY <1>4, ListTyped, MatchTyped, FindNoteTyped, NameTyped, WriteTyped, RenameTyped, EnqueueTyped, LogTyped,
     OtherStepTyped, FailureTyped, DiscoverTyped DEF CommandStep
<1>5. ASSUME NEW c \in Commands, Lock(c) \/ Start(c) \/ Crash(c) PROVE Typed'
  BY <1>5, OtherStepTyped, FailureTyped
<1>6. Backfillers \subseteq Commands
  BY DEF Commands
<1> QED
  BY <1>1, <1>2, <1>3, <1>4, <1>5, <1>6, DiscoverTyped, ProcessTyped, ArriveTyped, MoveTyped DEF Next
-----------------------------------------------------------------------------
(* The steps *)

StepOf(c) == CommandStep(c) \/ Lock(c) \/ Start(c) \/ Crash(c) \/ Discover(c)
WorldStep ==
  \/ UNCHANGED vars \/ Tick \/ Process \/ RemoveStaleLock
  \/ \E r \in Recordings : Grow(r) \/ Arrive(r)
  \/ \E n \in notes : MoveNote(n)

LEMMA Steps ==
  ASSUME [Next]_vars
  PROVE  WorldStep \/ \E c \in Commands : StepOf(c)
<1>1. Backfillers \subseteq Commands
  BY DEF Commands
<1> QED
  BY <1>1 DEF Next, StepOf, WorldStep

(* A step is a command's own. *)
LEMMA Others ==
  ASSUME Typed, NEW c \in Commands, StepOf(c), NEW d \in Commands \ {c}
  PROVE  pc'[d] = pc[d] /\ mem'[d] = mem[d]
<1>1. mem \in [Commands -> Memory] /\ DOMAIN pc = Commands
  BY DEF Typed, TypeOK, MemoryOK
<1>2. CASE Lock(c) \/ Unlock(c) \/ Finish(c) \/ Start(c)
  BY <1>1, <1>2 DEF Lock, Unlock, Finish, Start, Continue, Goto
<1>3. CASE \E f \in Files : PickVanished(c, f) \/ Match(c, f) \/ Skip(c, f)
  BY <1>1, <1>3 DEF PickVanished, Match, Skip, Continue, Goto
<1>4. CASE FindNote(c) \/ NameNote(c) \/ Discover(c) \/ Raise(c) \/ Crash(c)
  BY <1>1, <1>4 DEF FindNote, NameNote, Discover, Raise, Crash, Continue, Goto
<1>5. CASE WriteNote(c) \/ RenameFile(c) \/ Enqueue(c) \/ Log(c)
  BY <1>1, <1>5 DEF WriteNote, RenameFile, Enqueue, Log, Goto
<1> QED
  BY <1>2, <1>3, <1>4, <1>5 DEF StepOf, CommandStep

(* What a command's step does with its label and memory. *)
LEMMA OwnMemory ==
  ASSUME Typed, NEW c \in Commands
  PROVE  /\ mem \in [Commands -> Memory] /\ DOMAIN pc = Commands /\ CommandOK(c, pc[c], mem[c])
         /\ \A label, m : Continue(c, label, m) => pc'[c] = label /\ mem'[c] = m
         /\ \A label : Goto(c, label) => pc'[c] = label
         /\ \A m : mem' = [mem EXCEPT ![c] = m] => mem'[c] = m
BY DEF Typed, TypeOK, MemoryOK, Continue, Goto

-----------------------------------------------------------------------------
(* Notes *)

LEMMA NotesQuiet ==
  ASSUME NotesOK, notes' = notes, raced \subseteq raced',
         \A d \in Commands : (AboutToWrite(d))' => AboutToWrite(d) /\ mem'[d].id = mem[d].id
  PROVE  NotesOK'
BY DEF NotesOK, NotesApart, OneNotePerMeeting

(* A step of a command's, as far as notes are concerned. *)
LEMMA NotesQuietStep ==
  ASSUME Typed, NotesOK, NEW c \in Commands, StepOf(c), notes' = notes, raced \subseteq raced',
         pc'[c] \in {"name", "write"} => AboutToWrite(c) /\ mem'[c].id = mem[c].id
  PROVE  NotesOK'
<1>1. \A d \in Commands : (AboutToWrite(d))' => AboutToWrite(d) /\ mem'[d].id = mem[d].id
  BY Others DEF AboutToWrite
<1> QED
  BY <1>1, NotesQuiet

LEMMA NotedIsDone == \A c \in Commands : Noted(c) \in {"done", "queue", "rename"}
BY DEF Noted, Commands

(* A lookup that finds nothing, alone, means there is nothing. *)
LEMMA FindNoteNotes ==
  ASSUME Typed, NotesOK, NEW c \in Commands, FindNote(c)
  PROVE  NotesOK'
<1>1. StepOf(c) /\ notes' = notes /\ raced \subseteq raced'
  BY DEF StepOf, CommandStep, FindNote, Continue, vault
<1>2. CASE pc'[c] = "name" /\ mem'[c] = mem[c] /\
           {n \in notes : n.id = mem[c].id /\ (c \in Starters \/ mem[c].id \in Recordings => n.place = "meetings")} = {}
  <2>1. \A n \in notes : n.place \in {"meetings", "elsewhere"}
    BY DEF Typed, TypeOK, Notes
  <2>2. mem[c].id \notin raced' => \A n \in notes : n.id # mem[c].id
    BY <1>1, <1>2, <2>1 DEF NotesOK, NotesApart
  <2>3. mem[c].id \notin raced' => \A d \in Commands \ {c} : AboutToWrite(d) => mem[d].id # mem[c].id
    BY DEF FindNote, Creating, AboutToWrite
  <2>4. \A d \in Commands \ {c} : pc'[d] = pc[d] /\ mem'[d] = mem[d]
    BY <1>1, Others
  <2>5. OneNotePerMeeting'
    BY <1>1 DEF NotesOK, OneNotePerMeeting
  <2>6. ASSUME NEW d \in Commands, (AboutToWrite(d))', mem'[d].id \notin raced'
        PROVE  /\ \A n \in notes' : n.id # mem'[d].id
               /\ \A e \in Commands \ {d} : (AboutToWrite(e))' => mem'[e].id # mem'[d].id
    <3>1. CASE d = c
      BY <1>1, <1>2, <2>2, <2>3, <2>4, <2>6, <3>1 DEF AboutToWrite
    <3>2. CASE d # c
      BY <1>1, <1>2, <2>2, <2>3, <2>4, <2>6, <3>2 DEF AboutToWrite, NotesOK, NotesApart
    <3> QED
      BY <3>1, <3>2
  <2>7. NotesApart'
    BY <1>1, <2>6 DEF NotesOK, NotesApart
  <2> QED
    BY <2>5, <2>7 DEF NotesOK
<1>3. CASE pc'[c] = Noted(c)
  BY <1>1, <1>3, NotedIsDone, NotesQuietStep
<1> QED
  BY <1>2, <1>3, OwnMemory DEF FindNote

LEMMA WriteNoteNotes ==
  ASSUME Typed, NotesOK, NEW c \in Commands, WriteNote(c)
  PROVE  NotesOK'
<1>1. StepOf(c) /\ raced' = raced /\ notes' = notes \union {mem[c].note} /\ pc[c] = "write"
  BY DEF StepOf, CommandStep, WriteNote, history
<1>2. mem[c].note.id = mem[c].id /\ mem[c].note.place = "meetings"
  BY <1>1, OwnMemory DEF CommandOK
<1>3. pc'[c] \notin {"name", "write"}
  BY OwnMemory, NotedIsDone DEF WriteNote
<1>4. \A d \in Commands \ {c} : pc'[d] = pc[d] /\ mem'[d] = mem[d]
  BY <1>1, Others
<1>5. OneNotePerMeeting'
  BY <1>1, <1>2 DEF NotesOK, NotesApart, OneNotePerMeeting, AboutToWrite
<1>6. NotesApart'
  BY <1>1, <1>2, <1>3, <1>4 DEF NotesOK, NotesApart, AboutToWrite
<1> QED
  BY <1>5, <1>6 DEF NotesOK

LEMMA MoveNotes ==
  ASSUME Typed, NotesOK, NEW n \in notes, MoveNote(n)
  PROVE  NotesOK'
<1> DEFINE moved == [n EXCEPT !.place = "elsewhere"]
<1>1. moved.id = n.id /\ notes' = (notes \ {n}) \union {moved}
  BY DEF MoveNote, Typed, TypeOK, Notes
<1>2. raced' = raced \union {n.id} /\ UNCHANGED <<pc, mem>>
  BY DEF MoveNote
<1> HIDE DEF moved
<1>3. OneNotePerMeeting'
  BY <1>1, <1>2 DEF NotesOK, OneNotePerMeeting
<1>4. NotesApart'
  BY <1>1, <1>2 DEF NotesOK, NotesApart, AboutToWrite
<1> QED
  BY <1>3, <1>4 DEF NotesOK

LEMMA NotesNext ==
  ASSUME Typed, NotesOK, [Next]_vars
  PROVE  NotesOK'
<1>1. CASE WorldStep
  <2>1. ASSUME NEW n \in notes, MoveNote(n) PROVE NotesOK'
    BY <2>1, MoveNotes
  <2>2. CASE UNCHANGED <<notes, raced, pc, mem>>
    BY <2>2, NotesQuiet DEF AboutToWrite
  <2> QED
    BY <1>1, <2>1, <2>2 DEF WorldStep, vars, Tick, Process, RemoveStaleLock, Grow, Arrive, vault, history
<1>2. ASSUME NEW c \in Commands, StepOf(c) PROVE NotesOK'
  <2>1. CASE Lock(c) \/ Unlock(c) \/ Finish(c) \/ Start(c) \/ Discover(c)
    <3>1. notes' = notes /\ raced' = raced /\ pc'[c] \notin {"name", "write"}
      BY <2>1, OwnMemory DEF Lock, Unlock, Finish, Start, Discover, Continue, vault, history
    <3> QED
      BY <1>2, <3>1, NotesQuietStep
  <2>2. CASE \E f \in Files : PickVanished(c, f) \/ Match(c, f) \/ Skip(c, f)
    <3>1. notes' = notes /\ raced' = raced /\ pc'[c] \notin {"name", "write"}
      BY <2>2, OwnMemory DEF PickVanished, Match, Skip, Continue, vault, history
    <3> QED
      BY <1>2, <3>1, NotesQuietStep
  <2>3. CASE NameNote(c)
    <3>1. notes' = notes /\ raced' = raced /\ pc[c] = "name"
      BY <2>3 DEF NameNote, Continue, vault, history
    <3>2. mem'[c].id = mem[c].id
      BY <2>3, OwnMemory DEF NameNote, Memory
    <3> QED
      BY <1>2, <3>1, <3>2, NotesQuietStep DEF AboutToWrite
  <2>4. CASE RenameFile(c) \/ Enqueue(c) \/ Log(c)
    <3>1. notes' = notes /\ raced' = raced /\ pc'[c] \notin {"name", "write"}
      BY <2>4, OwnMemory DEF RenameFile, Enqueue, Log, vault, history
    <3> QED
      BY <1>2, <3>1, NotesQuietStep
  <2>5. CASE Raise(c) \/ Crash(c)
    <3>1. notes' = notes /\ raced' = raced /\ pc'[c] \notin {"name", "write"}
      BY <2>5, OwnMemory DEF Raise, Crash, Continue, vault
    <3> QED
      BY <1>2, <3>1, NotesQuietStep
  <2> QED
    BY <1>2, <2>1, <2>2, <2>3, <2>4, <2>5, FindNoteNotes, WriteNoteNotes DEF StepOf, CommandStep
<1> QED
  BY <1>1, <1>2, Steps

LEMMA FilingRight == Typed => FiledUnderItsMeeting
BY DEF Typed, MemoryOK, CommandOK, FiledUnderItsMeeting, Filing, Commands

LEMMA NotesInit == Init => NotesOK
BY DEF Init, NotesOK, NotesApart, OneNotePerMeeting, AboutToWrite

LEMMA MinutesStep ==
  ASSUME Typed, NotesOK, [Next]_vars
  PROVE  [\A n \in minutes : n \in minutes' \/ n.id \in raced']_vars
<1>1. SUFFICES ASSUME NEW n \in minutes PROVE n \in minutes' \/ n.id \in raced'
  OBVIOUS
<1>2. n \in notes /\ n \in Notes
  BY DEF Typed, TypeOK
<1>3. CASE WorldStep
  <2>1. ASSUME NEW o \in notes, MoveNote(o) PROVE n \in minutes' \/ n.id \in raced'
    BY <2>1 DEF MoveNote
  <2>2. CASE Process
    BY <2>2 DEF Process, vault
  <2>3. CASE UNCHANGED minutes
    BY <2>3
  <2> QED
    BY <1>3, <2>1, <2>2, <2>3 DEF WorldStep, vars, Tick, RemoveStaleLock, Grow, Arrive, vault
<1>4. ASSUME NEW c \in Commands, StepOf(c) PROVE n \in minutes' \/ n.id \in raced'
  <2>1. CASE WriteNote(c)
    <3>1. CASE n = mem[c].note
      <4>1. n.id = mem[c].id /\ AboutToWrite(c)
        BY <2>1, <3>1, OwnMemory DEF WriteNote, CommandOK, AboutToWrite
      <4>2. n.id \in raced
        BY <1>2, <4>1 DEF NotesOK, NotesApart
      <4> QED
        BY <2>1, <4>2 DEF WriteNote, history
    <3>2. CASE n # mem[c].note
      BY <2>1, <3>2 DEF WriteNote
    <3> QED
      BY <3>1, <3>2
  <2>2. CASE UNCHANGED minutes
    BY <2>2
  <2> QED
    BY <1>4, <2>1, <2>2 DEF StepOf, CommandStep, Lock, Unlock, Finish, Start, Discover, PickVanished, Match, Skip,
       NameNote, FindNote, RenameFile, Enqueue, Log, Raise, Crash, Continue, vault
<1> QED
  BY <1>3, <1>4, Steps
-----------------------------------------------------------------------------
(* One poll at a time *)

LEMMA OnePollNext ==
  ASSUME Typed, OnePoll, [Next]_vars
  PROVE  OnePoll'
<1>1. CASE WorldStep
  <2>1. CASE RemoveStaleLock
    BY <2>1 DEF RemoveStaleLock, OnePoll
  <2>2. CASE UNCHANGED <<lockDir, pc>>
    BY <2>2 DEF OnePoll
  <2> QED
    BY <1>1, <2>1, <2>2 DEF WorldStep, vars, Tick, Process, Grow, Arrive, MoveNote
<1>2. ASSUME NEW c \in Commands, StepOf(c) PROVE OnePoll'
  <2>1. \A d \in Commands \ {c} : pc'[d] = pc[d]
    BY <1>2, Others
  <2>2. Pollers \subseteq Commands
    BY DEF Commands
  <2>3. CASE Lock(c)
    BY <2>1, <2>2, <2>3, OwnMemory DEF Lock, OnePoll
  <2>4. CASE Unlock(c)
    BY <2>1, <2>2, <2>4, OwnMemory DEF Unlock, OnePoll
  <2>5. CASE lockDir' = lockDir /\ (c \in Pollers => pc[c] # "idle")
    BY <2>1, <2>2, <2>5 DEF OnePoll
  <2> QED
    BY <1>2, <2>3, <2>4, <2>5, ConstantsAssumption DEF StepOf, CommandStep, Finish, Start, Discover, PickVanished, Match, Skip,
       NameNote, FindNote, WriteNote, RenameFile, Enqueue, Log, Raise, Crash, Continue
<1> QED
  BY <1>1, <1>2, Steps

-----------------------------------------------------------------------------
(* One job per recording *)

(* A step of the world's that at most takes files away. *)
LEMMA TakenQuiet ==
  ASSUME Typed, TakenOK, UNCHANGED <<arrived, ingested, queued, exposed, pc, mem>>,
         \A f \in Files : audio'[f] \in {audio[f], None}
  PROVE  TakenOK'
<1>1. \A c \in Backfillers : pc[c] \in Filing => mem[c].file \in Files
  BY ConstantsAssumption DEF Typed, MemoryOK, CommandOK, Commands
<1>2. FilesAreNamed'
  BY DEF TakenOK, FilesAreNamed
<1>3. BackfillInHand'
  BY <1>1 DEF TakenOK, BackfillInHand
<1>4. PollInHand' /\ QueuedIsLogged'
  BY DEF TakenOK, PollInHand, QueuedIsLogged
<1> QED
  BY <1>2, <1>3, <1>4 DEF TakenOK

(* A step of a command's that takes up nothing new. *)
LEMMA TakenQuietStep ==
  ASSUME Typed, TakenOK, NEW c \in Commands, StepOf(c),
         UNCHANGED <<audio, arrived, ingested, queued>>, exposed \subseteq exposed',
         mem'[c].todo \subseteq mem[c].todo,
         pc'[c] = "idle" => pc[c] = "idle" \/ mem'[c].todo = {},
         pc'[c] \in Filing /\ c \notin Starters =>
           pc[c] \in Filing /\ mem'[c].take = mem[c].take /\ mem'[c].file = mem[c].file,
         c \in Pollers /\ pc[c] = "log" => mem[c].take \in exposed'
  PROVE  TakenOK'
<1>1. \A d \in Commands \ {c} : pc'[d] = pc[d] /\ mem'[d] = mem[d]
  BY Others
<1>2. Pollers \subseteq Commands /\ Backfillers \subseteq Commands
  BY DEF Commands
<1>3. FilesAreNamed'
  BY DEF TakenOK, FilesAreNamed
<1>4. ASSUME NEW d \in Backfillers, pc'[d] \in Filing
      PROVE  pc[d] \in Filing /\ mem'[d].take = mem[d].take /\ mem'[d].file = mem[d].file
  BY <1>1, <1>2, <1>4, ConstantsAssumption
<1>5. BackfillInHand'
  BY <1>4 DEF TakenOK, BackfillInHand
<1>6. ASSUME NEW d \in Pollers
      PROVE  /\ mem'[d].todo \subseteq mem[d].todo /\ (pc'[d] = "idle" => pc[d] = "idle" \/ mem'[d].todo = {})
             /\ pc'[d] \in Filing => pc[d] \in Filing /\ mem'[d].take = mem[d].take /\ mem'[d].file = mem[d].file
  BY <1>1, <1>2, ConstantsAssumption
<1>7. PollInHand'
  BY <1>6 DEF TakenOK, PollInHand
<1>8. QueuedIsLogged'
  BY <1>1, <1>2 DEF TakenOK, QueuedIsLogged
<1> QED
  BY <1>3, <1>5, <1>7, <1>8 DEF TakenOK

(* A new recording is under its own name, or exposed. *)
LEMMA ArriveTaken ==
  ASSUME Typed, TakenOK, NEW r \in Recordings, Arrive(r)
  PROVE  TakenOK'
<1> DEFINE own == {<<FamilyOf(r), x>> : x \in Variants[r]}
<1>1. /\ r \notin arrived /\ arrived' = arrived \union {r} /\ UNCHANGED <<ingested, pc, mem>>
      /\ \A f \in Files : audio'[f] = IF f \in own THEN r ELSE audio[f]
      /\ \A f \in own : f[1] = FamilyOf(r)
  BY DEF Arrive
<1>2. /\ exposed \subseteq exposed' /\ queued' \ exposed' \subseteq queued \ exposed
      /\ r \in Named => r \in exposed' /\ FamilyOf(r) \notin Recordings
      /\ r \notin Named => FamilyOf(r) = r
  <2>1. r \in Named => FamilyOf(r) \in Meetings
    <3>1. TakenAt[r] \in Times /\ EventAt \in [Times -> Meetings \union {None}]
      BY ConstantsAssumption
    <3>2. EventAt[TakenAt[r]] \in Meetings \union {None}
      BY <3>1
    <3> QED
      BY <3>2, ConstantsAssumption DEF FamilyOf
  <2> QED
    BY <2>1, ConstantsAssumption DEF Arrive, FamilyOf
<1> HIDE DEF own
<1>3. FilesAreNamed'
  <2>1. SUFFICES ASSUME NEW f \in Files, audio'[f] # None
                 PROVE  audio'[f] \in arrived' /\ (f[1] \in Recordings \/ audio'[f] \notin exposed' => f[1] = audio'[f])
    BY DEF FilesAreNamed
  <2>2. CASE f \in own
    BY <1>1, <1>2, <2>2
  <2>3. CASE f \notin own
    BY <1>1, <1>2, <2>1, <2>3 DEF TakenOK, FilesAreNamed
  <2> QED
    BY <2>2, <2>3
<1>4. BackfillInHand'
  <2>1. SUFFICES ASSUME NEW c \in Backfillers, pc[c] \in Filing, mem[c].file \in own
                 PROVE  audio'[mem[c].file] \in exposed' \union {None}
    <3>1. \A c \in Backfillers : pc[c] \in Filing => mem[c].file \in Files
      BY ConstantsAssumption DEF Typed, MemoryOK, CommandOK, Commands
    <3> QED
      BY <1>1, <1>2, <3>1 DEF TakenOK, BackfillInHand
  <2>2. mem[c].file \in Files /\ mem[c].take \in arrived /\ (mem[c].file[1] \in Recordings => mem[c].file[1] = mem[c].take)
    BY <2>1, ConstantsAssumption DEF Typed, MemoryOK, CommandOK, Commands, TakenOK, BackfillInHand
  <2> QED
    BY <1>1, <1>2, <2>1, <2>2
<1>5. PollInHand' /\ QueuedIsLogged'
  BY <1>1, <1>2 DEF TakenOK, PollInHand, QueuedIsLogged
<1> QED
  BY <1>3, <1>4, <1>5 DEF TakenOK

(* The folder's list names one file of a family. *)
LEMMA CollapsedFamilies ==
  ASSUME NEW f \in Collapsed, NEW g \in Collapsed, f[1] = g[1]
  PROVE  f = g
<1>1. /\ f = <<f[1], f[2]>> /\ g = <<g[1], g[2]>>
      /\ f[2] \in {"wav", "m4a"} /\ g[2] \in {"wav", "m4a"}
      /\ audio[f] # None /\ audio[g] # None
      /\ (f[2] = "m4a" => audio[<<f[1], "wav">>] = None) /\ (g[2] = "m4a" => audio[<<g[1], "wav">>] = None)
  BY FileIs DEF Collapsed, Formats
<1>2. f[2] = g[2]
  BY <1>1
<1> QED
  BY <1>1, <1>2

LEMMA DiscoverTaken ==
  ASSUME Typed, TakenOK, NEW c \in Commands, Discover(c)
  PROVE  TakenOK'
<1>1. /\ StepOf(c) /\ UNCHANGED <<audio, arrived, ingested, queued, exposed>>
      /\ pc'[c] = "work" /\ pc[c] \in {"discover", "idle"}
  BY OwnMemory DEF StepOf, Discover, Continue, folder, history
<1>2. c \in Pollers => \A f \in mem'[c].todo : f \in Collapsed /\ f[1] \notin ingested
  <2>1. SUFFICES ASSUME c \in Pollers PROVE \A f \in mem'[c].todo : f \in Collapsed /\ f[1] \notin ingested
    OBVIOUS
  <2>2. c \notin Backfillers
    BY <2>1, ConstantsAssumption
  <2>3. mem'[c] = [Blank EXCEPT !.todo = {f \in Collapsed : f[1] \notin ingested /\ audio[f] \in grown},
                                !.seen = {}, !.at = now]
    BY <2>2, OwnMemory DEF Discover
  <2>4. mem'[c].todo = {f \in Collapsed : f[1] \notin ingested /\ audio[f] \in grown}
    BY <2>3 DEF Blank
  <2> QED
    BY <2>4
<1>3. \A d \in Commands \ {c} : pc'[d] = pc[d] /\ mem'[d] = mem[d]
  BY <1>1, Others
<1>4. Pollers \subseteq Commands /\ Backfillers \subseteq Commands
  BY DEF Commands
<1>5. FilesAreNamed'
  BY <1>1 DEF TakenOK, FilesAreNamed
<1>6. BackfillInHand'
  BY <1>1, <1>3, <1>4 DEF TakenOK, BackfillInHand, Filing
<1>7. PollInHand'
  <2>1. SUFFICES ASSUME NEW d \in Pollers
                 PROVE  /\ pc'[d] = "idle" => mem'[d].todo = {}
                        /\ \A f \in mem'[d].todo : f[1] \notin ingested
                        /\ \A f, g \in mem'[d].todo : f[1] = g[1] => f = g
                        /\ pc'[d] \in Filing =>
                             /\ mem'[d].file[1] \notin ingested /\ \A f \in mem'[d].todo : f[1] # mem'[d].file[1]
                             /\ mem'[d].take \notin exposed => mem'[d].file[1] = mem'[d].take
    BY <1>1 DEF PollInHand
  <2>2. CASE d = c
    BY <1>1, <1>2, <2>2, CollapsedFamilies DEF Filing
  <2>3. CASE d # c
    BY <1>3, <1>4, <2>3 DEF TakenOK, PollInHand
  <2> QED
    BY <2>2, <2>3
<1>8. QueuedIsLogged'
  BY <1>1, <1>3, <1>4 DEF TakenOK, QueuedIsLogged
<1> QED
  BY <1>5, <1>6, <1>7, <1>8 DEF TakenOK

(* A poll takes a recording under its own name, a backfill exposes it. *)
LEMMA MatchTaken ==
  ASSUME Typed, TakenOK, NEW c \in Commands, NEW f \in Files, Match(c, f)
  PROVE  TakenOK'
<1>1. /\ StepOf(c) /\ UNCHANGED <<audio, arrived, ingested, queued>> /\ pc[c] = "work" /\ f \in mem[c].todo
      /\ audio[f] # None
      /\ exposed' = IF c \in Backfillers THEN exposed \union {audio[f]} ELSE exposed
  BY DEF StepOf, CommandStep, Match, Continue, folder
<1>2. PICK e : Continue(c, "find", [mem[c] EXCEPT !.todo = @ \ {f}, !.file = f, !.take = audio[f],
                                                  !.id = IF e = None THEN audio[f] ELSE e])
  BY DEF Match
<1>3. mem[c] \in Memory
  BY OwnMemory
<1>4. pc'[c] = "find" /\ mem'[c].todo = mem[c].todo \ {f} /\ mem'[c].file = f /\ mem'[c].take = audio[f]
  <2> DEFINE m == [mem[c] EXCEPT !.todo = @ \ {f}, !.file = f, !.take = audio[f],
                                 !.id = IF e = None THEN audio[f] ELSE e]
  <2>1. m.todo = mem[c].todo \ {f} /\ m.file = f /\ m.take = audio[f]
    BY <1>3 DEF Memory
  <2>2. Continue(c, "find", m)
    BY <1>2
  <2> HIDE DEF m
  <2> QED
    BY <2>1, <2>2, OwnMemory
<1>5. \A d \in Commands \ {c} : pc'[d] = pc[d] /\ mem'[d] = mem[d]
  BY <1>1, Others
<1>6. Pollers \subseteq Commands /\ Backfillers \subseteq Commands
  BY DEF Commands
<1>7. audio[f] \in arrived /\ (f[1] \in Recordings \/ audio[f] \notin exposed => f[1] = audio[f])
  BY <1>1 DEF TakenOK, FilesAreNamed
<1>8. FilesAreNamed'
  BY <1>1 DEF TakenOK, FilesAreNamed
<1>9. BackfillInHand'
  BY <1>1, <1>4, <1>5, <1>6, <1>7 DEF TakenOK, BackfillInHand
<1>10. PollInHand'
  <2>1. SUFFICES ASSUME NEW d \in Pollers
                 PROVE  /\ pc'[d] = "idle" => mem'[d].todo = {}
                        /\ \A g \in mem'[d].todo : g[1] \notin ingested
                        /\ \A g, h \in mem'[d].todo : g[1] = h[1] => g = h
                        /\ pc'[d] \in Filing =>
                             /\ mem'[d].file[1] \notin ingested /\ \A g \in mem'[d].todo : g[1] # mem'[d].file[1]
                             /\ mem'[d].take \notin exposed' => mem'[d].file[1] = mem'[d].take
    BY <1>1 DEF PollInHand
  <2>2. CASE d = c
    BY <1>1, <1>4, <1>7, <2>2, ConstantsAssumption DEF TakenOK, PollInHand
  <2>3. CASE d # c
    BY <1>1, <1>5, <1>6, <2>3 DEF TakenOK, PollInHand
  <2> QED
    BY <2>2, <2>3
<1>11. QueuedIsLogged'
  BY <1>1, <1>5, <1>6 DEF TakenOK, QueuedIsLogged
<1> QED
  BY <1>8, <1>9, <1>10, <1>11 DEF TakenOK

(* What a backfill renames has been exposed. *)
LEMMA RenameTaken ==
  ASSUME Typed, TakenOK, NEW c \in Commands, RenameFile(c)
  PROVE  TakenOK'
<1> DEFINE m == mem[c]
           target == <<m.id, m.file[2]>>
           moved == IF Rename /\ m.id \in Meetings THEN target ELSE m.file
<1>1. /\ StepOf(c) /\ UNCHANGED <<arrived, ingested, queued, exposed>> /\ pc[c] = "rename"
      /\ c \in Backfillers /\ c \notin Pollers /\ c \notin Starters
  BY OwnMemory, ConstantsAssumption DEF StepOf, CommandStep, RenameFile, history, CommandOK, Commands
<1>2. CASE mem' = [mem EXCEPT ![c] = Looped(c)] /\ pc' = [pc EXCEPT ![c] = "work"] /\ audio' = audio
  <2>1. mem'[c].todo = mem[c].todo /\ pc'[c] = "work"
    BY <1>2, OwnMemory, LoopedOK
  <2> QED
    BY <1>1, <1>2, <2>1, TakenQuietStep DEF Filing
<1>3. CASE /\ pc' = [pc EXCEPT ![c] = "queue"] /\ mem' = [mem EXCEPT ![c].file = moved]
           /\ audio' = [[audio EXCEPT ![m.file] = None] EXCEPT ![moved] = audio[m.file]]
  <2>1. /\ m \in Memory /\ m.file \in Files /\ mem \in [Commands -> Memory] /\ DOMAIN pc = Commands
        /\ audio \in [Files -> Recordings \union {None}]
    BY <1>1, OwnMemory DEF CommandOK, Filing, Typed, TypeOK
  <2>2. moved = m.file \/ (moved \in Files /\ moved[1] \in Meetings)
    BY <2>1, FileIs DEF Files, Ids
  <2>3. m.take \in exposed /\ m.take \in arrived /\ (m.file[1] \in Recordings => m.file[1] = m.take)
        /\ audio[m.file] \in exposed \union {None}
    BY <1>1 DEF TakenOK, BackfillInHand, Filing
  <2>4. pc'[c] = "queue" /\ mem'[c].file = moved /\ mem'[c].take = m.take /\ mem'[c].todo = m.todo
    BY <1>3, <2>1 DEF Memory
  <2>5. \A d \in Commands \ {c} : pc'[d] = pc[d] /\ mem'[d] = mem[d]
    BY <1>1, Others
  <2>6. moved \in Files
    BY <2>1, <2>2
  <2> HIDE DEF m, moved
  <2>7. /\ \A f \in Files : audio'[f] \in {audio[f], None} \/ (f = moved /\ f # m.file /\ audio'[f] = audio[m.file])
        /\ audio'[moved] = audio[m.file]
    BY <1>3, <2>1, <2>6
  <2>8. FilesAreNamed'
    <3>1. SUFFICES ASSUME NEW f \in Files, audio'[f] # None
                   PROVE  audio'[f] \in arrived /\ (f[1] \in Recordings \/ audio'[f] \notin exposed => f[1] = audio'[f])
      BY <1>1 DEF FilesAreNamed
    <3>2. CASE audio'[f] = audio[f]
      BY <3>1, <3>2 DEF TakenOK, FilesAreNamed
    <3>3. CASE f = moved /\ f # m.file /\ audio'[f] = audio[m.file]
      BY <2>1, <2>2, <2>3, <3>1, <3>3, ConstantsAssumption DEF TakenOK, FilesAreNamed
    <3> QED
      BY <2>7, <3>1, <3>2, <3>3
  <2>9. BackfillInHand'
    <3>1. SUFFICES ASSUME NEW d \in Backfillers, pc'[d] \in Filing
                   PROVE  /\ mem'[d].take \in exposed /\ mem'[d].take \in arrived
                          /\ mem'[d].file[1] \in Recordings => mem'[d].file[1] = mem'[d].take
                          /\ audio'[mem'[d].file] \in exposed \union {None}
      BY <1>1 DEF BackfillInHand
    <3>2. CASE d = c
      BY <2>2, <2>3, <2>4, <2>7, <3>2, ConstantsAssumption DEF m
    <3>3. CASE d # c
      <4>1. /\ pc'[d] = pc[d] /\ mem'[d] = mem[d] /\ mem[d].file \in Files
        BY <2>5, <3>1, <3>3, ConstantsAssumption DEF Typed, MemoryOK, CommandOK, Commands
      <4> QED
        BY <2>3, <2>7, <3>1, <4>1 DEF TakenOK, BackfillInHand
    <3> QED
      BY <3>2, <3>3
  <2>10. PollInHand' /\ QueuedIsLogged'
    <3>1. \A d \in Pollers : d \in Commands \ {c}
      BY <1>1 DEF Commands
    <3> QED
      BY <1>1, <2>5, <3>1 DEF TakenOK, PollInHand, QueuedIsLogged
  <2> QED
    BY <2>8, <2>9, <2>10 DEF TakenOK
<1> QED
  BY <1>2, <1>3 DEF RenameFile, Goto

LEMMA EnqueueTaken ==
  ASSUME Typed, TakenOK, NEW c \in Commands, Enqueue(c)
  PROVE  TakenOK'
<1>1. /\ StepOf(c) /\ UNCHANGED <<audio, arrived, ingested, exposed>> /\ pc[c] = "queue"
      /\ queued' = queued \union {mem[c].take}
  BY DEF StepOf, CommandStep, Enqueue, folder
<1>2. \A d \in Commands \ {c} : pc'[d] = pc[d] /\ mem'[d] = mem[d]
  BY <1>1, Others
<1>3. Pollers \subseteq Commands /\ Backfillers \subseteq Commands
  BY DEF Commands
<1>4. FilesAreNamed'
  BY <1>1 DEF TakenOK, FilesAreNamed
<1>5. CASE c \in Pollers /\ pc'[c] = "log" /\ mem' = mem
  <2>1. BackfillInHand' /\ PollInHand'
    BY <1>1, <1>2, <1>3, <1>5, ConstantsAssumption DEF TakenOK, BackfillInHand, PollInHand, Filing
  <2>2. QueuedIsLogged'
    BY <1>1, <1>2, <1>3, <1>5 DEF TakenOK, QueuedIsLogged
  <2> QED
    BY <1>4, <2>1, <2>2 DEF TakenOK
<1>6. CASE c \in Backfillers /\ pc'[c] = "work"
  <2>1. mem[c].take \in exposed /\ c \notin Pollers
    BY <1>1, <1>6, ConstantsAssumption DEF TakenOK, BackfillInHand, Filing
  <2>2. BackfillInHand' /\ PollInHand'
    BY <1>1, <1>2, <1>3, <1>6, <2>1 DEF TakenOK, BackfillInHand, PollInHand, Filing
  <2>3. QueuedIsLogged'
    BY <1>1, <1>2, <1>3, <2>1 DEF TakenOK, QueuedIsLogged
  <2> QED
    BY <1>4, <2>2, <2>3 DEF TakenOK
<1> QED
  BY <1>5, <1>6, OwnMemory DEF Enqueue

LEMMA LogTaken ==
  ASSUME Typed, OnePoll, TakenOK, NEW c \in Commands, Log(c)
  PROVE  TakenOK'
<1>1. /\ StepOf(c) /\ UNCHANGED <<audio, arrived, queued, exposed>> /\ pc[c] = "log"
      /\ ingested' = ingested \union {mem[c].file[1]}
  BY DEF StepOf, CommandStep, Log, folder, history
<1>2. pc'[c] = "work" /\ mem'[c].todo = mem[c].todo
  BY OwnMemory, LoopedOK DEF Log
<1>3. \A d \in Commands \ {c} : pc'[d] = pc[d] /\ mem'[d] = mem[d]
  BY <1>1, Others
<1>4. Pollers \subseteq Commands /\ Backfillers \subseteq Commands /\ c \in Pollers
  BY <1>1, OwnMemory DEF Commands, CommandOK
<1>5. \A d \in Pollers \ {c} : pc[d] = "idle" /\ mem[d].todo = {}
  BY <1>1, <1>4 DEF OnePoll, TakenOK, PollInHand
<1>6. FilesAreNamed' /\ BackfillInHand'
  BY <1>1, <1>2, <1>3, <1>4 DEF TakenOK, FilesAreNamed, BackfillInHand, Filing
<1>7. PollInHand'
  BY <1>1, <1>2, <1>3, <1>4, <1>5 DEF TakenOK, PollInHand, Filing
<1>8. QueuedIsLogged'
  <2>1. mem[c].take \notin exposed => mem[c].file[1] = mem[c].take
    BY <1>1, <1>4 DEF TakenOK, PollInHand, Filing
  <2> QED
    BY <1>1, <1>3, <1>4, <2>1 DEF TakenOK, QueuedIsLogged
<1> QED
  BY <1>6, <1>7, <1>8 DEF TakenOK

(* An exception, or the end, between the queue and the log exposes. *)
LEMMA FailureTaken ==
  ASSUME Typed, TakenOK, NEW c \in Commands, Raise(c) \/ Crash(c)
  PROVE  TakenOK'
<1>1. /\ StepOf(c) /\ UNCHANGED <<audio, arrived, ingested, queued>>
      /\ exposed' = IF pc[c] = "log" THEN exposed \union {mem[c].take} ELSE exposed
  BY DEF StepOf, CommandStep, Raise, Crash, Continue, folder
<1>2. pc'[c] \in {"idle", "work", "done"}
  BY OwnMemory DEF Raise, Crash
<1>3. Blank.todo = {}
  BY DEF Blank
<1>4. mem'[c].todo \subseteq mem[c].todo /\ (pc'[c] = "idle" => mem'[c].todo = {})
  <2>1. CASE Raise(c)
    <3>1. mem'[c] = Looped(c) /\ pc'[c] \in {"work", "done"}
      BY <2>1, OwnMemory DEF Raise
    <3> QED
      BY <3>1, LoopedOK
  <2>2. CASE Crash(c)
    BY <1>3, <2>2, OwnMemory DEF Crash
  <2> QED
    BY <2>1, <2>2
<1> QED
  BY <1>1, <1>2, <1>4, TakenQuietStep DEF Filing

LEMMA TakenNext ==
  ASSUME Typed, OnePoll, TakenOK, [Next]_vars
  PROVE  TakenOK'
<1>0. audio \in [Files -> Recordings \union {None}]
  BY DEF Typed, TypeOK
<1>1. CASE WorldStep
  <2>1. ASSUME NEW r \in Recordings, Arrive(r) PROVE TakenOK'
    BY <2>1, ArriveTaken
  <2>2. CASE Process
    <3>1. \A f \in Files : audio'[f] \in {audio[f], None}
      BY <1>0, <2>2 DEF Process
    <3> QED
      BY <2>2, <3>1, TakenQuiet DEF Process, history
  <2>3. CASE UNCHANGED <<audio, arrived, ingested, queued, exposed, pc, mem>>
    BY <2>3, TakenQuiet
  <2> QED
    BY <1>1, <2>1, <2>2, <2>3 DEF WorldStep, vars, Tick, RemoveStaleLock, Grow, MoveNote, folder, history
<1>2. ASSUME NEW c \in Commands, StepOf(c) PROVE TakenOK'
  <2>1. mem[c] \in Memory /\ Blank.todo = {}
    BY OwnMemory DEF Blank
  <2>2. CASE Lock(c) \/ Unlock(c) \/ Finish(c) \/ Start(c)
    <3>1. UNCHANGED <<audio, arrived, ingested, queued, exposed>> /\ pc[c] # "log"
      BY <2>2 DEF Lock, Unlock, Finish, Start, Continue, folder, history
    <3>2. /\ mem'[c].todo \subseteq mem[c].todo
          /\ pc'[c] = "idle" => mem'[c].todo = {}
          /\ pc'[c] \in Filing => c \in Starters
      BY <2>1, <2>2, OwnMemory DEF Lock, Unlock, Finish, Start, Blank, Filing
    <3> QED
      BY <1>2, <3>1, <3>2, TakenQuietStep
  <2>3. ASSUME NEW f \in Files, PickVanished(c, f) \/ Skip(c, f) PROVE TakenOK'
    <3>1. UNCHANGED <<audio, arrived, ingested, queued, exposed>> /\ pc[c] # "log"
      BY <2>3 DEF PickVanished, Skip, Continue, folder, history
    <3>2. mem'[c].todo \subseteq mem[c].todo /\ pc'[c] = "work"
      BY <2>1, <2>3, OwnMemory DEF PickVanished, Skip, Memory
    <3> QED
      BY <1>2, <3>1, <3>2, TakenQuietStep DEF Filing
  <2>4. CASE FindNote(c) \/ NameNote(c) \/ WriteNote(c)
    <3>1. UNCHANGED <<audio, arrived, ingested, queued, exposed>> /\ pc[c] \in Filing \ {"log"}
      BY <2>4 DEF FindNote, NameNote, WriteNote, Continue, folder, history, Filing
    <3>2. /\ mem'[c].todo \subseteq mem[c].todo /\ pc'[c] # "idle"
          /\ c \notin Starters => mem'[c].take = mem[c].take /\ mem'[c].file = mem[c].file
      <4>1. CASE FindNote(c)
        BY <2>1, <4>1, OwnMemory, NotedIsDone DEF FindNote, Memory
      <4>2. CASE NameNote(c)
        BY <2>1, <4>2, OwnMemory DEF NameNote, Memory
      <4>3. CASE WriteNote(c)
        BY <2>1, <4>3, OwnMemory, NotedIsDone DEF WriteNote
      <4> QED
        BY <2>4, <4>1, <4>2, <4>3
    <3> QED
      BY <1>2, <3>1, <3>2, TakenQuietStep
  <2> QED
    BY <1>2, <2>2, <2>3, <2>4, MatchTaken, RenameTaken, EnqueueTaken, LogTaken, FailureTaken, DiscoverTaken
       DEF StepOf, CommandStep
<1> QED
  BY <1>1, <1>2, Steps

LEMMA TakenInit == Init => OnePoll /\ TakenOK
BY DEF Init, OnePoll, TakenOK, FilesAreNamed, BackfillInHand, PollInHand, QueuedIsLogged, Commands, Blank, Filing

LEMMA EnqueueOnce ==
  ASSUME Typed, OnePoll, TakenOK, NEW c \in Pollers, Enqueue(c)
  PROVE  mem[c].take \notin queued \/ mem[c].take \in exposed
<1>1. SUFFICES ASSUME mem[c].take \in queued \ exposed PROVE FALSE
  OBVIOUS
<1>2. pc[c] = "queue"
  BY DEF Enqueue
<1>3. mem[c].file[1] \notin ingested /\ mem[c].file[1] = mem[c].take
  BY <1>1, <1>2 DEF TakenOK, PollInHand, Filing
<1>4. \A d \in Pollers : pc[d] # "log"
  BY <1>2 DEF OnePoll
<1> QED
  BY <1>1, <1>3, <1>4 DEF TakenOK, QueuedIsLogged

-----------------------------------------------------------------------------
(* Theorems *)

(* The invariant is inductive. *)
LEMMA Inductive == (Init => IInv) /\ (IInv /\ [Next]_vars => IInv')
BY InitTyped, NotesInit, TakenInit, TypedNext, NotesNext, OnePollNext, TakenNext DEF IInv

(* The types of the state, whatever fails and however the commands are     *)
(* interleaved. *)
THEOREM TypeCorrect == Spec => []TypeOK
<1>1. IInv => TypeOK
  BY DEF IInv, Typed
<1> QED
  BY <1>1, Inductive, PTL DEF Spec

(* A meeting keeps one note, and a poll files a recording in the note of   *)
(* the event that was near when it began, whatever fails and however many  *)
(* commands run, unless two of them looked for the note at once or the     *)
(* user moved it. *)
THEOREM OneNoteTheRightOne == Spec => []FiledInItsNote
<1>1. IInv => FiledInItsNote
  BY FilingRight DEF IInv, NotesOK, FiledInItsNote
<1> QED
  BY <1>1, Inductive, PTL DEF Spec

(* No command that creates a note overwrites the minutes that another one  *)
(* got meanwhile. *)
THEOREM MinutesAreSafe == Spec => MinutesSurvive
<1>1. IInv /\ [Next]_vars => [\A n \in minutes : n \in minutes' \/ n.id \in raced']_vars
  BY MinutesStep DEF IInv
<1> QED
  BY <1>1, Inductive, PTL DEF Spec, MinutesSurvive

(* The polls queue a recording once, however many are triggered and in     *)
(* whatever order they, the backfills, the worker and the faults come. *)
THEOREM NothingQueuedTwice == Spec => QueuedOnce
<1>1. IInv /\ [Next]_vars =>
        [\A c \in Pollers : Enqueue(c) => mem[c].take \notin queued \/ mem[c].take \in exposed]_vars
  BY EnqueueOnce DEF IInv
<1> QED
  BY <1>1, Inductive, PTL DEF Spec, QueuedOnce
=============================================================================

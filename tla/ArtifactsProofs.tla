-------------------------- MODULE ArtifactsProofs --------------------------
(***************************************************************************)
(* The files of a meeting's transcript, for any settings and any number of *)
(* faults: the types, the agreement of the transcript's files, the plain   *)
(* copy beside a promoted transcript, and the pruning that spares the      *)
(* meetings whose note is there.                                           *)
(***************************************************************************)
EXTENDS Artifacts, SequenceTheorems, TLAPS

(* What a script is made of. *)
Ops == [how : {"need", "copy", "backup", "move", "write"},
        from : Names \union {"plain", "sidecar"}, to : Names \X Kinds, kind : Kinds]

(* The scripts, operation by operation. *)
LEMMA AdoptIs ==
  /\ Adopt \in Seq(Ops) /\ Len(Adopt) = 4
  /\ Adopt[1] = Op("need", "sidecar", "diarized", "txt")
  /\ Adopt[2] = Op("need", "sidecar", "active", "txt")
  /\ Adopt[3] = Op("need", "sidecar", "diarized", "json")
  /\ Adopt[4] = Op("need", "sidecar", "active", "json")
BY DEF Adopt, Op, Ops, Names, Kinds

LEMMA PromoteIs ==
  /\ Promote \in Seq(Ops) /\ Len(Promote) = 4
  /\ Promote[1] = Op("backup", "active", "basic", "txt")
  /\ Promote[2] = Op("backup", "active", "basic", "json")
  /\ Promote[3] = Op("copy", "diarized", "active", "txt")
  /\ Promote[4] = Op("copy", "diarized", "active", "json")
BY DEF Promote, PerKind, Op, Ops, Names, Kinds

LEMMA CollectIs ==
  /\ Collect \in Seq(Ops) /\ Len(Collect) = 2
  /\ Collect[1] = Op("copy", "sidecar", "diarized", "txt")
  /\ Collect[2] = Op("copy", "sidecar", "diarized", "json")
BY DEF Collect, PerKind, Op, Ops, Names, Kinds

(* Two operations, then two more. *)
LEMMA JoinPairs ==
  ASSUME NEW a \in Ops, NEW b \in Ops, NEW c \in Ops, NEW d \in Ops
  PROVE  /\ <<a, b>> \o <<c, d>> \in Seq(Ops) /\ Len(<<a, b>> \o <<c, d>>) = 4
         /\ (<<a, b>> \o <<c, d>>)[1] = a /\ (<<a, b>> \o <<c, d>>)[2] = b
         /\ (<<a, b>> \o <<c, d>>)[3] = c /\ (<<a, b>> \o <<c, d>>)[4] = d
<1> DEFINE s == <<a, b>>
           t == <<c, d>>
<1>1. /\ s \in Seq(Ops) /\ Len(s) = 2 /\ s[1] = a /\ s[2] = b
      /\ t \in Seq(Ops) /\ Len(t) = 2 /\ t[1] = c /\ t[2] = d
  OBVIOUS
<1> HIDE DEF s, t
<1>2. s \o t \in Seq(Ops) /\ Len(s \o t) = 4
  <2>1. s \in Seq(Ops) /\ t \in Seq(Ops) /\ Len(s) = 2 /\ Len(t) = 2
    BY <1>1
  <2>2. s \o t \in Seq(Ops) /\ Len(s \o t) = Len(s) + Len(t)
    BY <2>1, ConcatProperties, Zenon
  <2> QED
    BY <2>1, <2>2
<1>3. (s \o t)[1] = a /\ (s \o t)[2] = b /\ (s \o t)[3] = c /\ (s \o t)[4] = d
  BY <1>1, <1>2, ConcatProperties
<1> QED
  BY <1>2, <1>3 DEF s, t

(* whisper writes both files, and renames them if they are not in place.   *)
LEMMA WhisperIs ==
  ASSUME NEW target \in {"active", "basic"}
  PROVE  /\ Whisper(target) \in Seq(Ops)
         /\ Stem \in {"raw", "active"}
         /\ Stem = target =>
              /\ Len(Whisper(target)) = 2
              /\ Whisper(target)[1] = Op("write", "plain", Stem, "txt")
              /\ Whisper(target)[2] = Op("write", "plain", Stem, "json")
         /\ Stem # target =>
              /\ Len(Whisper(target)) = 4
              /\ Whisper(target)[1] = Op("write", "plain", Stem, "txt")
              /\ Whisper(target)[2] = Op("write", "plain", Stem, "json")
              /\ Whisper(target)[3] = Op("move", Stem, target, "txt")
              /\ Whisper(target)[4] = Op("move", Stem, target, "json")
<1> DEFINE a == Op("write", "plain", Stem, "txt")
           b == Op("write", "plain", Stem, "json")
           c == Op("move", Stem, target, "txt")
           d == Op("move", Stem, target, "json")
<1>1. Stem \in {"raw", "active"}
  BY DEF Stem
<1>2. a \in Ops /\ b \in Ops /\ c \in Ops /\ d \in Ops
  BY <1>1 DEF Op, Ops, Names, Kinds
<1>3. Whisper(target) = IF Stem = target THEN <<a, b>> ELSE <<a, b>> \o <<c, d>>
  BY DEF Whisper, PerKind
<1> HIDE DEF a, b, c, d
<1>4. CASE Stem = target
  <2>1. Whisper(target) = <<a, b>>
    BY <1>3, <1>4
  <2> QED
    BY <1>1, <1>2, <1>4, <2>1 DEF a, b
<1>5. CASE Stem # target
  <2>1. Whisper(target) = <<a, b>> \o <<c, d>>
    BY <1>3, <1>5
  <2> QED
    BY <1>1, <1>2, <1>5, <2>1, JoinPairs DEF a, b, c, d
<1> QED
  BY <1>4, <1>5

-----------------------------------------------------------------------------
(* The inductive invariant *)

(* The script a program sets out with under a label. *)
Full(label) ==
  CASE label \in {"adopt", "readopt"} -> Adopt
    [] label \in {"whisper", "whisperx"} -> Whisper("active")
    [] label = "baseline" -> Whisper("basic")
    [] label = "collect" -> Collect
    [] label = "promote" -> Promote
    [] OTHER -> <<>>

Suffix(s, full) ==
  /\ s \in Seq(Ops) /\ Len(s) <= Len(full)
  /\ \A i \in 1..Len(s) : s[i] = full[Len(full) - Len(s) + i]

(* What is left to do is the end of the script the program set out with. *)
ScriptsKept ==
  /\ script \in [Writers -> Seq(Ops)]
  /\ pc \in [Programs -> UNION {Labels[p] : p \in Programs}]
  /\ heard \in [Programs -> Contents]
  /\ \A p \in Writers : Suffix(script[p], Full(pc[p]))
  /\ pc["handler"] \in {"sidecar", "adopt", "baseline", "rediarize", "readopt"} => "sidecar" \in setting
  /\ pc["handler"] = "baseline" => "keep" \in setting

Kept == TypeOK /\ ScriptsKept

(* A pruning that goes on past the scan has missed a note that was moved,  *)
(* or there is none. *)
SearchIsSound ==
  /\ note = None => missed
  /\ pc["prune"] = "scan" /\ ~missed => note = "elsewhere"
  /\ pc["prune"] = "delete" => missed

Active(k) == dir[<<"active", k>>]
Basic(k) == dir[<<"basic", k>>]
Todo(p) == Len(script[p])

(* The handler's own writes and moves alone make the transcript go away.   *)
TranscriptStays ==
  ~missed =>
    /\ pc["handler"] \in {"baseline", "rediarize", "readopt", "summarise"} => Active("txt") # None
    /\ pc["handler"] = "adopt" /\ Todo("handler") <= 2 => Active("txt") # None
    /\ held["handler"] # None /\ Head(script["handler"]).how = "need" =>
         dir[Head(script["handler"]).to] # None

(* One writer at a time, and one file at a time is in the making.          *)
OneAtWork ==
  /\ pc["handler"] = "idle" \/ pc["catchup"] = "idle"
  /\ \A p \in Writers : held[p] # None =>
       LET op == Head(script[p]) IN
       /\ held[p] = Source(p, op) /\ held[p] \in Whole
       /\ dir[op.to] = IF op.how = "move" THEN None ELSE "partial"
  /\ \A f \in Names \X Kinds : dir[f] = "partial" =>
       \E p \in Writers : held[p] # None /\ Head(script[p]).to = f

(* Only the sidecar's files are .diarized, only whisper's are raw. *)
WhoseFiles ==
  \A k \in Kinds : dir[<<"diarized", k>>] # "plain" /\ dir[<<"raw", k>>] # "labelled"

(* How far a program has come. *)
Adopting ==
  pc["handler"] \in {"adopt", "readopt"} =>
    /\ Todo("handler") <= 2 => Active("txt") = "labelled"
    /\ Todo("handler") = 0 => Active("json") = "labelled"

Recognising ==
  LET at == pc["handler"]
      n == Todo("handler")
      target == IF at = "baseline" THEN "basic" ELSE "active"
  IN at \in {"whisper", "whisperx", "baseline"} =>
       /\ n <= 1 => dir[<<target, "txt">>] = "plain"
       /\ n = 0 => dir[<<target, "json">>] = "plain"
       /\ Stem # target =>
            /\ n \in {2, 3} => dir[<<Stem, "txt">>] = "plain"
            /\ n \in {1, 2} => dir[<<Stem, "json">>] = "plain"
            /\ n <= 1 => dir[<<Stem, "txt">>] = None
            /\ n = 0 => dir[<<Stem, "json">>] = None

Promoting ==
  pc["catchup"] = "promote" =>
    /\ \A k \in Kinds : dir[<<"diarized", k>>] = "labelled"
    /\ Todo("catchup") <= 3 /\ Active("txt") = "plain" => Basic("txt") = "plain"
    /\ Todo("catchup") <= 2 /\ Active("json") = "plain" => Basic("json") = "plain"
    /\ Todo("catchup") <= 1 => Active("txt") = "labelled"
    /\ Todo("catchup") = 0 => Active("json") = "labelled"

(* No writer is at work on the active transcript.                          *)
ActiveAtRest ==
  \/ Todo("handler") = 0 /\ Todo("catchup") = 0
  \/ pc["handler"] = "baseline" /\ Stem = "raw"
  \/ pc["catchup"] = "collect"

Agrees == \A k, l \in Kinds : ~(Active(k) = "plain" /\ Active(l) = "labelled")

(* Labels come to the .json after the .txt, ... *)
LabelsInOrder ==
  /\ ActiveAtRest \/ pc["handler"] \in {"adopt", "readopt"} \/ pc["catchup"] = "promote"
  /\ Active("json") = "labelled"
  => Active("txt") # None

(* ... and a copy with labels is made only of a transcript with labels,    *)
(* which is there to stay: no plain transcript is made beside it.          *)
CopiesAreOfPlain ==
  \A k \in Kinds :
    /\ Basic(k) = "labelled" => Active(k) # "plain" /\ Active("txt") # None
    /\ pc["handler"] \in {"sidecar", "adopt", "whisper", "whisperx", "rediarize", "readopt", "baseline"} =>
         Basic(k) # "labelled"

HeardWhole == minutes # "partial" /\ \A p \in Programs : heard[p] # "partial"

Calm ==
  /\ OneAtWork /\ WhoseFiles
  /\ Adopting /\ Recognising /\ Promoting
  /\ (ActiveAtRest => Agrees) /\ LabelsInOrder /\ CopiesAreOfPlain
  /\ HeardWhole

Quiet == ~disturbed => Calm

IInv == Kept /\ SearchIsSound /\ Quiet

(* The baseline of a recording that bears the meeting's id is written over *)
(* the transcript and moved away with it: then the handler loses it.       *)
NotInPlace == \A s \in Settings : ~({"sidecar", "inplace", "keep"} \subseteq s)
-----------------------------------------------------------------------------
(* Scripts *)

LEMMA FullIsScript ==
  ASSUME NEW label
  PROVE  Full(label) \in Seq(Ops) /\ Suffix(Full(label), Full(label)) /\ Suffix(<<>>, Full(label))
<1>1. Full(label) \in Seq(Ops)
  BY AdoptIs, PromoteIs, CollectIs, WhisperIs DEF Full
<1> QED
  BY <1>1 DEF Suffix

LEMMA FullStays ==
  ASSUME NEW label, setting' = setting
  PROVE  Full(label)' = Full(label)
BY DEF Full, Whisper, Stem

(* The end of a script, with its first operation done. *)
LEMMA TailIsSuffix ==
  ASSUME NEW full \in Seq(Ops), NEW s, Suffix(s, full), s # <<>>
  PROVE  /\ Suffix(Tail(s), full) /\ Len(Tail(s)) = Len(s) - 1 /\ Len(s) > 0
         /\ Head(s) = full[Len(full) - Len(s) + 1]
<1>1. s \in Seq(Ops) /\ Len(s) > 0 /\ Len(s) <= Len(full)
  BY DEF Suffix
<1>2. Tail(s) \in Seq(Ops) /\ Len(Tail(s)) = Len(s) - 1
  BY <1>1
<1>3. \A i \in 1..Len(Tail(s)) : Tail(s)[i] = s[i + 1]
  BY <1>1, <1>2
<1>4. \A i \in 1..Len(Tail(s)) : Tail(s)[i] = full[Len(full) - Len(Tail(s)) + i]
  BY <1>1, <1>2, <1>3 DEF Suffix
<1>5. Head(s) = full[Len(full) - Len(s) + 1]
  BY <1>1 DEF Suffix
<1> QED
  BY <1>1, <1>2, <1>4, <1>5 DEF Suffix

(* With n operations left of two or of four, which is the next. *)
LEMMA Places ==
  ASSUME NEW full, NEW x, NEW n \in Nat, n > 0
  PROVE  /\ n <= 2 /\ x = full[2 - n + 1] => (n = 2 /\ x = full[1]) \/ (n = 1 /\ x = full[2])
         /\ n <= 4 /\ x = full[4 - n + 1] =>
              \/ n = 4 /\ x = full[1]
              \/ n = 3 /\ x = full[2]
              \/ n = 2 /\ x = full[3]
              \/ n = 1 /\ x = full[4]
<1>1. (n = 2 => 2 - n + 1 = 1) /\ (n = 1 => 2 - n + 1 = 2)
  OBVIOUS
<1>2. (n = 4 => 4 - n + 1 = 1) /\ (n = 3 => 4 - n + 1 = 2) /\ (n = 2 => 4 - n + 1 = 3) /\ (n = 1 => 4 - n + 1 = 4)
  OBVIOUS
<1>3. (n <= 2 => n = 1 \/ n = 2) /\ (n <= 4 => n = 1 \/ n = 2 \/ n = 3 \/ n = 4)
  OBVIOUS
<1> QED
  BY <1>1, <1>2, <1>3

(* Where a program is in its script, and the operation it is at.           *)
Stands(p, at, n, op) ==
  \/ /\ p = "handler" /\ at \in {"adopt", "readopt"}
     /\ \/ n = 4 /\ op = Op("need", "sidecar", "diarized", "txt")
        \/ n = 3 /\ op = Op("need", "sidecar", "active", "txt")
        \/ n = 2 /\ op = Op("need", "sidecar", "diarized", "json")
        \/ n = 1 /\ op = Op("need", "sidecar", "active", "json")
  \/ /\ p = "handler" /\ at \in {"whisper", "whisperx"} /\ Stem = "active"
     /\ \/ n = 2 /\ op = Op("write", "plain", "active", "txt")
        \/ n = 1 /\ op = Op("write", "plain", "active", "json")
  \/ /\ p = "handler" /\ at \in {"whisper", "whisperx"} /\ Stem = "raw"
     /\ \/ n = 4 /\ op = Op("write", "plain", "raw", "txt")
        \/ n = 3 /\ op = Op("write", "plain", "raw", "json")
        \/ n = 2 /\ op = Op("move", "raw", "active", "txt")
        \/ n = 1 /\ op = Op("move", "raw", "active", "json")
  \/ /\ p = "handler" /\ at = "baseline" /\ Stem \in {"raw", "active"}
     /\ \/ n = 4 /\ op = Op("write", "plain", Stem, "txt")
        \/ n = 3 /\ op = Op("write", "plain", Stem, "json")
        \/ n = 2 /\ op = Op("move", Stem, "basic", "txt")
        \/ n = 1 /\ op = Op("move", Stem, "basic", "json")
  \/ /\ p = "catchup" /\ at = "collect"
     /\ \/ n = 2 /\ op = Op("copy", "sidecar", "diarized", "txt")
        \/ n = 1 /\ op = Op("copy", "sidecar", "diarized", "json")
  \/ /\ p = "catchup" /\ at = "promote"
     /\ \/ n = 4 /\ op = Op("backup", "active", "basic", "txt")
        \/ n = 3 /\ op = Op("backup", "active", "basic", "json")
        \/ n = 2 /\ op = Op("copy", "diarized", "active", "txt")
        \/ n = 1 /\ op = Op("copy", "diarized", "active", "json")

(* The program and its label tell the operation it is at. *)
LEMMA WhereItStands ==
  ASSUME Kept, NEW p \in Writers, script[p] # <<>>
  PROVE  Stands(p, pc[p], Todo(p), Head(script[p]))
<1> DEFINE full == Full(pc[p])
           s == script[p]
           at == pc[p]
<1>1. full \in Seq(Ops) /\ Suffix(s, full)
  BY FullIsScript DEF Kept, ScriptsKept
<1>2. Len(s) \in Nat /\ Len(s) > 0 /\ Len(s) <= Len(full) /\ Head(s) = full[Len(full) - Len(s) + 1]
  <2>1. s # <<>>
    OBVIOUS
  <2> HIDE DEF s, full
  <2> QED
    BY <1>1, <2>1, TailIsSuffix DEF Suffix
<1>3. at \in Labels[p]
  BY DEF Kept, TypeOK, Writers, Programs
<1> HIDE DEF s, at, full
<1>4. CASE at \in {"adopt", "readopt"}
  <2>1. p = "handler"
    BY <1>3, <1>4 DEF Labels, Writers
  <2>2. full = Adopt
    BY <1>4 DEF full, at, Full
  <2>3. \/ Len(s) = 4 /\ Head(s) = Adopt[1]
        \/ Len(s) = 3 /\ Head(s) = Adopt[2]
        \/ Len(s) = 2 /\ Head(s) = Adopt[3]
        \/ Len(s) = 1 /\ Head(s) = Adopt[4]
    <3>1. Len(s) \in Nat /\ Len(s) > 0 /\ Len(s) <= 4 /\ Head(s) = Adopt[4 - Len(s) + 1]
      BY <1>2, <2>2, AdoptIs
    <3> QED
      BY <3>1, Places
  <2> QED
    BY <1>4, <2>1, <2>3, AdoptIs DEF Stands, s, at, Todo
<1>5. CASE at \in {"whisper", "whisperx"}
  <2>1. p = "handler"
    BY <1>3, <1>5 DEF Labels, Writers
  <2>2. full = Whisper("active")
    BY <1>5 DEF full, at, Full
  <2>3. CASE Stem = "active"
    <3>1. \/ Len(s) = 2 /\ Head(s) = Whisper("active")[1]
          \/ Len(s) = 1 /\ Head(s) = Whisper("active")[2]
      BY Places, <1>2, <2>2, <2>3, WhisperIs
    <3> QED
      BY <1>5, <2>1, <2>3, <3>1, WhisperIs DEF Stands, s, at, Todo
  <2>4. CASE Stem = "raw"
    <3>1. \/ Len(s) = 4 /\ Head(s) = Whisper("active")[1]
          \/ Len(s) = 3 /\ Head(s) = Whisper("active")[2]
          \/ Len(s) = 2 /\ Head(s) = Whisper("active")[3]
          \/ Len(s) = 1 /\ Head(s) = Whisper("active")[4]
      <4>1. Len(s) \in Nat /\ Len(s) > 0 /\ Len(s) <= 4 /\ Head(s) = Whisper("active")[4 - Len(s) + 1]
        BY <1>2, <2>2, <2>4, WhisperIs
      <4> QED
        BY <4>1, Places
    <3> QED
      BY <1>5, <2>1, <2>4, <3>1, WhisperIs DEF Stands, s, at, Todo
  <2> QED
    BY <2>3, <2>4, WhisperIs
<1>6. CASE at = "baseline"
  <2>1. p = "handler"
    BY <1>3, <1>6 DEF Labels, Writers
  <2>2. full = Whisper("basic")
    BY <1>6 DEF full, at, Full
  <2>3. Stem \in {"raw", "active"} /\ Stem # "basic"
    BY WhisperIs
  <2>4. \/ Len(s) = 4 /\ Head(s) = Whisper("basic")[1]
        \/ Len(s) = 3 /\ Head(s) = Whisper("basic")[2]
        \/ Len(s) = 2 /\ Head(s) = Whisper("basic")[3]
        \/ Len(s) = 1 /\ Head(s) = Whisper("basic")[4]
    <3>1. Len(s) \in Nat /\ Len(s) > 0 /\ Len(s) <= 4 /\ Head(s) = Whisper("basic")[4 - Len(s) + 1]
      BY <1>2, <2>2, <2>3, WhisperIs
    <3> QED
      BY <3>1, Places
  <2> QED
    BY <1>6, <2>1, <2>3, <2>4, WhisperIs DEF Stands, s, at, Todo
<1>7. CASE at = "collect"
  <2>1. p = "catchup"
    BY <1>3, <1>7 DEF Labels, Writers
  <2>2. full = Collect
    BY <1>7 DEF full, at, Full
  <2>3. \/ Len(s) = 2 /\ Head(s) = Collect[1]
        \/ Len(s) = 1 /\ Head(s) = Collect[2]
    BY Places, <1>2, <2>2, CollectIs
  <2> QED
    BY <1>7, <2>1, <2>3, CollectIs DEF Stands, s, at, Todo
<1>8. CASE at = "promote"
  <2>1. p = "catchup"
    BY <1>3, <1>8 DEF Labels, Writers
  <2>2. full = Promote
    BY <1>8 DEF full, at, Full
  <2>3. \/ Len(s) = 4 /\ Head(s) = Promote[1]
        \/ Len(s) = 3 /\ Head(s) = Promote[2]
        \/ Len(s) = 2 /\ Head(s) = Promote[3]
        \/ Len(s) = 1 /\ Head(s) = Promote[4]
    <3>1. Len(s) \in Nat /\ Len(s) > 0 /\ Len(s) <= 4 /\ Head(s) = Promote[4 - Len(s) + 1]
      BY <1>2, <2>2, PromoteIs
    <3> QED
      BY <3>1, Places
  <2> QED
    BY <1>8, <2>1, <2>3, PromoteIs DEF Stands, s, at, Todo
<1>9. CASE at \notin {"adopt", "readopt", "whisper", "whisperx", "baseline", "collect", "promote"}
  <2>1. full = <<>>
    BY <1>9 DEF full, at, Full
  <2> QED
    BY <1>2, <2>1
<1> QED
  BY <1>4, <1>5, <1>6, <1>7, <1>8, <1>9
-----------------------------------------------------------------------------
(* Types and scripts are kept *)

(* Under these labels a program has no script. *)
LEMMA NothingToDo ==
  ASSUME NEW s, NEW label \in {"idle", "sidecar", "rediarize", "summarise", "patch"}, Suffix(s, Full(label))
  PROVE  s = <<>>
<1>1. Full(label) = <<>>
  BY DEF Full
<1> QED
  BY <1>1 DEF Suffix

LEMMA InitKept == Init => Kept
<1> SUFFICES ASSUME Init PROVE Kept
  OBVIOUS
<1>1. ScriptsKept
  BY FullIsScript DEF Init, ScriptsKept, Labels, Writers, Programs, Contents
<1>2. TypeOK
  <2>1. {missed, disturbed} \subseteq BOOLEAN
    BY DEF Init
  <2>2. faults \in 0..MaxFaults
    BY ConstantsAssumption DEF Init
  <2>3. /\ setting \in Settings /\ dir \in [Names \X Kinds -> Contents]
        /\ sidecar \in [Writers -> SUBSET Kinds] /\ held \in [Writers -> Contents]
        /\ note \in {"meetings", "elsewhere", None} /\ minutes \in Contents
    BY DEF Init, Contents
  <2>4. \A p \in Programs : pc[p] \in Labels[p] /\ heard[p] \in Contents
    BY DEF Init, Labels, Programs, Writers, Contents
  <2> QED
    BY <2>1, <2>2, <2>3, <2>4 DEF TypeOK, Init, Writers
<1> QED
  BY <1>1, <1>2 DEF Kept

(* A writer that sets out on a whole script, or on none. *)
LEMMA BeginKeeps ==
  ASSUME Kept, NEW p \in Writers, NEW label \in Labels[p], NEW left \in SUBSET Kinds,
         NEW ops \in {Full(label), <<>>}, Begin(p, label, ops, left), faults' \in 0..MaxFaults,
         p = "handler" /\ label \in {"sidecar", "adopt", "baseline", "rediarize", "readopt"} =>
           "sidecar" \in setting,
         label = "baseline" => "keep" \in setting
  PROVE  Kept'
<1> USE DEF Kept
<1>1. Suffix(ops, Full(label)) /\ ops \in Seq(Ops)
  <2>1. Suffix(<<>>, Full(label)) /\ Suffix(Full(label), Full(label))
    BY FullIsScript
  <2>2. Suffix(ops, Full(label))
    BY <2>1
  <2> QED
    BY <2>2 DEF Suffix
<1>2. /\ pc' = [pc EXCEPT ![p] = label] /\ script' = [script EXCEPT ![p] = ops]
      /\ held' = [held EXCEPT ![p] = None] /\ setting' = setting
  BY DEF Begin, Goto
<1>3. \A q \in Writers : Suffix(script[q], Full(pc[q]))'
  <2> SUFFICES ASSUME NEW q \in Writers PROVE Suffix(script'[q], Full(pc[q])')
    BY DEF Suffix
  <2>1. Full(pc[q])' = Full(pc'[q])
    BY <1>2, FullStays
  <2> QED
    BY <1>1, <1>2, <2>1 DEF ScriptsKept, Programs, Writers
<1>4. ScriptsKept'
  BY <1>1, <1>2, <1>3 DEF Begin, ScriptsKept, Labels, Programs, Writers
<1>5. TypeOK'
  BY <1>1, <1>2, NothingToDo DEF Begin, TypeOK, ScriptsKept, Labels, Programs, Writers, Contents
<1> QED
  BY <1>4, <1>5
(* A writer that is cut short. *)
LEMMA AbandonKeeps ==
  ASSUME Kept, NEW p \in Writers, NEW label \in Labels[p], Abandon(p, label), faults' \in 0..MaxFaults,
         label \in {"idle", "summarise"}
  PROVE  Kept'
<1> USE DEF Kept
<1>1. Suffix(<<>>, Full(label)) /\ <<>> \in Seq(Ops)
  BY FullIsScript DEF Suffix
<1>2. /\ pc' = [pc EXCEPT ![p] = label] /\ script' = [script EXCEPT ![p] = <<>>]
      /\ held' = [held EXCEPT ![p] = None] /\ setting' = setting
  BY DEF Abandon, Goto
<1>3. \A q \in Writers : Suffix(script[q], Full(pc[q]))'
  <2> SUFFICES ASSUME NEW q \in Writers PROVE Suffix(script'[q], Full(pc[q])')
    BY DEF Suffix
  <2>1. Full(pc[q])' = Full(pc'[q])
    BY <1>2, FullStays
  <2> QED
    BY <1>1, <1>2, <2>1 DEF ScriptsKept, Programs, Writers
<1>4. ScriptsKept'
  BY <1>1, <1>2, <1>3 DEF Abandon, ScriptsKept, Labels, Programs, Writers
<1>5. TypeOK'
  BY <1>1, <1>2, NothingToDo DEF Abandon, TypeOK, ScriptsKept, Labels, Programs, Writers, Contents
<1> QED
  BY <1>4, <1>5

(* A program that goes on with no script to leave behind. *)
LEMMA GotoKeeps ==
  ASSUME Kept, NEW p \in Programs, NEW label \in Labels[p], Goto(p, label),
         UNCHANGED <<setting, sidecar, script, held>>,
         p \in Writers => script[p] = <<>>,
         p = "handler" => label \in {"idle", "summarise", "patch"} \/ (label = "rediarize" /\ "sidecar" \in setting),
         p = "catchup" => label = "idle",
         dir' \in [Names \X Kinds -> Contents], heard' \in [Programs -> Contents],
         note' \in {"meetings", "elsewhere", None}, minutes' \in Contents,
         {missed', disturbed'} \subseteq BOOLEAN, faults' \in 0..MaxFaults
  PROVE  Kept'
<1> USE DEF Kept
<1>1. pc' = [pc EXCEPT ![p] = label] /\ setting' = setting /\ script' = script /\ held' = held
  BY DEF Goto
<1>2. \A q \in Writers : Suffix(script[q], Full(pc[q]))'
  <2> SUFFICES ASSUME NEW q \in Writers PROVE Suffix(script'[q], Full(pc[q])')
    BY DEF Suffix
  <2>1. Full(pc[q])' = Full(pc'[q]) /\ Suffix(<<>>, Full(label))
    BY <1>1, FullStays, FullIsScript
  <2> QED
    BY <1>1, <2>1 DEF ScriptsKept, Programs, Writers
<1>3. ScriptsKept'
  <2>1. pc' \in [Programs -> UNION {Labels[q] : q \in Programs}]
    BY <1>1 DEF ScriptsKept
  <2> QED
    BY <1>1, <1>2, <2>1 DEF ScriptsKept, Labels, Programs, Writers
<1>4. TypeOK'
  <2>1. \A q \in Programs : pc'[q] \in Labels[q] /\ heard'[q] \in Contents
    BY <1>1 DEF TypeOK, ScriptsKept
  <2>2. \A q \in Writers : /\ held'[q] # None => script'[q] # <<>>
                           /\ script'[q] # <<>> => pc'[q] \notin {"idle", "sidecar", "rediarize"}
    BY <1>1 DEF TypeOK, ScriptsKept, Programs, Writers
  <2> QED
    BY <1>1, <2>1, <2>2 DEF TypeOK
<1> QED
  BY <1>3, <1>4

LEMMA SourceIsContent ==
  ASSUME Kept, NEW p \in Writers, script[p] # <<>>
  PROVE  /\ Source(p, Head(script[p])) \in Contents
         /\ Head(script[p]).to \in Names \X Kinds
<1>1. Stands(p, pc[p], Todo(p), Head(script[p]))
  BY WhereItStands
<1>2. Head(script[p]) \in Ops /\ Head(script[p]).from # "sidecar" /\ Head(script[p]).from # "plain" =>
        Head(script[p]).from \in Names
  BY DEF Ops
<1>3. Head(script[p]) \in Ops
  BY DEF Kept, ScriptsKept
<1> QED
  BY <1>2, <1>3 DEF Kept, TypeOK, Source, Ops, Contents

(* What it has left after one more operation. *)
LEMMA TailKeeps ==
  ASSUME Kept, NEW p \in Writers, script[p] # <<>>, script' = [script EXCEPT ![p] = Tail(@)],
         UNCHANGED <<setting, pc, heard>>
  PROVE  /\ ScriptsKept' /\ Todo(p)' = Todo(p) - 1 /\ Todo(p) \in Nat \ {0}
         /\ \A q \in Writers : script'[q] # <<>> => script[q] # <<>>
<1> USE DEF Kept
<1>1. Full(pc[p]) \in Seq(Ops) /\ Suffix(script[p], Full(pc[p]))
  BY FullIsScript DEF ScriptsKept
<1>2. /\ Suffix(Tail(script[p]), Full(pc[p])) /\ Len(Tail(script[p])) = Len(script[p]) - 1
      /\ Len(script[p]) > 0 /\ Len(script[p]) \in Nat /\ Tail(script[p]) \in Seq(Ops)
  <2>1. script[p] \in Seq(Ops)
    BY DEF ScriptsKept
  <2>2. /\ Suffix(Tail(script[p]), Full(pc[p])) /\ Len(Tail(script[p])) = Len(script[p]) - 1
        /\ Len(script[p]) > 0
    BY <1>1, TailIsSuffix
  <2> QED
    BY <2>1, <2>2
<1>3. \A q \in Writers : Suffix(script[q], Full(pc[q]))'
  <2> SUFFICES ASSUME NEW q \in Writers PROVE Suffix(script'[q], Full(pc[q])')
    BY DEF Suffix
  <2>1. Full(pc[q])' = Full(pc[q])
    BY FullStays
  <2> QED
    BY <1>2, <2>1 DEF ScriptsKept, Programs, Writers
<1>4. ScriptsKept'
  BY <1>2, <1>3 DEF ScriptsKept
<1> QED
  BY <1>2, <1>4 DEF ScriptsKept, Todo

LEMMA OpenKeeps ==
  ASSUME Kept, NEW p \in Writers, Open(p)
  PROVE  Kept'
<1> USE DEF Kept
<1>1. Source(p, Head(script[p])) \in Contents /\ Head(script[p]).to \in Names \X Kinds
  BY SourceIsContent DEF Open
<1>2. CASE script' = [script EXCEPT ![p] = Tail(@)] /\ UNCHANGED <<dir, held>>
  <2>1. ScriptsKept' /\ \A q \in Writers : script'[q] # <<>> => script[q] # <<>>
    BY <1>2, TailKeeps DEF Open
  <2>2. \A q \in Writers : /\ held'[q] # None => script'[q] # <<>>
                           /\ script'[q] # <<>> => pc'[q] \notin {"idle", "sidecar", "rediarize"}
    BY <1>2, <2>1 DEF Open, TypeOK
  <2>3. TypeOK'
    BY <1>2, <2>2 DEF Open, TypeOK, history
  <2> QED
    BY <2>1, <2>3
<1>3. CASE /\ dir' = [dir EXCEPT ![Head(script[p]).to] = IF Head(script[p]).how = "move" THEN None ELSE "partial"]
           /\ held' = [held EXCEPT ![p] = Source(p, Head(script[p]))] /\ UNCHANGED script
  <2>1. ScriptsKept'
    <3>1. \A q \in Writers : Full(pc[q])' = Full(pc[q])
      BY FullStays DEF Open
    <3> QED
      BY <1>3, <3>1 DEF Open, ScriptsKept, Suffix
  <2>2. TypeOK'
    BY <1>1, <1>3 DEF Open, TypeOK, Contents, history
  <2> QED
    BY <2>1, <2>2
<1> QED
  BY <1>2, <1>3 DEF Open

LEMMA CloseKeeps ==
  ASSUME Kept, NEW p \in Writers, Close(p)
  PROVE  Kept'
<1>1. ScriptsKept' /\ \A q \in Writers : script'[q] # <<>> => script[q] # <<>>
  BY TailKeeps DEF Close
<1>2. dir' \in [Names \X Kinds -> Contents] /\ held' = [held EXCEPT ![p] = None]
  BY DEF Close, Kept, TypeOK, Contents
<1> QED
  BY <1>1, <1>2 DEF Close, Kept, TypeOK, Contents, history
LEMMA EmptyKeptFull == Full("summarise") = <<>> /\ Full("sidecar") = <<>> /\ Full("idle") = <<>>
BY DEF Full

LEMMA NextKeeps ==
  ASSUME Kept, [Next]_vars
  PROVE  Kept'
<1> USE DEF Kept
<1>0. /\ faults \in 0..MaxFaults /\ MaxFaults \in Nat /\ {} \in SUBSET Kinds
      /\ "handler" \in Writers /\ "catchup" \in Writers /\ Writers \subseteq Programs
      /\ {missed, disturbed} \subseteq BOOLEAN
      /\ \A p \in Programs : pc[p] \in Labels[p]
  BY ConstantsAssumption DEF TypeOK, Writers, Programs
<1>f. \A kind : Fault(kind) => faults' \in 0..MaxFaults
  BY <1>0 DEF Fault
<1>l. /\ Labels["handler"] = {"idle", "sidecar", "adopt", "baseline", "whisper", "whisperx", "rediarize",
                              "readopt", "summarise", "patch"}
      /\ Labels["catchup"] = {"idle", "sidecar", "collect", "promote"}
  BY DEF Labels
<1>m. /\ Full("adopt") = Adopt /\ Full("readopt") = Adopt /\ Full("whisper") = Whisper("active")
      /\ Full("whisperx") = Whisper("active") /\ Full("baseline") = Whisper("basic")
      /\ Full("collect") = Collect /\ Full("promote") = Promote
  BY DEF Full
<1>n. ASSUME NEW label \in {"idle", "summarise"}, Abandon("handler", label), faults' \in 0..MaxFaults
      PROVE  Kept'
  BY <1>n, <1>0, <1>l, AbandonKeeps
<1>o. ASSUME Abandon("catchup", "idle"), faults' \in 0..MaxFaults
      PROVE  Kept'
  BY <1>o, <1>0, <1>l, AbandonKeeps
<1>1. CASE Process
  <2>1. faults' \in 0..MaxFaults
    BY <1>1, <1>0 DEF Process
  <2>2. CASE Begin("handler", "summarise", <<>>, {})
    BY <2>1, <2>2, <1>0, <1>l, EmptyKeptFull, BeginKeeps
  <2>3. CASE "sidecar" \in setting /\ Begin("handler", "sidecar", <<>>, {})
    BY <2>1, <2>3, <1>0, <1>l, EmptyKeptFull, BeginKeeps
  <2>4. CASE Begin("handler", "whisperx", Whisper("active"), {})
    BY <2>1, <2>4, <1>0, <1>l, <1>m, BeginKeeps
  <2>5. CASE Begin("handler", "whisper", Whisper("active"), {})
    BY <2>1, <2>5, <1>0, <1>l, <1>m, BeginKeeps
  <2> QED
    BY <1>1, <2>2, <2>3, <2>4, <2>5 DEF Process
<1>2. CASE Diarize
  <2> PICK left \in SUBSET Kinds :
        /\ Leaves(left)
        /\ \/ pc["handler"] = "sidecar" /\ Begin("handler", "adopt", Adopt, left)
           \/ pc["handler"] = "rediarize" /\ Begin("handler", "readopt", Adopt, left)
    BY <1>2 DEF Diarize
  <2>1. faults' \in 0..MaxFaults
    BY <1>0, <1>f DEF Leaves
  <2>2. "sidecar" \in setting
    BY DEF ScriptsKept
  <2>3. CASE Begin("handler", "adopt", Adopt, left)
    BY <2>1, <2>2, <2>3, <1>0, <1>l, <1>m, BeginKeeps
  <2>4. CASE Begin("handler", "readopt", Adopt, left)
    BY <2>1, <2>2, <2>4, <1>0, <1>l, <1>m, BeginKeeps
  <2> QED
    BY <2>3, <2>4
<1>3. CASE Baseline
  <2>1. "sidecar" \in setting /\ "keep" \in setting /\ faults' \in 0..MaxFaults
        /\ Begin("handler", "baseline", Whisper("basic"), {})
    BY <1>3, <1>0 DEF Baseline, Done, ScriptsKept
  <2> QED
    BY <2>1, <1>0, <1>l, <1>m, BeginKeeps
<1>4. CASE Transcribed
  <2>1. faults' \in 0..MaxFaults /\ Begin("handler", "summarise", <<>>, {})
    BY <1>4, <1>0 DEF Transcribed
  <2> QED
    BY <2>1, <1>0, <1>l, EmptyKeptFull, BeginKeeps
<1>5. CASE SidecarFails
  <2>1. faults' \in 0..MaxFaults
    BY <1>5, <1>0, <1>f DEF SidecarFails, AdoptRaises
  <2>2. CASE Begin("handler", "whisper", Whisper("active"), {})
    BY <2>1, <2>2, <1>0, <1>l, <1>m, BeginKeeps
  <2>3. CASE Abandon("handler", "idle")
    BY <2>1, <2>3, <1>n
  <2> QED
    BY <1>5, <2>2, <2>3 DEF SidecarFails
<1>6. CASE WhisperDone
  <2>1. CASE "sidecar" \in setting
    <3>1. /\ Goto("handler", "rediarize") /\ UNCHANGED <<setting, disk, heard, note, minutes, history, faults>>
          /\ script["handler"] = <<>>
      BY <1>6, <2>1 DEF WhisperDone, Done
    <3> QED
      BY <2>1, <3>1, <1>0, <1>l, GotoKeeps DEF disk, history, TypeOK, ScriptsKept
  <2>2. CASE "sidecar" \notin setting
    <3>1. /\ Goto("handler", "summarise") /\ UNCHANGED <<setting, disk, heard, note, minutes, history, faults>>
          /\ script["handler"] = <<>>
      BY <1>6, <2>2 DEF WhisperDone, Done
    <3> QED
      BY <3>1, <1>0, <1>l, GotoKeeps DEF disk, history, TypeOK, ScriptsKept
  <2> QED
    BY <2>1, <2>2
<1>7. CASE WhisperFails
  <2>1. faults' \in 0..MaxFaults
    BY <1>7, <1>0, <1>f DEF WhisperFails
  <2>2. CASE Begin("handler", "whisper", Whisper("active"), {})
    BY <2>1, <2>2, <1>0, <1>l, <1>m, BeginKeeps
  <2>3. CASE Abandon("handler", "idle")
    BY <2>1, <2>3, <1>n
  <2> QED
    BY <1>7, <2>2, <2>3 DEF WhisperFails
<1>8. CASE BestEffortFails
  <2>1. faults' \in 0..MaxFaults /\ Abandon("handler", "summarise")
    BY <1>8, <1>0, <1>f DEF BestEffortFails, AdoptRaises
  <2> QED
    BY <2>1, <1>n
<1>9. CASE Summarise
  <2>1. script["handler"] = <<>>
    BY <1>9, NothingToDo DEF Summarise, ScriptsKept, Writers
  <2>2. PICK label \in {"idle", "patch"} : Goto("handler", label)
    BY <1>9 DEF Summarise
  <2>3. {missed', disturbed'} \subseteq BOOLEAN
    BY <1>9, <1>0 DEF Summarise, Hear
  <2>4. heard' \in [Programs -> Contents]
    BY <1>9 DEF Summarise, Hear, TypeOK, ScriptsKept, Names, Kinds
  <2> QED
    BY <1>9, <2>1, <2>2, <2>3, <2>4, <1>0, <1>l, GotoKeeps DEF Summarise, disk, TypeOK
<1>10. CASE Catchup
  <2>1. faults' \in 0..MaxFaults
    BY <1>10, <1>0 DEF Catchup
  <2>2. CASE Begin("catchup", "promote", Promote, {})
    BY <2>1, <2>2, <1>0, <1>l, <1>m, BeginKeeps
  <2>3. CASE Begin("catchup", "sidecar", <<>>, {})
    BY <2>1, <2>3, <1>0, <1>l, EmptyKeptFull, BeginKeeps
  <2> QED
    BY <1>10, <2>2, <2>3 DEF Catchup
<1>11. CASE Collected
  <2> PICK left \in SUBSET Kinds : Leaves(left) /\ Begin("catchup", "collect", Collect, left)
    BY <1>11 DEF Collected
  <2>1. faults' \in 0..MaxFaults
    BY <1>0, <1>f DEF Leaves
  <2> QED
    BY <2>1, <1>0, <1>l, <1>m, BeginKeeps
<1>12. CASE PromoteCollected
  <2>1. faults' \in 0..MaxFaults
    BY <1>12, <1>0 DEF PromoteCollected
  <2>2. CASE Begin("catchup", "promote", Promote, {})
    BY <2>1, <2>2, <1>0, <1>l, <1>m, BeginKeeps
  <2>3. CASE Begin("catchup", "idle", <<>>, {})
    BY <2>1, <2>3, <1>0, <1>l, EmptyKeptFull, BeginKeeps
  <2> QED
    BY <1>12, <2>2, <2>3 DEF PromoteCollected
<1>13. CASE CatchupDone
  <2>1. /\ Goto("catchup", "idle") /\ UNCHANGED <<setting, disk, heard, note, minutes, history, faults>>
        /\ script["catchup"] = <<>>
    BY <1>13 DEF CatchupDone, Done
  <2> QED
    BY <2>1, <1>0, <1>l, GotoKeeps DEF disk, history, TypeOK, ScriptsKept
<1>14. CASE CatchupFails
  <2>1. faults' \in 0..MaxFaults /\ Abandon("catchup", "idle")
    BY <1>14, <1>f DEF CatchupFails
  <2> QED
    BY <2>1, <1>o
<1>15. CASE Refresh
  <2>1. /\ Goto("refresh", "patch") /\ "refresh" \in Programs \ Writers /\ "patch" \in Labels["refresh"]
        /\ UNCHANGED <<setting, disk, note, minutes, missed, faults>>
    BY <1>15 DEF Refresh, Programs, Writers, Labels
  <2>2. {missed', disturbed'} \subseteq BOOLEAN
    BY <1>15, <1>0 DEF Refresh, Hear
  <2>3. heard' \in [Programs -> Contents]
    BY <1>15 DEF Refresh, Hear, TypeOK, ScriptsKept, Names, Kinds
  <2> QED
    BY <2>1, <2>2, <2>3, <1>0, GotoKeeps DEF disk, TypeOK
<1>16. CASE Scan
  <2>1. PICK label \in Labels["prune"] : Goto("prune", label)
    BY <1>16 DEF Scan, Labels
  <2>2. "prune" \in Programs \ Writers
    BY DEF Programs, Writers
  <2> QED
    BY <1>16, <2>1, <2>2, <1>0, GotoKeeps DEF Scan, disk, history, TypeOK, ScriptsKept
<1>17. CASE Rmtree
  <2>1. Goto("prune", "idle") /\ "prune" \in Programs \ Writers /\ "idle" \in Labels["prune"]
    BY <1>17 DEF Rmtree, Programs, Writers, Labels
  <2>2. {missed', disturbed'} \subseteq BOOLEAN
    BY <1>17, <1>0 DEF Rmtree, Beside
  <2>3. dir' \in [Names \X Kinds -> Contents]
    BY <1>17 DEF Rmtree, Contents
  <2> QED
    BY <1>17, <2>1, <2>2, <2>3, <1>0, GotoKeeps DEF Rmtree, TypeOK, ScriptsKept
<1>18. CASE MoveNote \/ DeleteNote \/ RestoreNote
  <2>1. /\ UNCHANGED <<setting, disk, pc, heard, minutes>> /\ note' \in {"meetings", "elsewhere", None}
        /\ {missed', disturbed'} \subseteq BOOLEAN
    BY <1>18, <1>0 DEF MoveNote, DeleteNote, RestoreNote, history
  <2>2. faults' \in 0..MaxFaults
    BY <1>18, <1>0, <1>f DEF MoveNote, DeleteNote, RestoreNote
  <2>3. \A q \in Writers : Full(pc[q])' = Full(pc[q])
    BY <2>1, FullStays
  <2>4. ScriptsKept'
    BY <2>1, <2>3 DEF ScriptsKept, Suffix, disk
  <2> QED
    BY <2>1, <2>2, <2>4 DEF TypeOK, disk
<1>19. CASE \E p \in {"handler", "refresh"} : PatchNote(p)
  <2> PICK p \in {"handler", "refresh"} : PatchNote(p)
    BY <1>19
  <2>1. p \in Programs /\ "idle" \in Labels[p] /\ p # "catchup"
    BY DEF Programs, Writers, Labels
  <2>2. p \in Writers => script[p] = <<>>
    BY NothingToDo DEF PatchNote, ScriptsKept
  <2>3. heard' \in [Programs -> Contents] /\ minutes' \in Contents
    BY <2>1 DEF PatchNote, ScriptsKept, TypeOK, Contents
  <2> QED
    BY <2>1, <2>2, <2>3, <1>0, GotoKeeps DEF PatchNote, disk, history, TypeOK
<1>20. CASE \E p \in Writers : Open(p) \/ Close(p) \/ Crash(p)
  <2> PICK p \in Writers : Open(p) \/ Close(p) \/ Crash(p)
    BY <1>20
  <2>1. CASE Crash(p)
    <3>1. faults' \in 0..MaxFaults /\ Abandon(p, "idle") /\ "idle" \in Labels[p]
      BY <2>1, <1>f DEF Crash, Labels, Writers
    <3> QED
      BY <3>1, AbandonKeeps
  <2> QED
    BY <2>1, OpenKeeps, CloseKeeps
<1>21. CASE UNCHANGED vars
  <2>1. \A q \in Writers : Full(pc[q])' = Full(pc[q])
    BY <1>21, FullStays DEF vars
  <2>2. ScriptsKept'
    BY <1>21, <2>1 DEF ScriptsKept, Suffix, disk, vars
  <2> QED
    BY <1>21, <2>2 DEF TypeOK, disk, history, vars
<1> QED
  BY <1>1, <1>2, <1>3, <1>4, <1>5, <1>6, <1>7, <1>8, <1>9, <1>10, <1>11, <1>12, <1>13, <1>14, <1>15,
     <1>16, <1>17, <1>18, <1>19, <1>20, <1>21 DEF Next

(* Every step of every program keeps TypeOK. *)
THEOREM TypeCorrect == Spec => []TypeOK
<1>1. Init => Kept
  BY InitKept
<1>2. Kept /\ [Next]_vars => Kept'
  BY NextKeeps
<1>3. Kept => TypeOK
  BY DEF Kept
<1> QED
  BY <1>1, <1>2, <1>3, PTL DEF Spec

-----------------------------------------------------------------------------
(* The search of the vault *)

LEMMA SearchStays ==
  ASSUME Kept, SearchIsSound, [Next]_vars
  PROVE  SearchIsSound'
<1>0. /\ pc \in [Programs -> UNION {Labels[p] : p \in Programs}] /\ "prune" \in Programs \ Writers
      /\ "handler" \in Programs /\ "catchup" \in Programs /\ "refresh" \in Programs
      /\ missed \in BOOLEAN /\ note \in {"meetings", "elsewhere", None}
  BY DEF Kept, ScriptsKept, TypeOK, Programs, Writers
<1>1. CASE pc'["prune"] = pc["prune"] /\ note' = note /\ missed' = missed
  BY <1>1 DEF SearchIsSound
<1>2. CASE Process \/ Diarize \/ Baseline \/ Transcribed \/ SidecarFails \/ WhisperDone
             \/ WhisperFails \/ BestEffortFails \/ Summarise
  <2>1. pc'["prune"] = pc["prune"] /\ note' = note /\ missed' = missed
    BY <1>0, <1>2 DEF Process, Diarize, Baseline, Transcribed, SidecarFails, WhisperDone, WhisperFails,
      BestEffortFails, Summarise, Begin, Abandon, Goto, Hear, history
  <2> QED
    BY <1>1, <2>1
<1>3. CASE Catchup \/ Collected \/ PromoteCollected \/ CatchupDone \/ CatchupFails \/ Refresh
  <2>1. pc'["prune"] = pc["prune"] /\ note' = note /\ missed' = missed
    BY <1>0, <1>3 DEF Catchup, Collected, PromoteCollected, CatchupDone, CatchupFails, Refresh,
      Begin, Abandon, Goto, Hear, history
  <2> QED
    BY <1>1, <2>1
<1>4. CASE Scan
  BY <1>0, <1>4 DEF Scan, Goto, SearchIsSound, history
<1>5. CASE Rmtree
  BY <1>0, <1>5 DEF Rmtree, Goto, SearchIsSound
<1>6. CASE MoveNote
  BY ConstantsAssumption, <1>0, <1>6 DEF MoveNote, SearchIsSound
<1>7. CASE DeleteNote
  BY <1>0, <1>7 DEF DeleteNote, SearchIsSound
<1>8. CASE RestoreNote
  BY <1>0, <1>8 DEF RestoreNote, SearchIsSound, history
<1>9. CASE (\E p \in {"handler", "refresh"} : PatchNote(p)) \/ \E p \in Writers : Open(p) \/ Close(p) \/ Crash(p)
  <2>1. pc'["prune"] = pc["prune"] /\ note' = note /\ missed' = missed
    BY <1>0, <1>9 DEF PatchNote, Open, Close, Crash, Abandon, Goto, history, Writers
  <2> QED
    BY <1>1, <2>1
<1>10. CASE UNCHANGED vars
  BY <1>1, <1>10 DEF vars, history
<1> QED
  BY <1>2, <1>3, <1>4, <1>5, <1>6, <1>7, <1>8, <1>9, <1>10 DEF Next

LEMMA InitSearch == Init => SearchIsSound
BY ConstantsAssumption DEF Init, SearchIsSound, Programs, Writers

(* The artifacts of a meeting are deleted only if its note could be missed. *)
THEOREM ArtifactsOfNotesStay == Spec => PruneSparesNotes
<1> DEFINE Inv == Kept /\ SearchIsSound
<1>1. Init => Inv
  BY InitKept, InitSearch
<1>2. Inv /\ [Next]_vars => Inv'
  BY NextKeeps, SearchStays
<1>3. Inv /\ [Next]_vars =>
        [dir[<<"active", "txt">>] # None /\ pc["prune"] = "delete" /\ pc'["prune"] = "idle" => missed]_vars
  BY DEF SearchIsSound
<1> QED
  BY <1>1, <1>2, <1>3, PTL DEF Spec, PruneSparesNotes
-----------------------------------------------------------------------------
(* The handler has its transcript *)

(* A write or a copy may leave a part of a file, and never none. *)
LEMMA OnlyMovesRemove ==
  ASSUME Kept, NEW p \in Writers, Open(p) \/ Close(p)
  PROVE  LET op == Head(script[p]) IN
         /\ op.how # "move" => \A f \in Names \X Kinds : dir[f] # None => dir'[f] # None
         /\ \A f \in Names \X Kinds : dir'[f] = dir[f] \/ f = op.to \/ (op.how = "move" /\ f = <<op.from, op.kind>>)
<1>1. Head(script[p]).to \in Names \X Kinds
  BY SourceIsContent DEF Open, Close
<1>2. CASE Open(p)
  BY <1>1, <1>2, ConstantsAssumption DEF Open, Kept, TypeOK
<1>3. CASE Close(p)
  BY <1>1, <1>3 DEF Close, Kept, TypeOK
<1> QED
  BY <1>2, <1>3

(* Only the handler moves the transcript, and not once it has it.          *)
LEMMA TranscriptStaysOn ==
  ASSUME NotInPlace, Kept, SearchIsSound, TranscriptStays, [Next]_vars
  PROVE  TranscriptStays'
<1> DEFINE h == "handler"
           Needing == {"baseline", "rediarize", "readopt", "summarise"}
<1> USE DEF Active
<1>0. /\ pc \in [Programs -> UNION {Labels[p] : p \in Programs}] /\ script \in [Writers -> Seq(Ops)]
      /\ held \in [Writers -> Contents] /\ dir \in [Names \X Kinds -> Contents]
      /\ h \in Writers /\ h \in Programs /\ "catchup" \in Writers \ {h} /\ "catchup" \in Programs \ {h}
      /\ <<"active", "txt">> \in Names \X Kinds /\ Kept' /\ missed \in BOOLEAN
  BY NextKeeps DEF Kept, ScriptsKept, TypeOK, Programs, Writers, Names, Kinds
<1>l. ASSUME missed => missed', ~missed' => Active("txt")' # None, ~missed' => held'[h] = None
      PROVE  TranscriptStays'
  BY <1>l DEF TranscriptStays
<1>r. ASSUME missed' = missed, held'[h] = None, pc'[h] \notin Needing \union {"adopt"}
      PROVE  TranscriptStays'
  BY <1>r DEF TranscriptStays
<1>s. ASSUME missed => missed', pc'[h] = pc[h], script'[h] = script[h], held'[h] = held[h],
             \A f \in Names \X Kinds : dir[f] # None => dir'[f] # None
      PROVE  TranscriptStays'
  <2>1. CASE missed
    BY <2>1, <1>s DEF TranscriptStays
  <2>2. CASE ~missed /\ held[h] # None
    <3>1. script[h] # <<>>
      BY <2>2, <1>0 DEF Kept, TypeOK
    <3>2. Head(script[h]).to \in Names \X Kinds
      BY <3>1, <1>0, SourceIsContent
    <3> QED
      BY <1>s, <1>0, <2>2, <3>2 DEF TranscriptStays, Todo
  <2>3. CASE ~missed /\ held[h] = None
    BY <1>s, <1>0, <2>3 DEF TranscriptStays, Todo
  <2> QED
    BY <2>1, <2>2, <2>3
<1>1. CASE Process
  <2>1. missed' = missed /\ held'[h] = None /\ dir' = dir
    BY <1>1, <1>0 DEF Process, Begin
  <2>2. \/ dir[<<"active", "txt">>] # None
        \/ pc'[h] \in {"sidecar", "whisper", "whisperx"}
    BY <1>1, <1>0 DEF Process, Begin, Goto
  <2> QED
    BY <2>1, <2>2, <1>l, <1>r
<1>2. CASE Diarize
  <2> PICK left \in SUBSET Kinds :
        \/ pc[h] = "sidecar" /\ Begin(h, "adopt", Adopt, left)
        \/ pc[h] = "rediarize" /\ Begin(h, "readopt", Adopt, left)
    BY <1>2 DEF Diarize
  <2>1. missed' = missed /\ held'[h] = None /\ dir' = dir
    BY <1>0 DEF Begin
  <2>2. CASE pc[h] = "sidecar" /\ Begin(h, "adopt", Adopt, left)
    <3>1. pc'[h] = "adopt" /\ Todo(h)' = 4
      BY <2>2, <1>0, AdoptIs DEF Begin, Goto, Todo
    <3> QED
      BY <2>1, <3>1 DEF TranscriptStays
  <2>3. CASE pc[h] = "rediarize"
    BY <2>1, <2>3, <1>l DEF TranscriptStays
  <2> QED
    BY <2>2, <2>3
<1>3. CASE Baseline
  <2>1. missed' = missed /\ held'[h] = None /\ dir' = dir /\ pc[h] = "adopt" /\ Todo(h) = 0
    BY <1>3, <1>0 DEF Baseline, Begin, Done, Todo
  <2> QED
    BY <2>1, <1>l DEF TranscriptStays
<1>4. CASE Transcribed
  <2>1. missed' = missed /\ held'[h] = None /\ dir' = dir /\ pc[h] \in Needing \union {"adopt"} /\ Todo(h) = 0
    BY <1>4, <1>0 DEF Transcribed, Begin, Done, Todo
  <2> QED
    BY <2>1, <1>l DEF TranscriptStays
<1>5. CASE SidecarFails \/ WhisperFails
  <2>1. missed' = missed /\ held'[h] = None /\ pc'[h] \in {"whisper", "idle"}
    BY <1>5, <1>0 DEF SidecarFails, WhisperFails, Begin, Abandon, Goto
  <2> QED
    BY <2>1, <1>r
<1>6. CASE WhisperDone
  <2>1. missed' = missed /\ held'[h] = None /\ dir' = dir /\ Active("txt") # None
    BY <1>6, <1>0 DEF WhisperDone, Done, Kept, TypeOK, disk, history
  <2> QED
    BY <2>1, <1>l
<1>7. CASE BestEffortFails
  <2>1. missed' = missed /\ held'[h] = None /\ dir' = dir /\ pc[h] \in Needing
    BY <1>7, <1>0 DEF BestEffortFails, Abandon
  <2> QED
    BY <2>1, <1>l DEF TranscriptStays
<1>8. CASE Summarise
  <2>1. missed' = missed /\ held' = held /\ pc'[h] \in {"patch", "idle"}
    BY <1>8, <1>0 DEF Summarise, Goto, disk
  <2>2. held[h] = None
    BY <1>8, <1>0, NothingToDo DEF Summarise, Kept, TypeOK, ScriptsKept
  <2> QED
    BY <2>1, <2>2, <1>r
<1>9. CASE \/ Catchup \/ Collected \/ PromoteCollected \/ CatchupDone \/ CatchupFails \/ Refresh \/ Scan
  BY <1>9, <1>0, <1>s DEF Catchup, Collected, PromoteCollected, CatchupDone, CatchupFails, Refresh, Scan,
    Begin, Abandon, Goto, disk, history, Programs, Writers
<1>10. CASE Rmtree
  <2>1. missed /\ missed' = missed
    BY <1>10 DEF Rmtree, SearchIsSound
  <2> QED
    BY <2>1 DEF TranscriptStays
<1>11. CASE MoveNote \/ DeleteNote \/ RestoreNote
  BY <1>11, <1>0, <1>s DEF MoveNote, DeleteNote, RestoreNote, disk, history
<1>12. CASE PatchNote(h)
  <2>1. missed' = missed /\ held' = held /\ pc'[h] = "idle"
    BY <1>12, <1>0 DEF PatchNote, Goto, disk, history
  <2>2. held[h] = None
    BY <1>12, <1>0, NothingToDo DEF PatchNote, Kept, TypeOK, ScriptsKept
  <2> QED
    BY <2>1, <2>2, <1>r
<1>13. CASE PatchNote("refresh")
  BY <1>13, <1>0, <1>s DEF PatchNote, Goto, disk, history, Programs, Writers
<1>14. CASE Crash(h)
  <2>1. missed' = missed /\ held'[h] = None /\ pc'[h] = "idle"
    BY <1>14, <1>0 DEF Crash, Abandon, Goto
  <2> QED
    BY <2>1, <1>r
<1>15. CASE Crash("catchup")
  BY <1>15, <1>0, <1>s DEF Crash, Abandon, Goto
<1>16. CASE Open("catchup") \/ Close("catchup")
  <2>1. Stands("catchup", pc["catchup"], Todo("catchup"), Head(script["catchup"]))
    BY <1>16, <1>0, WhereItStands DEF Open, Close
  <2>2. \A f \in Names \X Kinds : dir[f] # None => dir'[f] # None
    <3>1. Head(script["catchup"]).how # "move"
      BY <2>1 DEF Stands, Op
    <3> QED
      BY <1>16, <1>0, <3>1, OnlyMovesRemove
  <2>3. missed' = missed /\ pc' = pc /\ script'[h] = script[h] /\ held'[h] = held[h]
    BY <1>16, <1>0 DEF Open, Close, history
  <2> QED
    BY <2>2, <2>3, <1>s
<1>17. CASE Open(h) \/ Close(h)
  <2> DEFINE op == Head(script[h])
             at == pc[h]
             n == Todo(h)
  <2>1. Stands(h, at, n, op) /\ script[h] # <<>>
    BY <1>17, <1>0, WhereItStands DEF Open, Close
  <2>2. missed' = missed /\ pc' = pc
    BY <1>17 DEF Open, Close, history
  <2>3. CASE at \in {"whisper", "whisperx"}
    <3>1. op.how # "need"
      BY <2>1, <2>3 DEF Stands, Op
    <3>2. held'[h] # None => script'[h] = script[h]
      BY <1>17, <1>0 DEF Open, Close
    <3> QED
      BY <2>2, <2>3, <3>1, <3>2 DEF TranscriptStays
  <2>4. CASE at = "baseline"
    <3>1. Stem # "active"
      BY <2>4 DEF Stem, NotInPlace, Kept, TypeOK, ScriptsKept
    <3>2. /\ op.how # "need" /\ op.to # <<"active", "txt">>
          /\ <<op.from, op.kind>> # <<"active", "txt">>
      BY <2>1, <2>4, <3>1 DEF Stands, Op, Stem
    <3>3. Active("txt")' = Active("txt")
      BY <1>17, <1>0, <3>2, OnlyMovesRemove
    <3>4. held'[h] # None => script'[h] = script[h]
      BY <1>17, <1>0 DEF Open, Close
    <3> QED
      BY <2>2, <2>4, <3>2, <3>3, <3>4 DEF TranscriptStays
  <2>5. CASE at \in {"adopt", "readopt"}
    <3>1. /\ op.how = "need" /\ op.to \in Names \X Kinds /\ n \in 1..4
          /\ n = 3 => op.to = <<"active", "txt">>
      BY <2>1, <2>5, <1>0 DEF Stands, Op, Names, Kinds
    <3>2. \A f \in Names \X Kinds : dir[f] # None => dir'[f] # None
      BY <1>17, <1>0, <3>1, OnlyMovesRemove
    <3>3. CASE script' = script
      <4>1. held'[h] # None => dir'[op.to] # None
        BY <1>17, <1>0, <2>1, <3>1, <3>3, ConstantsAssumption DEF Open, Close
      <4> QED
        BY <2>2, <2>5, <3>2, <3>3, <4>1, <1>0 DEF TranscriptStays, Todo
    <3>4. CASE script' = [script EXCEPT ![h] = Tail(@)]
      <4>1. held'[h] = None /\ Todo(h)' = n - 1
        <5>1. Todo(h)' = n - 1 /\ n \in Nat
          BY <1>17, <1>0, <3>4, <2>1, TailKeeps DEF Open, Close
        <5>2. script' # script
          BY <5>1 DEF Todo
        <5> QED
          BY <1>17, <1>0, <5>1, <5>2 DEF Open, Close
      <4>2. ~missed /\ n = 3 => dir'[<<"active", "txt">>] # None
        <5>1. CASE Open(h)
          BY <5>1, <1>0, <3>1, <3>4, <2>1 DEF Open, Idle
        <5>2. CASE Close(h)
          BY <5>2, <1>0, <3>1 DEF Close, TranscriptStays
        <5> QED
          BY <1>17, <5>1, <5>2
      <4>3. ~missed /\ n <= 2 => dir'[<<"active", "txt">>] # None
        BY <2>5, <3>2, <1>0 DEF TranscriptStays
      <4>4. at = "readopt" /\ ~missed => dir'[<<"active", "txt">>] # None
        BY <3>2, <1>0 DEF TranscriptStays
      <4> QED
        BY <2>2, <2>5, <3>1, <4>1, <4>2, <4>3, <4>4 DEF TranscriptStays
    <3> QED
      BY <1>17, <3>3, <3>4 DEF Open, Close
  <2> QED
    BY <2>1, <2>3, <2>4, <2>5 DEF Stands
<1>18. CASE UNCHANGED vars
  BY <1>18, <1>s DEF vars, disk, history
<1> QED
  BY <1>1, <1>2, <1>3, <1>4, <1>5, <1>6, <1>7, <1>8, <1>9, <1>10, <1>11, <1>12, <1>13, <1>14, <1>15,
     <1>16, <1>17, <1>18 DEF Next, Writers
-----------------------------------------------------------------------------
(* A directory nobody disturbed *)

LEMMA InitCalm == Init => Calm
<1> SUFFICES ASSUME Init PROVE Calm
  OBVIOUS
<1>1. /\ \A f \in Names \X Kinds : dir[f] = None
      /\ \A p \in Writers : held[p] = None /\ script[p] = <<>> /\ Todo(p) = 0
      /\ pc["handler"] = "idle" /\ pc["catchup"] = "idle"
      /\ minutes = None /\ \A p \in Programs : heard[p] = None
      /\ None \notin {"plain", "labelled", "partial"}
  BY ConstantsAssumption DEF Init, Todo, Programs, Writers
<1>2. OneAtWork
  BY <1>1 DEF OneAtWork
<1>3. WhoseFiles /\ Agrees /\ LabelsInOrder /\ CopiesAreOfPlain
  BY <1>1 DEF WhoseFiles, Agrees, LabelsInOrder, CopiesAreOfPlain, Active, Basic, Names, Kinds
<1>4. Adopting /\ Recognising /\ Promoting /\ HeardWhole
  BY <1>1 DEF Adopting, Recognising, Promoting, HeardWhole
<1> QED
  BY <1>2, <1>3, <1>4 DEF Calm

(* Where no writer has a file open, no file is a part. *)
LEMMA NoParts ==
  ASSUME Calm, \A p \in Writers : held[p] = None
  PROVE  \A f \in Names \X Kinds : dir[f] # "partial"
BY DEF Calm, OneAtWork

(* Nothing is being written to the active transcript, and it is in order.  *)
InOrder == Agrees /\ (Active("json") = "labelled" => Active("txt") # None)

LEMMA InOrderAtRest ==
  ASSUME Calm, Todo("handler") = 0, Todo("catchup") = 0
  PROVE  InOrder
BY DEF Calm, ActiveAtRest, LabelsInOrder, InOrder

Early == {"sidecar", "adopt", "whisper", "whisperx", "rediarize", "readopt", "baseline"}

(* A writer that is alone sets out on a script. *)
LEMMA BeginCalm ==
  ASSUME Kept, Kept', Calm, NEW p \in Writers, NEW label, NEW left, NEW ops, Begin(p, label, ops, left),
         ops = Full(label), label \in Labels[p], ~disturbed',
         label \in {"whisper", "whisperx"} \/ InOrder,
         label \in Early /\ p = "handler" => \A k \in Kinds : Basic(k) # "labelled",
         label = "promote" => Diarized
  PROVE  Calm'
<1> DEFINE h == "handler"
           c == "catchup"
<1>0. /\ pc \in [Programs -> UNION {Labels[q] : q \in Programs}] /\ script \in [Writers -> Seq(Ops)]
      /\ held \in [Writers -> Contents] /\ dir \in [Names \X Kinds -> Contents]
      /\ Writers = {h, c} /\ {h, c} \subseteq Programs
      /\ <<"active", "txt">> \in Names \X Kinds /\ <<"active", "json">> \in Names \X Kinds
      /\ None \notin {"plain", "labelled", "partial"}
  BY ConstantsAssumption DEF Kept, ScriptsKept, TypeOK, Programs, Writers, Names, Kinds
<1>1. /\ pc' = [pc EXCEPT ![p] = label] /\ script' = [script EXCEPT ![p] = ops]
      /\ held[p] = None /\ held' = held
      /\ \A q \in Writers \ {p} : pc[q] = "idle"
      /\ UNCHANGED <<setting, dir, heard, minutes>>
  BY <1>0 DEF Begin, Goto, Beside
<1>2. \A q \in Writers \ {p} : script[q] = <<>> /\ held[q] = None
  BY <1>1, <1>0, NothingToDo DEF Kept, TypeOK, ScriptsKept
<1>3. \A q \in Writers : held'[q] = None /\ held[q] = None
  BY <1>1, <1>2
<1>4. \A f \in Names \X Kinds : dir'[f] = dir[f] /\ dir[f] # "partial"
  BY <1>1, <1>3, NoParts
<1>5. OneAtWork'
  BY <1>0, <1>1, <1>3, <1>4 DEF OneAtWork
<1>6. WhoseFiles'
  BY <1>1 DEF Calm, WhoseFiles
<1>7. /\ pc'[h] = (IF p = h THEN label ELSE "idle") /\ pc'[c] = (IF p = c THEN label ELSE "idle")
      /\ Todo(h)' = (IF p = h THEN Len(Full(label)) ELSE 0)
      /\ Todo(c)' = (IF p = c THEN Len(Full(label)) ELSE 0)
  BY <1>0, <1>1, <1>2 DEF Todo
<1>8. /\ label \in {"adopt", "readopt", "promote"} => Len(Full(label)) = 4
      /\ label \in {"whisper", "whisperx"} => Len(Full(label)) = IF Stem = "active" THEN 2 ELSE 4
      /\ label = "baseline" => Len(Full(label)) = 4
  BY AdoptIs, PromoteIs, WhisperIs DEF Full, Stem
<1>9. /\ p = h => label \notin {"promote", "collect"}
      /\ p = c => label \notin Early \ {"sidecar"}
  BY DEF Labels, Early
<1>a. /\ pc'[h] \in {"adopt", "readopt", "baseline"} => Todo(h)' = 4
      /\ pc'[h] \in {"whisper", "whisperx"} => Todo(h)' = IF Stem = "active" THEN 2 ELSE 4
      /\ pc'[c] = "promote" => Todo(c)' = 4
  BY <1>7, <1>8
<1>10. Adopting'
  BY <1>a DEF Adopting
<1>11. Recognising'
  <2>1. Stem' = Stem
    BY <1>1 DEF Stem
  <2> QED
    BY <1>a, <2>1 DEF Recognising, Stem
<1>12. Promoting'
  <2>1. label = "promote" => \A k \in Kinds : dir[<<"diarized", k>>] = "labelled"
    BY <1>0, <1>4 DEF Diarized, Calm, WhoseFiles, Contents, Names, Kinds
  <2> QED
    <3>1. pc'[c] = "promote" => Todo(c)' = 4 /\ \A k \in Kinds : dir'[<<"diarized", k>>] = "labelled"
      BY <1>0, <1>1, <1>7, <1>a, <2>1
    <3> QED
      BY <3>1 DEF Promoting
<1>13. InOrder => InOrder'
  BY <1>1 DEF InOrder, Agrees, Active
<1>14. label \in {"whisper", "whisperx"} => ~ActiveAtRest' /\ p = h
  <2> SUFFICES ASSUME label \in {"whisper", "whisperx"} PROVE ~ActiveAtRest' /\ p = h
    OBVIOUS
  <2>1. p = h
    BY <1>0, <1>9 DEF Early
  <2>2. pc'[h] = label /\ pc'[c] = "idle" /\ Todo(h)' \in {2, 4}
    BY <1>7, <1>a, <2>1
  <2> QED
    BY <2>1, <2>2 DEF ActiveAtRest
<1>15. (ActiveAtRest' => Agrees') /\ LabelsInOrder'
  BY <1>0, <1>7, <1>13, <1>14 DEF InOrder, LabelsInOrder
<1>16. CopiesAreOfPlain'
  <2>1. \A k \in Kinds : Basic(k)' = Basic(k) /\ Active(k)' = Active(k)
    BY <1>1 DEF Basic, Active
  <2>2. pc'[h] \in Early => \A k \in Kinds : Basic(k) # "labelled"
    BY <1>0, <1>7 DEF Early
  <2> QED
    BY <2>1, <2>2 DEF Calm, CopiesAreOfPlain, Early, Kinds
<1>17. HeardWhole'
  BY <1>1 DEF Calm, HeardWhole
<1> QED
  BY <1>5, <1>6, <1>10, <1>11, <1>12, <1>15, <1>16, <1>17 DEF Calm
(* A writer at the end of its script goes on, or stops.                    *)
LEMMA GoOnCalm ==
  ASSUME Kept, Calm, NEW p \in Writers, NEW label \in {"idle", "rediarize", "summarise", "patch"},
         pc' = [pc EXCEPT ![p] = label], pc[p] # "idle", script[p] = <<>>,
         UNCHANGED <<setting, dir, script, held>>, HeardWhole',
         label = "rediarize" => pc[p] \in Early /\ p = "handler",
         p = "catchup" => label = "idle"
  PROVE  Calm'
<1> DEFINE h == "handler"
           c == "catchup"
<1>0. /\ pc \in [Programs -> UNION {Labels[q] : q \in Programs}] /\ script \in [Writers -> Seq(Ops)]
      /\ Writers = {h, c} /\ {h, c} \subseteq Programs
  BY DEF Kept, ScriptsKept, TypeOK, Programs, Writers
<1>1. \A q \in Writers \ {p} : pc[q] = "idle"
  BY <1>0 DEF Calm, OneAtWork
<1>2. \A q \in Writers : script[q] = <<>> /\ held[q] = None
  BY <1>0, <1>1, NothingToDo DEF Kept, TypeOK, ScriptsKept
<1>3. Todo(h) = 0 /\ Todo(c) = 0
  BY <1>0, <1>2 DEF Todo
<1>4. InOrder
  BY <1>3, InOrderAtRest
<1>5. pc'[h] \in {"idle", "rediarize", "summarise", "patch"} /\ pc'[c] = "idle"
  BY <1>0, <1>1
<1>6. OneAtWork'
  <2>1. \A f \in Names \X Kinds : dir[f] # "partial"
    BY <1>2, NoParts
  <2> QED
    BY <1>2, <1>5, <2>1 DEF OneAtWork
<1>7. WhoseFiles' /\ Agrees' /\ LabelsInOrder'
  BY <1>4 DEF Calm, WhoseFiles, InOrder, Agrees, LabelsInOrder, Active
<1>8. Adopting' /\ Recognising' /\ Promoting'
  BY <1>5 DEF Adopting, Recognising, Promoting
<1>9. CopiesAreOfPlain'
  <2>1. pc'[h] \in Early => pc[h] \in Early
    BY <1>0, <1>1, <1>5 DEF Early
  <2> QED
    BY <2>1 DEF Calm, CopiesAreOfPlain, Basic, Active, Early
<1> QED
  BY <1>6, <1>7, <1>8, <1>9 DEF Calm

(* What the other programs do, short of deleting the directory. *)
LEMMA BesideCalm ==
  ASSUME Kept, Calm, UNCHANGED <<setting, disk>>, HeardWhole',
         pc'["handler"] = pc["handler"], pc'["catchup"] = pc["catchup"]
  PROVE  Calm'
<1>0. UNCHANGED <<dir, sidecar, script, held>>
  BY DEF disk
<1>1. OneAtWork'
  BY <1>0 DEF Calm, OneAtWork, Source
<1>2. WhoseFiles'
  BY <1>0 DEF Calm, WhoseFiles
<1>3. Todo("handler")' = Todo("handler") /\ Todo("catchup")' = Todo("catchup") /\ Stem' = Stem
  BY <1>0 DEF Todo, Stem
<1>4. \A k : Active(k)' = Active(k) /\ Basic(k)' = Basic(k)
  BY <1>0 DEF Active, Basic
<1>5. Adopting' /\ Recognising' /\ Promoting'
  BY <1>0, <1>3, <1>4 DEF Calm, Adopting, Recognising, Promoting
<1>6. (ActiveAtRest' => Agrees') /\ LabelsInOrder' /\ CopiesAreOfPlain'
  BY <1>3, <1>4 DEF Calm, ActiveAtRest, Agrees, LabelsInOrder, CopiesAreOfPlain
<1> QED
  BY <1>1, <1>2, <1>5, <1>6 DEF Calm

(* An empty directory is in order. *)
LEMMA RmtreeCalm ==
  ASSUME Kept, Kept', Calm, Rmtree, ~disturbed'
  PROVE  Calm'
<1> DEFINE h == "handler"
           c == "catchup"
<1>0. /\ pc \in [Programs -> UNION {Labels[q] : q \in Programs}] /\ script \in [Writers -> Seq(Ops)]
      /\ Writers = {h, c} /\ {h, c} \subseteq Programs /\ "prune" \in Programs \ {h, c}
      /\ None \notin {"plain", "labelled", "partial"}
  BY ConstantsAssumption DEF Kept, ScriptsKept, TypeOK, Programs, Writers
<1>1. pc'[h] = "idle" /\ pc'[c] = "idle" /\ pc[h] = "idle" /\ pc[c] = "idle"
  BY <1>0 DEF Rmtree, Goto, Beside
<1>2. \A q \in Writers : script'[q] = <<>> /\ held'[q] = None
  BY <1>0, <1>1, NothingToDo DEF Rmtree, Kept, TypeOK, ScriptsKept
<1>3. \A f \in Names \X Kinds : dir'[f] = None
  BY DEF Rmtree
<1>4. OneAtWork'
  BY <1>0, <1>1, <1>2, <1>3 DEF OneAtWork
<1>5. WhoseFiles' /\ Agrees' /\ LabelsInOrder' /\ CopiesAreOfPlain'
  BY <1>0, <1>3 DEF WhoseFiles, Agrees, LabelsInOrder, CopiesAreOfPlain, Active, Basic, Names, Kinds
<1>6. Adopting' /\ Recognising' /\ Promoting'
  BY <1>1 DEF Adopting, Recognising, Promoting
<1>7. HeardWhole'
  BY DEF Rmtree, Calm, HeardWhole
<1> QED
  BY <1>4, <1>5, <1>6, <1>7 DEF Calm

(* Opening and closing a file of one's own. *)
Skips(p, op) ==
  /\ script' = [script EXCEPT ![p] = Tail(@)] /\ UNCHANGED <<dir, held>>
  /\ Idle(p, op) /\ \A f \in Names \X Kinds : dir[f] # "partial"

Starts(p, op) ==
  /\ UNCHANGED script
  /\ dir' = [dir EXCEPT ![op.to] = IF op.how = "move" THEN None ELSE "partial"]
  /\ held' = [held EXCEPT ![p] = Source(p, op)] /\ Source(p, op) \in Whole
  /\ \A f \in Names \X Kinds : dir[f] # "partial"

Ends(p, op) ==
  /\ script' = [script EXCEPT ![p] = Tail(@)] /\ held' = [held EXCEPT ![p] = None]
  /\ Source(p, op) \in Whole
  /\ dir[op.to] = (IF op.how = "move" THEN None ELSE "partial")
  /\ dir' = [f \in Names \X Kinds |->
               IF f = op.to THEN Source(p, op)
               ELSE IF op.how = "move" /\ f = <<op.from, op.kind>> THEN None ELSE dir[f]]

(* Undisturbed, a file that is opened gets what its source holds.          *)
LEMMA OpsWhenCalm ==
  ASSUME Kept, Calm, NEW p \in Writers, Open(p) \/ Close(p)
  PROVE  LET op == Head(script[p]) IN Skips(p, op) \/ Starts(p, op) \/ Ends(p, op)
<1> DEFINE op == Head(script[p])
<1>0. /\ script[p] # <<>> /\ Stands(p, pc[p], Todo(p), op) /\ op.to \in Names \X Kinds
      /\ Source(p, op) \in Contents
  BY WhereItStands, SourceIsContent DEF Open, Close
<1>1. \A q \in Writers \ {p} : held[q] = None
  <2>1. \A q \in Writers \ {p} : pc[q] = "idle"
    <3>1. pc[p] # "idle"
      BY <1>0, NothingToDo DEF Kept, ScriptsKept
    <3> QED
      BY <3>1 DEF Calm, OneAtWork, Writers
  <2> QED
    BY <2>1 DEF Kept, TypeOK
<1>2. CASE Open(p)
  <2>1. \A f \in Names \X Kinds : dir[f] # "partial"
    BY <1>1, <1>2, NoParts DEF Open
  <2>2. CASE Idle(p, op) /\ script' = [script EXCEPT ![p] = Tail(@)] /\ UNCHANGED <<dir, held>>
    BY <2>1, <2>2 DEF Skips
  <2>3. CASE /\ Source(p, op) # None /\ UNCHANGED script
             /\ dir' = [dir EXCEPT ![op.to] = IF op.how = "move" THEN None ELSE "partial"]
             /\ held' = [held EXCEPT ![p] = Source(p, op)]
    <3>1. Source(p, op) # "partial"
      <4>1. CASE op.from \in {"plain", "sidecar"}
        BY <4>1, ConstantsAssumption DEF Source
      <4>2. CASE op.from \notin {"plain", "sidecar"}
        <5>1. op \in Ops
          BY <1>0 DEF Kept, ScriptsKept
        <5>2. Source(p, op) = dir[<<op.from, op.kind>>] /\ <<op.from, op.kind>> \in Names \X Kinds
          BY <4>2, <5>1 DEF Source, Ops
        <5> QED
          BY <2>1, <5>2
      <4> QED
        BY <4>1, <4>2
    <3> QED
      BY <1>0, <2>1, <2>3, <3>1 DEF Starts, Contents, Whole
  <2> QED
    BY <1>2, <2>2, <2>3 DEF Open
<1>3. CASE Close(p)
  <2>1. held[p] = Source(p, op) /\ held[p] \in Whole /\ dir[op.to] = IF op.how = "move" THEN None ELSE "partial"
    BY <1>3 DEF Close, Calm, OneAtWork
  <2>2. op.how = "move" \/ dir[op.to] # None
    BY <2>1, ConstantsAssumption
  <2> QED
    BY <1>3, <2>1, <2>2 DEF Close, Ends
<1> QED
  BY <1>2, <1>3
LEMMA OpTypes ==
  ASSUME Kept, Calm, NEW p \in Writers, Open(p) \/ Close(p)
  PROVE  LET op == Head(script[p]) IN
         /\ pc' = pc /\ setting' = setting /\ heard' = heard /\ minutes' = minutes
         /\ disturbed' = disturbed /\ sidecar' = sidecar
         /\ Stands(p, pc[p], Todo(p), op) /\ Todo(p) \in Nat \ {0}
         /\ op.to \in Names \X Kinds /\ <<op.from, op.kind>> # op.to
         /\ \A q \in Writers \ {p} :
              /\ pc[q] = "idle" /\ held[q] = None /\ held'[q] = None
              /\ Todo(q) = 0 /\ Todo(q)' = 0
         /\ Skips(p, op) => Todo(p)' = Todo(p) - 1
         /\ Starts(p, op) => Todo(p)' = Todo(p)
         /\ Ends(p, op) => Todo(p)' = Todo(p) - 1
<1> DEFINE op == Head(script[p])
<1>1. /\ UNCHANGED <<setting, pc, heard, minutes, sidecar, disturbed>> /\ script[p] # <<>>
  BY DEF Open, Close, history
<1>2. Stands(p, pc[p], Todo(p), op) /\ op.to \in Names \X Kinds
  BY <1>1, WhereItStands, SourceIsContent
<1>3. <<op.from, op.kind>> # op.to
  BY <1>2 DEF Stands, Op
<1>4. Todo(p) \in Nat \ {0}
  BY <1>2 DEF Stands
<1>5. pc[p] # "idle"
  BY <1>2 DEF Stands
<1>6. \A q \in Writers \ {p} : pc[q] = "idle"
  BY <1>5 DEF Calm, OneAtWork, Writers
<1>7. \A q \in Writers \ {p} : script[q] = <<>> /\ held[q] = None
  BY <1>6, NothingToDo DEF Kept, TypeOK, ScriptsKept
<1>8. \A q \in Writers \ {p} : held'[q] = held[q] /\ script'[q] = script[q]
  BY DEF Open, Close, Kept, TypeOK, ScriptsKept
<1>9. \A q \in Writers \ {p} : Todo(q) = 0 /\ Todo(q)' = 0
  BY <1>7, <1>8 DEF Todo
<1>10. script' = [script EXCEPT ![p] = Tail(@)] => Todo(p)' = Todo(p) - 1
  BY <1>1, TailKeeps
<1>11. script' = script => Todo(p)' = Todo(p)
  BY DEF Todo
<1> QED
  BY <1>1, <1>2, <1>3, <1>4, <1>6, <1>7, <1>8, <1>9, <1>10, <1>11 DEF Skips, Starts, Ends

LEMMA OpLeavesOneAtWork ==
  ASSUME Kept, Kept', Calm, NEW p \in Writers, Open(p) \/ Close(p)
  PROVE  OneAtWork'
<1> DEFINE op == Head(script[p])
<1>0. /\ held \in [Writers -> Contents] /\ dir \in [Names \X Kinds -> Contents] /\ script \in [Writers -> Seq(Ops)]
      /\ None \notin {"plain", "labelled", "partial"}
  BY ConstantsAssumption DEF Kept, TypeOK, ScriptsKept
<1>1. /\ pc' = pc /\ sidecar' = sidecar /\ op.to \in Names \X Kinds /\ <<op.from, op.kind>> # op.to
      /\ \A q \in Writers \ {p} : held'[q] = None
  BY OpTypes
<1>2. (pc["handler"] = "idle" \/ pc["catchup"] = "idle")'
  BY <1>1 DEF Calm, OneAtWork
<1>3. CASE Skips(p, op)
  <2>1. held'[p] = None
    <3>1. held[p] = None
      BY <1>0, <1>3 DEF Skips, Open, Close
    <3> QED
      BY <1>3, <3>1 DEF Skips
  <2> QED
    BY <1>1, <1>2, <1>3, <2>1 DEF Skips, OneAtWork
<1>4. CASE Starts(p, op)
  <2>1. held'[p] = Source(p, op) /\ Source(p, op) \in Whole /\ Head(script'[p]) = op /\ held'[p] # None
    BY <1>0, <1>4 DEF Starts, Whole
  <2>2. Source(p, op)' = Source(p, op)
    BY <1>0, <1>1, <1>4 DEF Starts, Source
  <2>3. dir'[op.to] = IF op.how = "move" THEN None ELSE "partial"
    BY <1>0, <1>1, <1>4 DEF Starts
  <2>4. \A f \in Names \X Kinds : dir'[f] = "partial" => f = op.to
    BY <1>0, <1>1, <1>4 DEF Starts
  <2>5. \A q \in Writers : held'[q] # None =>
          LET o == Head(script[q]) IN
          /\ held'[q] = Source(q, o)' /\ held'[q] \in Whole
          /\ dir'[o.to] = IF o.how = "move" THEN None ELSE "partial"
    BY <1>1, <2>1, <2>2, <2>3
  <2> QED
    BY <1>2, <1>4, <2>1, <2>4, <2>5 DEF OneAtWork, Starts
<1>5. CASE Ends(p, op)
  <2>1. \A q \in Writers : held'[q] = None
    BY <1>0, <1>1, <1>5 DEF Ends
  <2>2. \A f \in Names \X Kinds : dir[f] = "partial" => f = op.to
    <3>1. \A q \in Writers \ {p} : held[q] = None
      BY OpTypes
    <3> QED
      BY <3>1 DEF Calm, OneAtWork
  <2>3. \A f \in Names \X Kinds : dir'[f] # "partial"
    BY <1>0, <1>5, <2>2 DEF Ends, Whole
  <2> QED
    BY <1>2, <2>1, <2>3 DEF OneAtWork
<1> QED
  BY <1>3, <1>4, <1>5, OpsWhenCalm
(* One file of the directory, before and after an operation. *)
Becomes(p, op, f) ==
  \/ Skips(p, op) /\ Todo(p)' = Todo(p) - 1 /\ dir'[f] = dir[f]
  \/ /\ Starts(p, op) /\ Todo(p)' = Todo(p)
     /\ dir'[f] = IF f # op.to THEN dir[f] ELSE IF op.how = "move" THEN None ELSE "partial"
  \/ /\ Ends(p, op) /\ Todo(p)' = Todo(p) - 1
     /\ dir'[f] = IF f = op.to THEN Source(p, op)
                  ELSE IF op.how = "move" /\ f = <<op.from, op.kind>> THEN None ELSE dir[f]

LEMMA OpBecomes ==
  ASSUME Kept, Calm, NEW p \in Writers, Open(p) \/ Close(p)
  PROVE  \A f \in Names \X Kinds : Becomes(p, Head(script[p]), f)
<1>1. Skips(p, Head(script[p])) \/ Starts(p, Head(script[p])) \/ Ends(p, Head(script[p]))
  BY OpsWhenCalm
<1> QED
  BY <1>1, OpTypes DEF Becomes, Skips, Starts, Ends, Kept, TypeOK

(* The handler adopts the sidecar's files. *)
LEMMA AdoptCalm ==
  ASSUME Kept, Calm, Open("handler") \/ Close("handler"), pc["handler"] \in {"adopt", "readopt"}
  PROVE  /\ WhoseFiles' /\ Adopting' /\ Recognising' /\ Promoting'
         /\ (ActiveAtRest' => Agrees') /\ LabelsInOrder' /\ CopiesAreOfPlain'
<1> DEFINE p == "handler"
           op == Head(script[p])
           n == Todo(p)
<1>0. /\ p \in Writers /\ Writers \ {p} = {"catchup"}
      /\ \A name \in Names, k \in Kinds : <<name, k>> \in Names \X Kinds
      /\ None \notin {"plain", "labelled", "partial"}
  BY ConstantsAssumption DEF Writers
<1>1. pc' = pc /\ setting' = setting /\ pc["catchup"] = "idle" /\ Todo("catchup")' = 0 /\ n \in Nat \ {0}
  BY <1>0, OpTypes
<1>2. \/ n = 4 /\ op = Op("need", "sidecar", "diarized", "txt")
      \/ n = 3 /\ op = Op("need", "sidecar", "active", "txt")
      \/ n = 2 /\ op = Op("need", "sidecar", "diarized", "json")
      \/ n = 1 /\ op = Op("need", "sidecar", "active", "json")
  BY <1>0, OpTypes DEF Stands
<1>3. /\ op.how = "need" /\ ~Skips(p, op) /\ (Source(p, op) \in Whole => Source(p, op) = "labelled")
  BY <1>0, <1>2 DEF Op, Skips, Idle, Source, Whole
<1>4. \A f \in Names \X Kinds :
        \/ n' = n /\ dir'[f] = IF f # op.to THEN dir[f] ELSE "partial"
        \/ n' = n - 1 /\ dir'[f] = IF f = op.to THEN "labelled" ELSE dir[f]
  BY <1>0, <1>3, OpBecomes DEF Becomes, Starts, Ends
<1>5. WhoseFiles'
  BY <1>0, <1>2, <1>4 DEF Op, WhoseFiles, Calm, Names, Kinds
<1>6. Adopting'
  BY <1>0, <1>1, <1>2, <1>4 DEF Op, Adopting, Calm, Active, Names, Kinds
<1>7. Recognising' /\ Promoting'
  BY <1>1 DEF Recognising, Promoting
<1>8. ActiveAtRest' => Agrees'
  BY <1>0, <1>1, <1>6 DEF ActiveAtRest, Agrees, Adopting, Active, Kinds
<1>9. LabelsInOrder'
  BY <1>0, <1>1, <1>2, <1>4, <1>6 DEF Op, Adopting, LabelsInOrder, Calm, Active, Names, Kinds
<1>10. CopiesAreOfPlain'
  BY <1>0, <1>1, <1>2, <1>4 DEF Op, CopiesAreOfPlain, Calm, Basic, Names, Kinds
<1> QED
  BY <1>5, <1>6, <1>7, <1>8, <1>9, <1>10
(* whisper writes the transcript in place. *)
LEMMA InPlaceCalm ==
  ASSUME Kept, Calm, Open("handler") \/ Close("handler"),
         pc["handler"] \in {"whisper", "whisperx"}, Stem = "active"
  PROVE  /\ WhoseFiles' /\ Adopting' /\ Recognising' /\ Promoting'
         /\ (ActiveAtRest' => Agrees') /\ LabelsInOrder' /\ CopiesAreOfPlain'
<1> DEFINE p == "handler"
           op == Head(script[p])
           n == Todo(p)
<1>0. /\ p \in Writers /\ Writers \ {p} = {"catchup"}
      /\ \A name \in Names, k \in Kinds : <<name, k>> \in Names \X Kinds
      /\ None \notin {"plain", "labelled", "partial"}
  BY ConstantsAssumption DEF Writers
<1>1. /\ pc' = pc /\ setting' = setting /\ pc["catchup"] = "idle" /\ Todo("catchup")' = 0 /\ n \in Nat \ {0}
      /\ Stem' = "active"
  BY <1>0, OpTypes DEF Stem
<1>2. \/ n = 2 /\ op = Op("write", "plain", "active", "txt")
      \/ n = 1 /\ op = Op("write", "plain", "active", "json")
  <2>1. Stands(p, pc[p], n, op)
    BY <1>0, OpTypes
  <2> QED
    BY <2>1 DEF Stands
<1>3. op.how = "write" /\ ~Skips(p, op) /\ Source(p, op) = "plain"
  BY <1>0, <1>2 DEF Op, Skips, Idle, Source
<1>4. \A f \in Names \X Kinds :
        \/ n' = n /\ dir'[f] = IF f # op.to THEN dir[f] ELSE "partial"
        \/ n' = n - 1 /\ dir'[f] = IF f = op.to THEN "plain" ELSE dir[f]
  BY <1>0, <1>3, OpBecomes DEF Becomes, Starts, Ends
<1>5. WhoseFiles'
  BY <1>0, <1>2, <1>4 DEF Op, WhoseFiles, Calm, Names, Kinds
<1>6. Recognising'
  BY <1>0, <1>1, <1>2, <1>4 DEF Op, Recognising, Calm, Names, Kinds
<1>7. Adopting' /\ Promoting'
  BY <1>1 DEF Adopting, Promoting
<1>8. ActiveAtRest' => n' = 0 /\ dir'[<<"active", "txt">>] = "plain" /\ dir'[<<"active", "json">>] = "plain"
  BY <1>0, <1>1, <1>6 DEF ActiveAtRest, Recognising
<1>9. (ActiveAtRest' => Agrees') /\ LabelsInOrder'
  BY <1>0, <1>1, <1>8 DEF Agrees, LabelsInOrder, Active, Kinds
<1>10. CopiesAreOfPlain'
  BY <1>0, <1>1, <1>2, <1>4 DEF Op, CopiesAreOfPlain, Calm, Basic, Names, Kinds
<1> QED
  BY <1>5, <1>6, <1>7, <1>9, <1>10

(* whisper writes beside the transcript, and its files are renamed.        *)
LEMMA RenamedCalm ==
  ASSUME Kept, Calm, Open("handler") \/ Close("handler"),
         \/ pc["handler"] \in {"whisper", "whisperx"} /\ Stem = "raw"
         \/ pc["handler"] = "baseline" /\ Stem \in {"raw", "active"}
  PROVE  /\ WhoseFiles' /\ Adopting' /\ Recognising' /\ Promoting'
         /\ (ActiveAtRest' => Agrees') /\ LabelsInOrder' /\ CopiesAreOfPlain'
<1> DEFINE p == "handler"
           op == Head(script[p])
           n == Todo(p)
           target == IF pc[p] = "baseline" THEN "basic" ELSE "active"
<1>0. /\ p \in Writers /\ Writers \ {p} = {"catchup"}
      /\ \A name \in Names, k \in Kinds : <<name, k>> \in Names \X Kinds
      /\ None \notin {"plain", "labelled", "partial"}
  BY ConstantsAssumption DEF Writers
<1>1. /\ pc' = pc /\ setting' = setting /\ pc["catchup"] = "idle" /\ Todo("catchup")' = 0 /\ n \in Nat \ {0}
      /\ Stem' = Stem /\ target # Stem /\ target \in {"basic", "active"} /\ Stem \in {"raw", "active"}
  BY <1>0, OpTypes DEF Stem
<1>2. \/ n = 4 /\ op = Op("write", "plain", Stem, "txt")
      \/ n = 3 /\ op = Op("write", "plain", Stem, "json")
      \/ n = 2 /\ op = Op("move", Stem, target, "txt")
      \/ n = 1 /\ op = Op("move", Stem, target, "json")
  <2>1. Stands(p, pc[p], n, op)
    BY <1>0, OpTypes
  <2> QED
    BY <2>1 DEF Stands
<1>3. ~Skips(p, op) /\ Source(p, op) = "plain"
  <2>1. /\ n = 2 => dir[<<Stem, "txt">>] = "plain"
        /\ n = 1 => dir[<<Stem, "json">>] = "plain"
    BY <1>1 DEF Calm, Recognising
  <2> QED
    BY <1>0, <1>1, <1>2, <2>1 DEF Op, Skips, Idle, Source
<1> HIDE DEF target, n, op
<1>4. \A f \in Names \X Kinds :
        \/ n' = n /\ dir'[f] = IF f # op.to THEN dir[f] ELSE IF op.how = "move" THEN None ELSE "partial"
        \/ /\ n' = n - 1
           /\ dir'[f] = IF f = op.to THEN "plain"
                        ELSE IF op.how = "move" /\ f = <<op.from, op.kind>> THEN None ELSE dir[f]
  BY <1>0, <1>3, OpBecomes DEF Becomes, Starts, Ends, n, op
<1>5. WhoseFiles'
  BY <1>0, <1>1, <1>2, <1>4 DEF Op, WhoseFiles, Calm, Names, Kinds
<1>6. /\ n' <= 1 => dir'[<<target, "txt">>] = "plain"
      /\ n' = 0 => dir'[<<target, "json">>] = "plain"
      /\ n' \in {2, 3} => dir'[<<Stem, "txt">>] = "plain"
      /\ n' \in {1, 2} => dir'[<<Stem, "json">>] = "plain"
      /\ n' <= 1 => dir'[<<Stem, "txt">>] = None
      /\ n' = 0 => dir'[<<Stem, "json">>] = None
  <2>1. /\ n <= 1 => dir[<<target, "txt">>] = "plain"
        /\ n = 0 => dir[<<target, "json">>] = "plain"
        /\ n \in {2, 3} => dir[<<Stem, "txt">>] = "plain"
        /\ n \in {1, 2} => dir[<<Stem, "json">>] = "plain"
        /\ n <= 1 => dir[<<Stem, "txt">>] = None
        /\ n = 0 => dir[<<Stem, "json">>] = None
    BY <1>1 DEF Calm, Recognising, target, n
  <2> QED
    BY <1>0, <1>1, <1>2, <1>4, <2>1 DEF Op, Names, Kinds
<1>7. Recognising' /\ Adopting' /\ Promoting'
  BY <1>1, <1>6 DEF Recognising, Adopting, Promoting, target, n
<1>8. CopiesAreOfPlain'
  <2>1. \A k \in Kinds : Basic(k)' # "labelled"
    BY <1>0, <1>1, <1>2, <1>4 DEF Op, CopiesAreOfPlain, Calm, Basic, Names, Kinds
  <2> QED
    BY <2>1 DEF CopiesAreOfPlain
<1>9. CASE target = "active"
  <2>1. ActiveAtRest' => dir'[<<"active", "txt">>] = "plain" /\ dir'[<<"active", "json">>] = "plain"
    BY <1>1, <1>6, <1>9 DEF ActiveAtRest, target, n
  <2>2. (ActiveAtRest' => Agrees') /\ LabelsInOrder'
    BY <1>0, <1>1, <1>9, <2>1 DEF Agrees, LabelsInOrder, Active, Kinds, target
  <2> QED
    BY <1>5, <1>7, <1>8, <2>2
<1>10. CASE target = "basic" /\ Stem = "raw"
  <2>1. Active("txt")' = Active("txt") /\ Active("json")' = Active("json")
    BY <1>0, <1>2, <1>4, <1>10 DEF Op, Active, Names, Kinds
  <2>2. ActiveAtRest
    BY <1>10 DEF ActiveAtRest, target
  <2>3. (ActiveAtRest' => Agrees') /\ LabelsInOrder'
    BY <2>1, <2>2 DEF Calm, Agrees, LabelsInOrder, Kinds
  <2> QED
    BY <1>5, <1>7, <1>8, <2>3
<1>11. CASE target = "basic" /\ Stem = "active"
  <2>1. ActiveAtRest' => dir'[<<"active", "txt">>] = None /\ dir'[<<"active", "json">>] = None
    BY <1>1, <1>6, <1>11 DEF ActiveAtRest, target, n
  <2>2. (ActiveAtRest' => Agrees') /\ LabelsInOrder'
    BY <1>0, <1>1, <1>11, <2>1 DEF Agrees, LabelsInOrder, Active, Kinds, target
  <2> QED
    BY <1>5, <1>7, <1>8, <2>2
<1> QED
  BY <1>1, <1>9, <1>10, <1>11
(* The catch-up collects the sidecar's files. *)
LEMMA CollectCalm ==
  ASSUME Kept, Calm, Open("catchup") \/ Close("catchup"), pc["catchup"] = "collect"
  PROVE  /\ WhoseFiles' /\ Adopting' /\ Recognising' /\ Promoting'
         /\ (ActiveAtRest' => Agrees') /\ LabelsInOrder' /\ CopiesAreOfPlain'
<1> DEFINE p == "catchup"
           op == Head(script[p])
           n == Todo(p)
<1>0. /\ p \in Writers /\ Writers \ {p} = {"handler"}
      /\ \A name \in Names, k \in Kinds : <<name, k>> \in Names \X Kinds
      /\ None \notin {"plain", "labelled", "partial"}
  BY ConstantsAssumption DEF Writers
<1>1. pc' = pc /\ setting' = setting /\ pc["handler"] = "idle" /\ Todo("handler")' = 0 /\ n \in Nat \ {0}
  BY <1>0, OpTypes
<1>2. \/ n = 2 /\ op = Op("copy", "sidecar", "diarized", "txt")
      \/ n = 1 /\ op = Op("copy", "sidecar", "diarized", "json")
  BY <1>0, OpTypes DEF Stands
<1>3. op.how = "copy" /\ (Source(p, op) \in Whole => Source(p, op) = "labelled")
  BY <1>0, <1>2 DEF Op, Source, Whole
<1>4. \A f \in Names \X Kinds :
        \/ dir'[f] = dir[f]
        \/ f = op.to /\ dir'[f] \in {"partial", "labelled"}
  BY <1>0, <1>3, OpBecomes DEF Becomes, Starts, Ends
<1>5. WhoseFiles'
  BY <1>0, <1>2, <1>4 DEF Op, WhoseFiles, Calm, Names, Kinds
<1>6. Adopting' /\ Recognising' /\ Promoting'
  BY <1>1 DEF Adopting, Recognising, Promoting
<1>7. \A k \in Kinds : Active(k)' = Active(k) /\ Basic(k)' = Basic(k)
  BY <1>0, <1>2, <1>4 DEF Op, Active, Basic, Names, Kinds
<1>8. ActiveAtRest /\ "txt" \in Kinds /\ "json" \in Kinds
  BY DEF ActiveAtRest, Kinds
<1>9. (ActiveAtRest' => Agrees') /\ LabelsInOrder' /\ CopiesAreOfPlain'
  BY <1>1, <1>7, <1>8 DEF Calm, Agrees, LabelsInOrder, CopiesAreOfPlain
<1> QED
  BY <1>5, <1>6, <1>9

(* ... and promotes the diarized transcript, after a copy of the plain one.*)
LEMMA PromoteCalm ==
  ASSUME Kept, Calm, Open("catchup") \/ Close("catchup"), pc["catchup"] = "promote"
  PROVE  /\ WhoseFiles' /\ Adopting' /\ Recognising' /\ Promoting'
         /\ (ActiveAtRest' => Agrees') /\ LabelsInOrder' /\ CopiesAreOfPlain'
<1> DEFINE p == "catchup"
           op == Head(script[p])
           n == Todo(p)
<1>0. /\ p \in Writers /\ Writers \ {p} = {"handler"}
      /\ \A name \in Names, k \in Kinds : <<name, k>> \in Names \X Kinds
      /\ None \notin {"plain", "labelled", "partial"}
  BY ConstantsAssumption DEF Writers
<1>1. pc' = pc /\ setting' = setting /\ pc["handler"] = "idle" /\ Todo("handler")' = 0 /\ n \in Nat \ {0}
  BY <1>0, OpTypes
<1>2. Stands(p, "promote", n, op)
  BY <1>0, OpTypes
<1>3. /\ \A k \in Kinds : dir[<<"diarized", k>>] = "labelled"
      /\ n <= 3 /\ Active("txt") = "plain" => Basic("txt") = "plain"
      /\ n <= 2 /\ Active("json") = "plain" => Basic("json") = "plain"
      /\ n <= 1 => Active("txt") = "labelled"
      /\ n = 0 => Active("json") = "labelled"
      /\ Active("json") = "labelled" => Active("txt") # None
      /\ \A k \in Kinds : Basic(k) = "labelled" => Active(k) # "plain" /\ Active("txt") # None
      /\ dir \in [Names \X Kinds -> Contents]
  BY DEF Calm, Promoting, LabelsInOrder, CopiesAreOfPlain, Kept, TypeOK
<1>4. WhoseFiles /\ "txt" \in Kinds /\ "json" \in Kinds
  BY DEF Calm, Kinds
<1>5. ASSUME NEW k \in Kinds, op = Op("backup", "active", "basic", k)
      PROVE  /\ \A f \in Names \X Kinds : f # <<"basic", k>> => dir'[f] = dir[f]
             /\ \/ n' = n /\ Basic(k)' = "partial"
                \/ n' = n - 1 /\ Basic(k)' = Active(k) /\ Active(k) \in Whole
                \/ n' = n - 1 /\ Basic(k)' = Basic(k) /\ (Active(k) = None \/ Basic(k) \notin {None, "partial"})
  <2>1. /\ op.to = <<"basic", k>> /\ op.how = "backup" /\ op.from = "active" /\ op.kind = k
        /\ Source(p, op) = Active(k)
    BY <1>5 DEF Op, Source, Active
  <2>2. \A f \in Names \X Kinds : Becomes(p, op, f)
    BY <1>0, OpBecomes
  <2>3. \A f \in Names \X Kinds : f # <<"basic", k>> => dir'[f] = dir[f]
    BY <2>1, <2>2 DEF Becomes
  <2>4. Becomes(p, op, <<"basic", k>>) /\ <<"basic", k>> \in Names \X Kinds
    BY <1>0, <2>2 DEF Names
  <2> QED
    BY <2>1, <2>3, <2>4 DEF Becomes, Skips, Starts, Ends, Idle, Basic
<1>6. ASSUME NEW k \in Kinds, op = Op("copy", "diarized", "active", k)
      PROVE  /\ \A f \in Names \X Kinds : f # <<"active", k>> => dir'[f] = dir[f]
             /\ \/ n' = n /\ Active(k)' = "partial"
                \/ n' = n - 1 /\ Active(k)' = "labelled"
  <2>1. /\ op.to = <<"active", k>> /\ op.how = "copy" /\ op.from = "diarized" /\ op.kind = k
        /\ Source(p, op) = "labelled"
    BY <1>3, <1>6 DEF Op, Source
  <2>2. \A f \in Names \X Kinds : Becomes(p, op, f)
    BY <1>0, OpBecomes
  <2>3. \A f \in Names \X Kinds : f # <<"active", k>> => dir'[f] = dir[f]
    BY <2>1, <2>2 DEF Becomes
  <2>4. Becomes(p, op, <<"active", k>>) /\ <<"active", k>> \in Names \X Kinds
    BY <1>0, <2>2 DEF Names
  <2> QED
    BY <1>0, <2>1, <2>3, <2>4 DEF Becomes, Skips, Starts, Ends, Idle, Active
<1>7. /\ Adopting' /\ Recognising'
  BY <1>1 DEF Adopting, Recognising
<1>8. ASSUME NEW k \in Kinds, op = Op("backup", "active", "basic", k),
             n = IF k = "txt" THEN 4 ELSE 3
      PROVE  WhoseFiles' /\ Promoting' /\ (ActiveAtRest' => Agrees') /\ LabelsInOrder' /\ CopiesAreOfPlain'
  <2>1. /\ \A l \in Kinds : Active(l)' = Active(l) /\ (l # k => Basic(l)' = Basic(l))
        /\ \A l \in Kinds : dir'[<<"diarized", l>>] = dir[<<"diarized", l>>] /\ dir'[<<"raw", l>>] = dir[<<"raw", l>>]
    BY <1>0, <1>5, <1>8 DEF Active, Basic, Names
  <2>2. \/ n' = n /\ Basic(k)' = "partial"
        \/ n' = n - 1 /\ Basic(k)' = Active(k) /\ Active(k) \in Whole
        \/ n' = n - 1 /\ Basic(k)' = Basic(k) /\ (Active(k) = None \/ Basic(k) \notin {None, "partial"})
    BY <1>5, <1>8
  <2>3. WhoseFiles'
    BY <1>4, <2>1 DEF WhoseFiles
  <2>4. n' \in {2, 3, 4}
    BY <1>8, <2>2
  <2>5. Basic(k) \in Contents
    BY <1>3, <1>0 DEF Basic, Names
  <2>6. n' = n - 1 /\ Active(k) = "plain" => Basic(k)' = "plain"
    BY <1>0, <1>1, <1>3, <2>2, <2>5 DEF Contents
  <2>7. Promoting'
    <3>1. n' <= 3 /\ Active("txt") = "plain" => Basic("txt")' = "plain"
      <4>1. CASE k = "txt"
        BY <1>8, <2>2, <2>6, <4>1
      <4>2. CASE k # "txt"
        BY <1>3, <1>4, <1>8, <2>1, <4>2
      <4> QED
        BY <4>1, <4>2
    <3>2. n' <= 2 /\ Active("json") = "plain" => Basic("json")' = "plain"
      <4>1. CASE k = "json"
        BY <1>8, <2>2, <2>6, <4>1
      <4>2. CASE k # "json"
        BY <1>8, <2>2, <4>2 DEF Kinds
      <4> QED
        BY <4>1, <4>2
    <3>3. ~(n' <= 1) /\ n' # 0
      BY <2>4
    <3>4. Active("txt")' = Active("txt") /\ Active("json")' = Active("json")
      BY <1>4, <2>1
    <3>5. \A l \in Kinds : dir'[<<"diarized", l>>] = "labelled"
      BY <1>3, <2>1
    <3> QED
      BY <3>1, <3>2, <3>3, <3>4, <3>5 DEF Promoting
  <2>8. ~ActiveAtRest'
    BY <1>1, <2>4 DEF ActiveAtRest
  <2>9. LabelsInOrder'
    BY <1>3, <1>4, <2>1 DEF LabelsInOrder
  <2>10. Active("txt") # None \/ Basic(k)' # "labelled"
    BY <1>0, <1>3, <1>4, <1>8, <2>2 DEF Kinds, Whole
  <2>11. CopiesAreOfPlain'
    BY <1>0, <1>1, <1>3, <1>4, <2>1, <2>2, <2>10 DEF CopiesAreOfPlain, Whole
  <2> QED
    BY <2>3, <2>7, <2>8, <2>9, <2>11
<1>9. ASSUME NEW k \in Kinds, op = Op("copy", "diarized", "active", k),
             n = IF k = "txt" THEN 2 ELSE 1
      PROVE  WhoseFiles' /\ Promoting' /\ (ActiveAtRest' => Agrees') /\ LabelsInOrder' /\ CopiesAreOfPlain'
  <2>1. /\ \A l \in Kinds : Basic(l)' = Basic(l) /\ (l # k => Active(l)' = Active(l))
        /\ \A l \in Kinds : dir'[<<"diarized", l>>] = dir[<<"diarized", l>>] /\ dir'[<<"raw", l>>] = dir[<<"raw", l>>]
    BY <1>0, <1>6, <1>9 DEF Active, Basic, Names
  <2>2. \/ n' = n /\ Active(k)' = "partial"
        \/ n' = n - 1 /\ Active(k)' = "labelled"
    BY <1>6, <1>9
  <2>3. WhoseFiles'
    BY <1>4, <2>1 DEF WhoseFiles
  <2>4. /\ n' <= 1 => Active("txt")' = "labelled"
        /\ n' = 0 => Active("json")' = "labelled"
        /\ Active("txt")' # None
        /\ \A l \in Kinds : Active(l)' = "plain" => Active(l) = "plain" /\ l = "json" /\ k = "txt"
    BY <1>0, <1>3, <1>4, <1>9, <2>1, <2>2 DEF Kinds
  <2>5. Promoting'
    <3>1. Active("txt")' = "plain" => Basic("txt")' = "plain"
      BY <1>4, <2>4
    <3>2. Active("json")' = "plain" => Basic("json")' = "plain"
      BY <1>3, <1>4, <1>9, <2>1, <2>4
    <3> QED
      BY <1>3, <1>4, <2>1, <2>4, <3>1, <3>2 DEF Promoting
  <2>6. ActiveAtRest' => Agrees'
    <3>1. ActiveAtRest' => n' = 0
      BY <1>1 DEF ActiveAtRest
    <3> QED
      BY <1>4, <2>2, <2>4, <3>1, <1>9 DEF Agrees, Kinds
  <2>7. LabelsInOrder'
    BY <2>4 DEF LabelsInOrder
  <2>8. CopiesAreOfPlain'
    BY <1>1, <1>3, <1>4, <2>1, <2>4 DEF CopiesAreOfPlain
  <2> QED
    BY <2>3, <2>5, <2>6, <2>7, <2>8
<1>10. \/ n = 4 /\ op = Op("backup", "active", "basic", "txt")
       \/ n = 3 /\ op = Op("backup", "active", "basic", "json")
       \/ n = 2 /\ op = Op("copy", "diarized", "active", "txt")
       \/ n = 1 /\ op = Op("copy", "diarized", "active", "json")
  BY <1>2 DEF Stands
<1> QED
  BY <1>4, <1>7, <1>8, <1>9, <1>10
LEMMA OpCalm ==
  ASSUME Kept, Kept', Calm, NEW p \in Writers, Open(p) \/ Close(p)
  PROVE  Calm'
<1> DEFINE Rest == /\ WhoseFiles' /\ Adopting' /\ Recognising' /\ Promoting'
                   /\ (ActiveAtRest' => Agrees') /\ LabelsInOrder' /\ CopiesAreOfPlain'
<1>1. Stands(p, pc[p], Todo(p), Head(script[p]))
  BY OpTypes
<1>2. OneAtWork'
  BY OpLeavesOneAtWork
<1>3. HeardWhole'
  BY OpTypes DEF Calm, HeardWhole
<1>4. CASE p = "handler"
  <2>1. \/ pc["handler"] \in {"adopt", "readopt"}
        \/ pc["handler"] \in {"whisper", "whisperx"} /\ Stem \in {"raw", "active"}
        \/ pc["handler"] = "baseline" /\ Stem \in {"raw", "active"}
    BY <1>1, <1>4 DEF Stands
  <2>2. Rest
    BY <1>4, <2>1, AdoptCalm, InPlaceCalm, RenamedCalm
  <2> QED
    BY <1>2, <1>3, <2>2 DEF Calm
<1>5. CASE p = "catchup"
  <2>1. pc["catchup"] \in {"collect", "promote"}
    BY <1>1, <1>5 DEF Stands
  <2>2. Rest
    BY <1>5, <2>1, CollectCalm, PromoteCalm
  <2> QED
    BY <1>2, <1>3, <2>2 DEF Calm
<1> QED
  BY <1>4, <1>5 DEF Writers

(* What was disturbed stays so. *)
LEMMA DisturbedForGood ==
  ASSUME Kept, [Next]_vars, ~disturbed'
  PROVE  ~disturbed
<1>1. CASE Process \/ Diarize \/ Baseline \/ Transcribed \/ SidecarFails \/ WhisperDone
             \/ WhisperFails \/ BestEffortFails \/ Summarise
  BY <1>1 DEF Process, Diarize, Baseline, Transcribed, SidecarFails, WhisperDone, WhisperFails,
    BestEffortFails, Summarise, Begin, Abandon, Hear, history
<1>2. CASE Catchup \/ Collected \/ PromoteCollected \/ CatchupDone \/ CatchupFails \/ Refresh \/ Scan \/ Rmtree
  BY <1>2 DEF Catchup, Collected, PromoteCollected, CatchupDone, CatchupFails, Refresh, Scan, Rmtree,
    Begin, Abandon, Hear, history
<1>3. CASE \/ MoveNote \/ DeleteNote \/ RestoreNote \/ UNCHANGED vars
           \/ \E p \in {"handler", "refresh"} : PatchNote(p)
           \/ \E p \in Writers : Open(p) \/ Close(p) \/ Crash(p)
  BY <1>3 DEF MoveNote, DeleteNote, RestoreNote, PatchNote, Open, Close, Crash, Abandon, history, vars
<1> QED
  BY <1>1, <1>2, <1>3 DEF Next

(* No step of a program that works alone disturbs the directory.           *)
LEMMA QuietStays ==
  ASSUME Kept, Quiet, [Next]_vars
  PROVE  Quiet'
<1> DEFINE h == "handler"
           c == "catchup"
<1> SUFFICES ASSUME ~disturbed' PROVE Calm'
  BY DEF Quiet
<1>0. /\ ~disturbed /\ Calm /\ Kept'
  BY DisturbedForGood, NextKeeps DEF Quiet
<1>t. /\ pc \in [Programs -> UNION {Labels[q] : q \in Programs}] /\ script \in [Writers -> Seq(Ops)]
      /\ heard \in [Programs -> Contents] /\ held \in [Writers -> Contents]
      /\ Writers = {h, c} /\ {h, c, "refresh", "prune"} = Programs
      /\ None \notin {"plain", "labelled", "partial"}
      /\ Labels[h] = Early \union {"idle", "summarise", "patch"} /\ Labels[c] = {"idle", "sidecar", "collect", "promote"}
  BY ConstantsAssumption DEF Kept, ScriptsKept, TypeOK, Programs, Writers, Labels, Early
<1>m. /\ Full("adopt") = Adopt /\ Full("readopt") = Adopt /\ Full("whisper") = Whisper("active")
      /\ Full("whisperx") = Whisper("active") /\ Full("baseline") = Whisper("basic")
      /\ Full("collect") = Collect /\ Full("promote") = Promote
      /\ \A label \in {"idle", "sidecar", "summarise"} : Full(label) = <<>>
  BY DEF Full
<1>a. \A p \in Writers : script[p] = <<>> => Todo(p) = 0
  BY DEF Todo
<1>b. \A p \in Writers : pc[p] \in {"idle", "sidecar", "rediarize", "summarise", "patch"} => script[p] = <<>>
  BY <1>t, NothingToDo DEF Kept, ScriptsKept
<1>d. HeardWhole /\ (UNCHANGED <<heard, minutes>> => HeardWhole')
  BY <1>0 DEF Calm, HeardWhole
<1>e. \A p \in Writers : pc[p] # "idle" => \A q \in Writers \ {p} : pc[q] = "idle" /\ script[q] = <<>>
  BY <1>0, <1>t, <1>b DEF Calm, OneAtWork
<1>f. \A p \in Writers : script[p] = <<>> => held[p] = None
  BY DEF Kept, TypeOK
<1>i. \A p \in Writers : (pc[p] # "idle" \/ \A q \in Writers \ {p} : pc[q] = "idle") /\ script[p] = <<>> => InOrder
  BY <1>0, <1>t, <1>a, <1>b, <1>e, InOrderAtRest
<1>j. pc[h] \in Early => \A k \in Kinds : Basic(k) # "labelled"
  BY <1>0 DEF Calm, CopiesAreOfPlain, Early
(* Beginning *)
<1>g. ASSUME NEW p \in Writers, NEW label \in Labels[p], NEW left, Begin(p, label, Full(label), left),
             label \in {"whisper", "whisperx"} \/ script[p] = <<>>,
             p = h /\ label \in Early => pc[h] \in Early \/ dir[<<"active", "txt">>] = None,
             label = "promote" => Diarized
      PROVE  Calm'
  <2>1. label \in {"whisper", "whisperx"} \/ InOrder
    BY <1>g, <1>i DEF Begin, Beside
  <2>2. label \in Early /\ p = h => \A k \in Kinds : Basic(k) # "labelled"
    BY <1>0, <1>g, <1>j DEF Calm, CopiesAreOfPlain, Active
  <2> QED
    BY <1>0, <1>g, <2>1, <2>2, BeginCalm
<1>1. CASE Process
  <2>1. script[h] = <<>> /\ h \in Writers
    BY <1>1, <1>t, <1>b DEF Process
  <2>2. CASE dir[<<"active", "txt">>] # None
    <3>1. Begin(h, "summarise", Full("summarise"), {})
      BY <1>1, <1>m, <2>2 DEF Process
    <3> QED
      BY <1>g, <1>t, <2>1, <3>1 DEF Early
  <2>3. CASE dir[<<"active", "txt">>] = None
    <3>1. PICK label \in {"sidecar", "whisperx", "whisper"} : Begin(h, label, Full(label), {})
      BY <1>1, <1>m, <2>3 DEF Process
    <3> QED
      BY <1>g, <1>t, <2>1, <2>3, <3>1 DEF Early
  <2> QED
    BY <2>2, <2>3
<1>2. CASE Diarize
  <2>1. PICK left \in SUBSET Kinds : Begin(h, "adopt", Adopt, left) \/ Begin(h, "readopt", Adopt, left)
    BY <1>2 DEF Diarize
  <2>2. pc[h] \in Early /\ script[h] = <<>> /\ h \in Writers
    BY <1>2, <1>t, <1>b DEF Diarize, Early
  <2>3. CASE Begin(h, "adopt", Adopt, left)
    BY <1>g, <1>t, <1>m, <2>2, <2>3 DEF Early
  <2>4. CASE Begin(h, "readopt", Adopt, left)
    BY <1>g, <1>t, <1>m, <2>2, <2>4 DEF Early
  <2> QED
    BY <2>1, <2>3, <2>4
<1>3. CASE Baseline
  <2>1. Begin(h, "baseline", Whisper("basic"), {}) /\ pc[h] \in Early /\ script[h] = <<>> /\ h \in Writers
    BY <1>3, <1>t DEF Baseline, Done, Early
  <2> QED
    BY <1>g, <1>t, <1>m, <2>1 DEF Early
<1>4. CASE Transcribed
  <2>1. Begin(h, "summarise", <<>>, {}) /\ script[h] = <<>> /\ h \in Writers
    BY <1>4, <1>t DEF Transcribed, Done
  <2> QED
    BY <1>g, <1>t, <1>m, <2>1 DEF Early
(* A script that is left, at its end *)
<1>h. ASSUME NEW p \in Writers, NEW label \in {"idle", "summarise"}, Abandon(p, label), pc[p] # "idle",
             p = c => label = "idle"
      PROVE  Calm'
  <2>1. /\ pc' = [pc EXCEPT ![p] = label] /\ script[p] = <<>> /\ held[p] = None
        /\ script' = [script EXCEPT ![p] = <<>>] /\ held' = [held EXCEPT ![p] = None]
        /\ UNCHANGED <<setting, dir, heard, minutes>>
    BY <1>h, <1>f DEF Abandon, Goto
  <2>2. script' = script /\ held' = held
    BY <1>t, <2>1
  <2> QED
    BY <1>0, <1>d, <1>h, <2>1, <2>2, GoOnCalm
<1>5. CASE SidecarFails
  <2>1. pc[h] \in Early /\ pc[h] # "idle" /\ h \in Writers
    BY <1>5, <1>t DEF SidecarFails, Early
  <2>2. CASE Begin(h, "whisper", Whisper("active"), {})
    BY <1>g, <1>t, <1>m, <2>1, <2>2 DEF Early
  <2>3. CASE Abandon(h, "idle")
    BY <1>h, <1>t, <2>1, <2>3
  <2> QED
    BY <1>5, <2>2, <2>3 DEF SidecarFails
<1>6. CASE WhisperDone
  <2>1. PICK label \in {"rediarize", "summarise"} : pc' = [pc EXCEPT ![h] = label]
    BY <1>6 DEF WhisperDone, Goto
  <2>2. pc[h] \in Early /\ pc[h] # "idle" /\ script[h] = <<>> /\ h \in Writers
    BY <1>6, <1>t DEF WhisperDone, Done, Early
  <2>3. UNCHANGED <<setting, dir, script, held>> /\ HeardWhole'
    BY <1>6, <1>d DEF WhisperDone, disk
  <2> QED
    BY <1>0, <1>t, <2>1, <2>2, <2>3, GoOnCalm
<1>7. CASE WhisperFails
  <2>1. pc[h] \in Early /\ pc[h] # "idle" /\ h \in Writers
    BY <1>7, <1>t DEF WhisperFails, Early
  <2>2. CASE Begin(h, "whisper", Whisper("active"), {})
    BY <1>g, <1>t, <1>m, <2>1, <2>2 DEF Early
  <2>3. CASE Abandon(h, "idle")
    BY <1>h, <1>t, <2>1, <2>3
  <2> QED
    BY <1>7, <2>2, <2>3 DEF WhisperFails
<1>8. CASE BestEffortFails
  <2>1. pc[h] # "idle" /\ h \in Writers /\ Abandon(h, "summarise")
    BY <1>8, <1>t DEF BestEffortFails
  <2> QED
    BY <1>h, <1>t, <2>1
<1>9. CASE Summarise
  <2>1. pc[h] = "summarise" /\ script[h] = <<>> /\ h \in Writers
    BY <1>9, <1>t, <1>b DEF Summarise
  <2>2. \A f \in Names \X Kinds : dir[f] # "partial"
    BY <1>0, <1>e, <1>f, <2>1, <1>t, NoParts
  <2>3. HeardWhole'
    BY <1>9, <1>d, <1>t, <2>2 DEF Summarise, Hear, HeardWhole, Names, Kinds
  <2>4. PICK label \in {"idle", "patch"} : pc' = [pc EXCEPT ![h] = label]
    BY <1>9 DEF Summarise, Goto
  <2>5. UNCHANGED <<setting, dir, script, held>>
    BY <1>9 DEF Summarise, disk
  <2> QED
    BY <1>0, <1>t, <2>1, <2>3, <2>4, <2>5, GoOnCalm
<1>10. CASE Catchup
  <2>1. script[c] = <<>> /\ c \in Writers
    BY <1>10, <1>t, <1>b DEF Catchup
  <2>2. CASE Diarized /\ Begin(c, "promote", Promote, {})
    BY <1>g, <1>t, <1>m, <2>1, <2>2
  <2>3. CASE Begin(c, "sidecar", <<>>, {})
    BY <1>g, <1>t, <1>m, <2>1, <2>3
  <2> QED
    BY <1>10, <2>2, <2>3 DEF Catchup
<1>11. CASE Collected
  <2>1. PICK left \in SUBSET Kinds : Begin(c, "collect", Collect, left)
    BY <1>11 DEF Collected
  <2>2. script[c] = <<>> /\ c \in Writers
    BY <1>11, <1>t, <1>b DEF Collected
  <2> QED
    BY <1>g, <1>t, <1>m, <2>1, <2>2
<1>12. CASE PromoteCollected
  <2>1. script[c] = <<>> /\ c \in Writers
    BY <1>12, <1>t DEF PromoteCollected, Done
  <2>2. CASE Diarized /\ Begin(c, "promote", Promote, {})
    BY <1>g, <1>t, <1>m, <2>1, <2>2
  <2>3. CASE Begin(c, "idle", <<>>, {})
    BY <1>g, <1>t, <1>m, <2>1, <2>3
  <2> QED
    BY <1>12, <2>2, <2>3 DEF PromoteCollected
<1>13. CASE CatchupDone
  <2>1. /\ pc[c] # "idle" /\ script[c] = <<>> /\ c \in Writers /\ pc' = [pc EXCEPT ![c] = "idle"]
        /\ UNCHANGED <<setting, dir, script, held>> /\ HeardWhole'
    BY <1>13, <1>t, <1>d DEF CatchupDone, Done, Goto, disk
  <2> QED
    BY <1>0, <2>1, GoOnCalm
<1>14. CASE CatchupFails
  <2>1. pc[c] # "idle" /\ c \in Writers /\ Abandon(c, "idle")
    BY <1>14, <1>t DEF CatchupFails
  <2> QED
    BY <1>h, <2>1
<1>15. CASE Refresh
  <2>1. \A p \in Writers : script[p] = <<>>
    BY <1>15, <1>t DEF Refresh, Hear
  <2>2. \A f \in Names \X Kinds : dir[f] # "partial"
    BY <1>0, <1>f, <2>1, NoParts
  <2>3. HeardWhole'
    BY <1>15, <1>d, <1>t, <2>2 DEF Refresh, Hear, HeardWhole, Names, Kinds
  <2>4. pc'[h] = pc[h] /\ pc'[c] = pc[c] /\ UNCHANGED <<setting, disk>>
    BY <1>15, <1>t DEF Refresh, Goto
  <2> QED
    BY <1>0, <2>3, <2>4, BesideCalm
<1>16. CASE Scan
  <2>1. pc'[h] = pc[h] /\ pc'[c] = pc[c] /\ UNCHANGED <<setting, disk>> /\ HeardWhole'
    BY <1>16, <1>t, <1>d DEF Scan, Goto
  <2> QED
    BY <1>0, <2>1, BesideCalm
<1>17. CASE Rmtree
  BY <1>0, <1>17, RmtreeCalm
<1>18. CASE MoveNote \/ DeleteNote \/ RestoreNote \/ UNCHANGED vars
  <2>1. pc' = pc /\ UNCHANGED <<setting, disk>> /\ HeardWhole'
    BY <1>18, <1>d DEF MoveNote, DeleteNote, RestoreNote, vars
  <2> QED
    BY <1>0, <2>1, BesideCalm
<1>19. CASE \E p \in {"handler", "refresh"} : PatchNote(p)
  <2> PICK p \in {"handler", "refresh"} : PatchNote(p)
    BY <1>19
  <2>1. HeardWhole'
    BY <1>d, <1>t DEF PatchNote, HeardWhole
  <2>2. UNCHANGED <<setting, disk>> /\ pc' = [pc EXCEPT ![p] = "idle"] /\ pc[p] = "patch"
    BY DEF PatchNote, Goto
  <2>3. CASE p = h
    <3>1. script[h] = <<>> /\ h \in Writers /\ UNCHANGED <<setting, dir, script, held>>
      BY <1>t, <1>b, <2>2, <2>3 DEF disk
    <3> QED
      BY <1>0, <2>1, <2>2, <2>3, <3>1, GoOnCalm
  <2>4. CASE p = "refresh"
    <3>1. pc'[h] = pc[h] /\ pc'[c] = pc[c]
      BY <1>t, <2>2, <2>4
    <3> QED
      BY <1>0, <2>1, <2>2, <3>1, BesideCalm
  <2> QED
    BY <2>3, <2>4
<1>20. CASE \E p \in Writers : Open(p) \/ Close(p) \/ Crash(p)
  <2> PICK p \in Writers : Open(p) \/ Close(p) \/ Crash(p)
    BY <1>20
  <2>1. CASE Crash(p)
    BY <1>h, <2>1 DEF Crash
  <2> QED
    BY <1>0, <2>1, OpCalm
<1> QED
  BY <1>1, <1>2, <1>3, <1>4, <1>5, <1>6, <1>7, <1>8, <1>9, <1>10, <1>11, <1>12, <1>13, <1>14, <1>15,
     <1>16, <1>17, <1>18, <1>19, <1>20 DEF Next
-----------------------------------------------------------------------------
(* The properties *)

(* The inductive invariant. *)
LEMMA InvariantHolds == Spec => []IInv
<1>1. Init => IInv
  BY InitKept, InitSearch, InitCalm DEF IInv, Quiet
<1>2. IInv /\ [Next]_vars => IInv'
  BY NextKeeps, SearchStays, QuietStays DEF IInv
<1> QED
  BY <1>1, <1>2, PTL DEF Spec

(* At rest the .txt and the .json tell the same, as long as no two         *)
(* programs were at work at once and no script was cut short: by a death,  *)
(* by a failing copy, or by a file the sidecar left out.                   *)
LEMMA ActiveFilesAgree == Spec => []ActiveAgrees
<1>1. IInv => ActiveAgrees
  <2> SUFFICES ASSUME IInv, \A p \in Writers : pc[p] = "idle", ~disturbed
               PROVE  \A k, l \in Kinds : {dir[<<"active", k>>], dir[<<"active", l>>]} # Whole
    BY DEF ActiveAgrees
  <2>1. \A p \in Writers : Todo(p) = 0
    BY NothingToDo DEF IInv, Kept, ScriptsKept, Todo
  <2>2. Agrees
    BY <2>1, InOrderAtRest DEF IInv, Quiet, InOrder, Writers
  <2>3. SUFFICES ASSUME NEW k \in Kinds, NEW l \in Kinds,
                        {dir[<<"active", k>>], dir[<<"active", l>>]} = Whole
                 PROVE  FALSE
    OBVIOUS
  <2>4. ~(Active(k) = "plain" /\ Active(l) = "labelled") /\ ~(Active(l) = "plain" /\ Active(k) = "labelled")
    BY <2>2 DEF Agrees
  <2>5. "plain" \in Whole /\ "labelled" \in Whole /\ "plain" # "labelled"
    BY DEF Whole
  <2> QED
    BY <2>3, <2>4, <2>5 DEF Active
<1> QED
  BY <1>1, InvariantHolds, PTL

(* With every setting but one combination, the handler that goes on to     *)
(* summarise has its transcript, whatever failed or ran beside it.         *)
THEOREM TranscriptReliable == NotInPlace => (Spec => []TranscriptAgrees)
<1> SUFFICES ASSUME NotInPlace PROVE Spec => []TranscriptAgrees
  OBVIOUS
<1> DEFINE Inv == IInv /\ TranscriptStays
<1>1. Init => Inv
  <2>1. Init => TranscriptStays
    BY DEF Init, TranscriptStays, Programs, Writers
  <2> QED
    BY <2>1, InitKept, InitSearch, InitCalm DEF IInv, Quiet
<1>2. Inv /\ [Next]_vars => Inv'
  BY NextKeeps, SearchStays, QuietStays, TranscriptStaysOn DEF IInv
<1>3. Inv => TranscriptIsThere
  BY DEF TranscriptStays, TranscriptIsThere, Active
<1>4. TranscriptIsThere /\ ActiveAgrees => TranscriptAgrees
  BY DEF TranscriptAgrees
<1> QED
  BY <1>1, <1>2, <1>3, <1>4, ActiveFilesAgree, PTL DEF Spec

(* The catch-up replaces a plain transcript only when a whole plain copy   *)
(* is in place. *)
THEOREM PlainCopyIsKept == Spec => BaselineKept
<1> DEFINE Replaces(k) == /\ pc["catchup"] = "promote"
                          /\ dir[<<"active", k>>] = "plain" /\ dir'[<<"active", k>>] \in {"partial", "labelled"}
           c == "catchup"
<1>1. ASSUME IInv, [Next]_vars, NEW k \in Kinds, Replaces(k), ~disturbed
      PROVE  dir[<<"basic", k>>] = "plain"
  <2>0. /\ Kept /\ Calm /\ c \in Writers /\ Writers = {"handler", c} /\ <<"active", k>> \in Names \X Kinds
        /\ pc["handler"] = "idle" /\ script["handler"] = <<>>
    <3>1. /\ Kept /\ Calm /\ c \in Writers /\ Writers = {"handler", c} /\ <<"active", k>> \in Names \X Kinds
      BY <1>1 DEF IInv, Quiet, Writers, Names
    <3>2. pc["handler"] = "idle"
      BY <1>1, <3>1 DEF Calm, OneAtWork
    <3> QED
      BY <3>1, <3>2, NothingToDo DEF Kept, ScriptsKept
  <2>1. dir'[<<"active", k>>] # dir[<<"active", k>>] /\ dir'[<<"active", k>>] # None
    BY <1>1, ConstantsAssumption
  <2>2. Open(c) \/ Close(c)
    <3>1. dir' # dir
      BY <2>1
    <3>2. ~Rmtree
      BY <2>0, <2>1 DEF Rmtree
    <3>3. ~(Open("handler") \/ Close("handler"))
      BY <2>0 DEF Open, Close
    <3>4. ~(Process \/ Diarize \/ Baseline \/ Transcribed \/ SidecarFails \/ WhisperDone
            \/ WhisperFails \/ BestEffortFails \/ Summarise)
      BY <3>1 DEF Process, Diarize, Baseline, Transcribed, SidecarFails, WhisperDone,
        WhisperFails, BestEffortFails, Summarise, Begin, Abandon, disk
    <3>5. ~(Catchup \/ Collected \/ PromoteCollected \/ CatchupDone \/ CatchupFails \/ Refresh \/ Scan)
      BY <3>1 DEF Catchup, Collected, PromoteCollected, CatchupDone, CatchupFails, Refresh, Scan,
        Begin, Abandon, disk
    <3>6. ~(MoveNote \/ DeleteNote \/ RestoreNote \/ (\E p \in {"handler", "refresh"} : PatchNote(p))
            \/ (\E p \in Writers : Crash(p)) \/ UNCHANGED vars)
      BY <3>1 DEF MoveNote, DeleteNote, RestoreNote, PatchNote, Crash, Abandon, disk, vars
    <3> QED
      BY <1>1, <2>0, <3>2, <3>3, <3>4, <3>5, <3>6 DEF Next
  <2>3. Stands(c, "promote", Todo(c), Head(script[c]))
    BY <1>1, <2>0, <2>2, OpTypes
  <2>4. Head(script[c]).how # "move" /\ Head(script[c]).to = <<"active", k>>
    <3>1. Head(script[c]).how # "move"
      BY <2>3 DEF Stands, Op
    <3> QED
      BY <2>0, <2>1, <2>2, <3>1, OnlyMovesRemove
  <2>5. (k = "txt" /\ Todo(c) = 2) \/ (k = "json" /\ Todo(c) = 1)
    BY <2>3, <2>4 DEF Stands, Op, Kinds
  <2> QED
    BY <1>1, <2>0, <2>5 DEF Calm, Promoting, Active, Basic
<1>2. IInv /\ [Next]_vars =>
        [\A k \in Kinds : Replaces(k) => disturbed \/ dir[<<"basic", k>>] = "plain"]_vars
  BY <1>1
<1>3. Spec => []IInv
  BY InvariantHolds
<1> QED
  BY <1>2, <1>3, PTL DEF Spec, BaselineKept
=============================================================================

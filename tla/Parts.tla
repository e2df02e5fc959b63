------------------------------- MODULE Parts -------------------------------
(***************************************************************************)
(* The parts that share no state with the others, one at a time: the pure  *)
(* ones are asked about every input of a set, the summary client and the   *)
(* deployment take their steps.                                            *)
(***************************************************************************)
EXTENDS SummaryClient, CatchupBatch, Diarize

CONSTANTS
  Unavailable, Error, MaxCandidates, DayLength,    \* of Calendar
  Labellers,                                       \* the models there are
  Entries, InstallAt, ByName, MaxRelease,          \* of Deploy
  Regions,       \* of a note that may be patched
  Values,        \* that the summary service may write
  Inputs         \* for each pure part, what it is asked about

VARIABLES part, input, release, builder, bundle, archive, applier, source, packed, target,
          steady, sound, trusted

client == vars
deployment == <<release, builder, bundle, archive, applier, source, packed, target,
                steady, sound, trusted>>
parts == <<part, input, client, deployment>>

Cal == INSTANCE Calendar
Text == INSTANCE SummaryText
Patch == INSTANCE NotePatch
Matter == INSTANCE Frontmatter
Dep == INSTANCE Deploy

Questions == {"match", "underway", "fetch", "link", "patch", "text", "normalize", "tags",
              "labeller", "speakers", "heard", "sparse", "turns", "filed", "batch"}

ASSUME DeployAssumption == Dep!ConstantsAreRight
(* A value the service writes is made of such values. *)
ASSUME ValuesAssumption ==
  /\ Inputs.text \subseteq Values
  /\ \A v \in Values :
       /\ v.is = "list" => v.items \in Seq(Values)
       /\ v.is = "object" => {v.minutes, v.decisions, v.action_items} \subseteq Values

(* A list of anything. *)
IsList(s) == s \in Seq({s[n] : n \in DOMAIN s})

(* A calendar lists events of whole minutes, icalBuddy minutes of the day; *)
(* no event is the value that stands for none, and no list a failure. Of   *)
(* the candidates at least two are looked at.                              *)
Event == [title : Int, start : Int, end : Int, canceled : BOOLEAN]
Line == [title : Int, from : 0..(DayLength - 1), to : 0..(DayLength - 1)]
ASSUME CalendarAssumption ==
  /\ Unavailable # Error /\ << >> \notin {Unavailable, Error} /\ None \notin Event
  /\ MaxCandidates \in Nat /\ MaxCandidates >= 2 /\ DayLength \in Nat \ {0}
ASSUME EventsAssumption ==
  /\ \A q \in Inputs.match : q.events \in Seq(Event) /\ q.now \in Int
  /\ \A q \in Inputs.underway : q.lines \in Seq(Line) /\ q.now \in Int
  /\ \A links \in Inputs.link : IsList(links)

(* The recordings a batch finds have a path each, and an end of the        *)
(* sidecar; what is scanned of a vault is a list.                          *)
ASSUME BatchAssumption ==
  \A q \in Inputs.batch :
    /\ IsFiniteSet(q.found) /\ IsList(q.notes)
    /\ \A f \in q.found : /\ f.family \in Int /\ f.mtime \in Int /\ f.ext \in {"wav", "m4a"}
                          /\ f.family \in DOMAIN q.sidecar /\ Path(f) # None
    /\ \A f, g \in q.found : Path(f) = Path(g) => f = g
ASSUME FilingAssumption == \A q \in Inputs.filed : IsList(q.notes)

(* A note is a list of tokens or of lines, and so is what is written to    *)
(* it. A dict of updates has a region but once, and the markers of a note  *)
(* are those of the regions there are.                                     *)
OneForEach(updates) ==
  /\ IsList(updates) /\ \A i \in DOMAIN updates : IsList(updates[i][2])
  /\ \A i, j \in DOMAIN updates : updates[i][1] = updates[j][1] => i = j
ASSUME NotesAssumption ==
  /\ \A q \in Inputs.patch :
       /\ IsList(q.note) /\ OneForEach(q.updates)
       /\ \A i \in DOMAIN q.note : Patch!IsMarker(q.note[i]) => q.note[i].of \in Regions
  /\ \A q \in Inputs.normalize : IsList(q.fm)
  /\ \A q \in Inputs.tags : IsList(q.fm) /\ \A i \in DOMAIN q.fm : IsList(q.fm[i].words)

(* Sound is cut into windows of one length that slide on, whatever the     *)
(* order they are listed in, each of which has a label, and into stretches. *)
Sliding(windows) ==
  /\ \A i \in DOMAIN windows : windows[i].start \in Int /\ windows[i].end \in Int
                               /\ windows[i].start < windows[i].end
  /\ \A i, j \in DOMAIN windows :
       /\ windows[i].start = windows[j].start => i = j
       /\ windows[i].start < windows[j].start => windows[i].end <= windows[j].end
Sounds(windows, labels, segments) ==
  /\ windows \in Seq([start : Int, end : Int]) /\ windows # << >> /\ Sliding(windows)
  /\ labels \in Seq(STRING) /\ Len(labels) = Len(windows)
  /\ \A n \in DOMAIN segments : /\ segments[n].start \in Int /\ segments[n].end \in Int
                                /\ segments[n].start < segments[n].end
(* A stretch with a speaker; and what is transcribed, of which a segment   *)
(* or a word may have no time. A token stands for a word at its place.     *)
Labelled == [start : Nat, end : Nat, speaker : STRING]
Times == Nat \cup {NoTime}
Uttered == [speaker : STRING, start : Times, end : Times, token : STRING]
Utterance == [speaker : STRING, start : Times, end : Times, words : Seq(Uttered), text : STRING]
Distinct(items) ==
  \A i, j \in DOMAIN items : items[i].token = items[j].token => i = j
ASSUME SpeechConstants ==
  /\ Labellers \in Seq(STRING) /\ {SmoothSpan, MinSegments, MinShare} \subseteq Nat
  /\ {DefaultGap, DefaultDuration, MinSilhouette} \subseteq Int
  /\ {AutoSamples, AutoMin, AutoMax, MinClusterWindows, MinClusterShare} \subseteq Nat
ASSUME SpeechAssumption ==
  /\ \A q \in Inputs.speakers : {q.min, q.max} \subseteq Nat /\ q.samples \in Nat \ {0}
  /\ \A q \in Inputs.heard : Sounds(q.windows, q.labels, q.segments)
  /\ Inputs.sparse \subseteq Seq(Labelled)
  /\ \A q \in Inputs.turns : {q.gap, q.duration} \subseteq Int
  /\ \A segments \in {q.segments : q \in Inputs.turns} :
       segments \in Seq(Utterance) /\ Distinct(Items(segments))

-----------------------------------------------------------------------------
PartsInit ==
  /\ Init /\ Dep!Init
  /\ part = "none" /\ input = << >>

(* A question about a part, and no step after it. *)
Question(name) ==
  /\ part = "none" /\ target = Dep!NoTrees
  /\ part' = name /\ input' \in Inputs[name]
  /\ UNCHANGED <<client, deployment>>

ClientStep ==
  /\ part \in {"none", "client"} /\ target = Dep!NoTrees
  /\ Next
  /\ part' = "client" /\ UNCHANGED <<input, deployment>>

DeployStep ==
  /\ part \in {"none", "deployment"}
  /\ Dep!Next
  /\ part' = "deployment" /\ UNCHANGED <<input, client>>

PartsNext == (\E name \in Questions : Question(name)) \/ ClientStep \/ DeployStep

(* The client's own fairness, where it has begun. *)
PartsSpec ==
  /\ PartsInit /\ [][PartsNext]_parts
  /\ WF_parts(part = "client" /\ Request /\ UNCHANGED <<part, input, deployment>>)

-----------------------------------------------------------------------------
(* The properties of the parts, each at its questions; they are stated and *)
(* explained in the modules of the parts.                                  *)

(* The calendar finds the meeting, from whatever backend has it: no event  *)
(* is lost between the backends, the meeting under way is found, a         *)
(* recording is filed under a meeting only if no other fits as well, and   *)
(* the link is of the preferred platform.                                  *)
CalendarAnswers ==
  /\ part = "match" => Cal!OnlyFitOrNone(input.events, input.now, input.reach.forward,
                                         input.reach.backward, input.reach.window)
  /\ part = "underway" => Cal!UnderWayIsFound(input.lines, 0, DayLength, input.now)
  /\ part = "fetch" => Cal!FetchFindsEvents(input.env, input.jxa, input.ical)
  /\ part = "link" => Cal!PlatformIsPreferred(input)

(* The tools that rewrite a note keep what is not theirs: a patch keeps to *)
(* its regions, normalising and fixing tags keep the other keys and        *)
(* settle.                                                                 *)
NotesAreKept ==
  /\ part = "patch" =>
       Patch!PatchTouchesItsRegions(input.note, input.updates,
                                    {r \in Regions : Patch!HasRegion(input.note, r)})
  /\ part = "normalize" => Matter!NormalizeKeepsTheRest(input.parts, input.fm)
  /\ part = "tags" => Matter!FixerAgreesWithAudit(input.fm, input.dropped)

(* Whatever the service answers, minutes within two layers of encoding     *)
(* reach the note, and so do the lists of an outer reply that is whole.    *)
SummaryIsWhole == part = "text" => Text!SummaryIsWhole(input)

(* The diarization keeps the words, the speakers and the user's options.   *)
SpeechIsKept ==
  /\ part = "labeller" => LabelledByAllowed(input.args, Labellers, input.token,
                                            input.cached, input.works)
  /\ part = "speakers" => SpeakerLimitsHold(input.min, input.max, input.samples, input.clusters)
  /\ part = "heard" => SpeakersAreHeard(input.windows, input.labels, input.segments)
  /\ part = "sparse" => SparseSpeakersGone(input)
  /\ part = "turns" => TurnsKeepEveryWord(input.segments, input.gap, input.duration)

(* The catch-up files each recording on evidence and ends a batch early    *)
(* only for a reason; a stopped or failing batch of recordings that are    *)
(* apart is picked up by the next.                                         *)
CatchupResumes ==
  /\ part = "filed" => FiledOnEvidence(input.recording, input.notes)
  /\ part = "batch" =>
       NextRunPicksUp(input.found, input.notes,
         [transcribed |-> input.transcribed, require |-> input.require], input.sidecar)

(* install.sh runs on what the archive has, and on one whole release if    *)
(* the archive was packed to its end from a repository that stood still.   *)
InstallsWhatWasPacked == Dep!InstallsWhatWasPacked
=============================================================================

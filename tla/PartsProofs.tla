---------------------------- MODULE PartsProofs ----------------------------
(***************************************************************************)
(* Theorems about the parts, for every input: that the calendar finds the  *)
(* meeting, that a summary reaches the note whole, that a batch of the     *)
(* catch-up is picked up by the next, that the diarization keeps every     *)
(* word and speaker; for any number of candidates and of retries, that one *)
(* call of the summary client asks none too often, passes none over, and   *)
(* keeps an answer that can be read; and that beside all these a deploy    *)
(* still installs one release.                                             *)
(***************************************************************************)
EXTENDS Parts, WellFoundedInduction, FunctionTheorems, FiniteSetTheorems, TLAPS

-----------------------------------------------------------------------------
(* Calendar *)

(* The fallback between the three backends loses no event, whatever each   *)
(* replies and however the helper is configured.                           *)
THEOREM FallbackFindsEvents ==
  ASSUME Unavailable # Error, << >> \notin {Unavailable, Error}
  PROVE  \A env, jxa, ical : Cal!FetchFindsEvents(env, jxa, ical)
<1> SUFFICES ASSUME NEW env, NEW jxa, NEW ical PROVE Cal!FetchFindsEvents(env, jxa, ical)
  OBVIOUS
<1> DEFINE eventkit == Cal!EventKit(env)
           fetched == Cal!FetchEvents(eventkit, jxa, ical)
           replies == <<eventkit, jxa, ical>>
           has == {i \in 1..3 : Cal!Found(replies[i])}
<1> SUFFICES ASSUME eventkit # Error
             PROVE  /\ has # {} => \E i \in has : fetched.events = replies[i] /\ \A j \in has : i <= j
                    /\ has = {} => fetched.events \in {<< >>, Error}
  BY DEF Cal!FetchFindsEvents
<1> HIDE DEF eventkit
<1>0. replies[1] = eventkit /\ replies[2] = jxa /\ replies[3] = ical
  OBVIOUS
<1>1. CASE Cal!Found(eventkit)
  <2>1. fetched.events = eventkit
    BY <1>1 DEF Cal!FetchEvents, Cal!Found, Cal!Failed
  <2>2. 1 \in has
    BY <1>0, <1>1
  <2> QED
    BY <1>0, <2>1, <2>2
<1>2. CASE ~Cal!Found(eventkit) /\ Cal!Found(jxa)
  <2>1. fetched.events = jxa
    BY <1>2 DEF Cal!FetchEvents
  <2>2. 2 \in has /\ 1 \notin has
    BY <1>0, <1>2
  <2>3. \A j \in has : 2 <= j
    BY <2>2
  <2> QED
    BY <1>0, <2>1, <2>2, <2>3
<1>3. CASE ~Cal!Found(eventkit) /\ ~Cal!Found(jxa) /\ Cal!Found(ical)
  <2>1. ASSUME eventkit = Unavailable PROVE fetched.events = ical
    BY <1>3, <2>1 DEF Cal!FetchEvents, Cal!Found, Cal!Failed
  <2>2. ASSUME eventkit # Unavailable PROVE fetched.events = ical
    BY <1>3, <2>2 DEF Cal!FetchEvents, Cal!Found, Cal!Failed
  <2>3. fetched.events = ical
    BY <2>1, <2>2
  <2>4. 3 \in has /\ 1 \notin has /\ 2 \notin has
    BY <1>0, <1>3
  <2>5. \A j \in has : 3 <= j
    BY <2>4
  <2> QED
    BY <1>0, <2>3, <2>4, <2>5
<1>4. CASE ~Cal!Found(eventkit) /\ ~Cal!Found(jxa) /\ ~Cal!Found(ical)
  <2>1. has = {}
    BY <1>0, <1>4
  <2>2. CASE eventkit = Unavailable
    BY <1>4, <2>1, <2>2 DEF Cal!FetchEvents, Cal!Found, Cal!Failed
  <2>3. CASE eventkit # Unavailable
    <3>1. eventkit = << >>
      BY <1>4, <2>3 DEF Cal!Found, Cal!Failed
    <3> QED
      BY <1>4, <2>1, <2>3, <3>1 DEF Cal!FetchEvents
  <2> QED
    BY <2>2, <2>3
<1> QED
  BY <1>1, <1>2, <1>3, <1>4

-----------------------------------------------------------------------------
(* Summary *)

LEMMA PlainIsText ==
  /\ ~Text!NonBlank(Text!Missing) /\ ~Text!NonBlank(Text!Blank)
  /\ Text!NonBlank(Text!Repr) /\ Text!NonBlank(Text!NoSummary)
BY DEF Text!NonBlank, Text!Missing, Text!Blank, Text!Repr, Text!NoSummary, Text!Plain

(* What is extracted from a text is not blank, and is asked of objects     *)
(* only. *)
LEMMA Extracted ==
  ASSUME NEW text
  PROVE  /\ Text!ExtractMinutes(text) # Text!Missing => Text!NonBlank(Text!ExtractMinutes(text))
         /\ Text!NonBlank(text) =>
              Text!NonBlank(Text!Either(Text!ExtractMinutes(text), text))
BY DEF Text!ExtractMinutes, Text!Either

(* The minutes of a summary are never blank, whatever the value and the    *)
(* fallback are. *)
LEMMA CoercedMinutes ==
  ASSUME NEW value, NEW fallback
  PROVE  Text!NonBlank(Text!CoerceMinutes(value, fallback))
BY PlainIsText, Extracted DEF Text!CoerceMinutes

LEMMA NormalizedMinutes ==
  ASSUME NEW payload
  PROVE  Text!NonBlank(Text!Normalize(payload).minutes)
BY CoercedMinutes DEF Text!Normalize

(* A text that is not blank is taken, with or without what it holds. *)
LEMMA TextIsCoerced ==
  ASSUME NEW value, Text!NonBlank(value), NEW fallback
  PROVE  Text!CoerceMinutes(value, fallback) = Text!Either(Text!ExtractMinutes(value), value)
BY DEF Text!CoerceMinutes, Text!NonBlank

(* A text that is no object is taken as it is. *)
LEMMA PlainStays ==
  ASSUME NEW text, text.is = "plain", NEW fallback
  PROVE  Text!CoerceMinutes(text, fallback) = text /\ ~Text!HoldsSummary(text)
BY DEF Text!CoerceMinutes, Text!ExtractMinutes, Text!Either, Text!NonBlank, Text!HoldsSummary

(* Normalize finds the innermost of the minutes. *)
LEMMA NormalizeFinds ==
  ASSUME NEW payload, NEW text, text.is = "plain",
         \/ payload.minutes = text
         \/ payload.minutes.is = "object" /\ payload.minutes.minutes = text
  PROVE  Text!Normalize(payload).minutes = text
<1>1. Text!CoerceMinutes(payload.minutes, Text!Blank) = text
  <2>1. CASE payload.minutes = text
    BY <2>1, PlainStays
  <2>2. CASE payload.minutes.is = "object" /\ payload.minutes.minutes = text
    <3>1. Text!NonBlank(text) /\ Text!NonBlank(payload.minutes) /\ text # Text!Missing
      BY <2>2 DEF Text!NonBlank, Text!Missing
    <3>2. Text!ExtractMinutes(payload.minutes) = text
      BY <2>2, <3>1 DEF Text!ExtractMinutes
    <3> QED
      BY <3>1, <3>2 DEF Text!CoerceMinutes, Text!Either
  <2> QED
    BY <2>1, <2>2
<1>2. CASE Text!IsText(payload.minutes) /\ Text!HoldsSummary(payload.minutes)
  <2>1. payload.minutes.minutes = text
    BY <1>2, PlainStays
  <2>2. payload.minutes # Text!Missing
    BY <1>2 DEF Text!HoldsSummary, Text!Missing
  <2> QED
    BY <1>1, <1>2, <2>1, <2>2, PlainStays DEF Text!Normalize
<1>3. CASE ~(Text!IsText(payload.minutes) /\ Text!HoldsSummary(payload.minutes))
  BY <1>1, <1>3, PlainStays DEF Text!Normalize
<1> QED
  BY <1>2, <1>3

(* Whatever the service answers, whole, cut off or of some other shape,    *)
(* the note gets minutes that are not blank; and minutes the service wrote *)
(* reach it as text, out of an object inside a string of an object too.    *)
THEOREM MinutesReachTheNote ==
  \A reply : /\ Text!NonBlank(Text!Summary(reply).minutes)
             /\ \A text \in Text!Said(reply) : Text!Summary(reply).minutes = text
<1> SUFFICES ASSUME NEW reply
             PROVE  /\ Text!NonBlank(Text!Summary(reply).minutes)
                    /\ \A text \in Text!Said(reply) : Text!Summary(reply).minutes = text
  OBVIOUS
<1>1. Text!NonBlank(Text!Summary(reply).minutes)
  BY NormalizedMinutes DEF Text!Summary, Text!Coerce
<1>2. ASSUME NEW text \in Text!Said(reply) PROVE Text!Summary(reply).minutes = text
  <2> DEFINE outer == Text!ExtractMinutes(reply)
  <2>1. /\ text.is = "plain"
        /\ \/ outer.is = "object" /\ Text!ExtractMinutes(outer) = text
           \/ outer.is # "object" /\ outer = text
    BY <1>2 DEF Text!Said
  <2>2. text # Text!Missing /\ Text!Missing.is = "missing"
    BY <2>1 DEF Text!Missing
  <2>3. outer # Text!Missing
    BY <2>1, <2>2
  <2>4. reply.is = "object" /\ Text!NonBlank(reply.minutes) /\ outer = reply.minutes
    BY <2>3 DEF Text!ExtractMinutes
  <2>5. \/ outer = text
        \/ outer.is = "object" /\ outer.minutes = text
    BY <2>1, <2>2 DEF Text!ExtractMinutes
  <2>6. Text!Normalize(reply).minutes = text
    BY <2>1, <2>4, <2>5, NormalizeFinds
  <2>7. Text!Coerce(reply).minutes = text
    <3> DEFINE loaded == reply.is = "object" /\ reply.whole
               coerced == Text!CoerceMinutes(IF loaded THEN reply.minutes ELSE Text!Missing, reply)
               payload == [minutes |-> coerced,
                           decisions |-> Text!List(Text!CoerceList(IF loaded THEN reply.decisions
                                                                   ELSE Text!Missing)),
                           action_items |-> Text!List(Text!CoerceItems(IF loaded THEN reply.action_items
                                                                       ELSE Text!Missing))]
    <3>0. Text!Coerce(reply) = Text!Normalize(payload)
      BY DEF Text!Coerce
    <3>1. payload.minutes = coerced
      OBVIOUS
    <3> HIDE DEF payload
    <3>2. ASSUME loaded PROVE \/ coerced = text
                              \/ coerced.is = "object" /\ coerced.minutes = text
      <4>0. coerced = Text!CoerceMinutes(outer, reply)
        BY <2>4, <3>2
      <4>1. coerced = Text!Either(Text!ExtractMinutes(outer), outer)
        BY <2>4, <4>0, TextIsCoerced
      <4>2. CASE outer.is = "object"
        BY <2>1, <2>2, <4>1, <4>2 DEF Text!Either
      <4>3. CASE outer.is # "object"
        BY <2>1, <2>2, <4>1, <4>3 DEF Text!Either, Text!ExtractMinutes
      <4> QED
        BY <4>2, <4>3
    <3>3. ASSUME ~loaded PROVE coerced = outer
      <4>1. ~Text!NonBlank(Text!Missing) /\ Text!Missing.is \notin {"list", "other"}
        BY DEF Text!NonBlank, Text!Missing
      <4>2. Text!NonBlank(reply)
        BY <2>4 DEF Text!NonBlank
      <4> QED
        BY <2>3, <3>3, <4>1, <4>2 DEF Text!CoerceMinutes, Text!Either
    <3>4. \/ coerced = text
          \/ coerced.is = "object" /\ coerced.minutes = text
      BY <2>5, <3>2, <3>3
    <3> QED
      BY <2>1, <3>0, <3>1, <3>4, NormalizeFinds
  <2> QED
    BY <2>6, <2>7 DEF Text!Summary
<1> QED
  BY <1>1, <1>2

-----------------------------------------------------------------------------
(* Numbers and finite sets *)

LEMMA Least ==
  ASSUME NEW S, S \subseteq Nat, S # {}
  PROVE  \E n \in S : \A m \in S : n <= m
<1> DEFINE R == OpToRel(<, Nat)
<1>1. IsWellFoundedOn(R, Nat)
  BY NatLessThanWellFounded
<1>2. \A m, n \in Nat : m < n => <<m, n>> \in R
  BY DEF OpToRel
<1> HIDE DEF R
<1>3. PICK n \in S : \A m \in S : <<m, n>> \notin R
  BY <1>1, WFMin
<1>4. ASSUME NEW m \in S PROVE n <= m
  <2>1. m \in Nat /\ n \in Nat
    OBVIOUS
  <2>2. ~(m < n)
    BY <1>2, <1>3, <2>1
  <2> QED
    BY <2>1, <2>2
<1> QED
  BY <1>3, <1>4

LEMMA Greatest ==
  ASSUME NEW k \in Nat, NEW S, S \subseteq 0..k, S # {}
  PROVE  \E n \in S : \A m \in S : m <= n
<1> DEFINE T == {k - n : n \in S}
<1>1. T \subseteq Nat /\ T # {}
  <2>1. \A n \in S : k - n \in Nat
    OBVIOUS
  <2>2. PICK n \in S : TRUE
    OBVIOUS
  <2>3. k - n \in T
    BY <2>2
  <2> QED
    BY <2>1, <2>3
<1>2. PICK t \in T : \A u \in T : t <= u
  BY <1>1, Least
<1>3. PICK n \in S : t = k - n
  BY <1>2
<1>4. ASSUME NEW m \in S PROVE m <= n
  BY <1>2, <1>3, <1>4
<1> QED
  BY <1>3, <1>4

LEMMA OneMember ==
  ASSUME NEW k \in Nat, NEW S, S \subseteq 0..k, Cardinality(S) = 1
  PROVE  \E i \in S : S = {i}
<1>1. IsFiniteSet(0..k)
  BY FS_Interval
<1>2. IsFiniteSet(S)
  BY <1>1, FS_Subset
<1> QED
  BY <1>2, FS_Singleton

-----------------------------------------------------------------------------
(* Catch-up *)

(* A recording is put with a meeting only on evidence, whatever notes the  *)
(* vault holds and in whatever order they are scanned: of notes that fit   *)
(* as well none is taken.                                                  *)
THEOREM RecordingsAreFiledOnEvidence ==
  ASSUME NEW f, NEW S, NEW notes \in Seq(S)
  PROVE  FiledOnEvidence(f, notes)
<1> DEFINE m == MeetingOf(f, notes)
           naming == {i \in DOMAIN notes : notes[i].meeting # None /\ notes[i].audio = Path(f)}
           near == {i \in DOMAIN notes : Near(f, notes[i])}
<1>0. Len(notes) \in Nat /\ naming \subseteq 0..Len(notes) /\ near \subseteq 0..Len(notes)
  OBVIOUS
<1>1. ASSUME f.marker # None PROVE m = f.marker
  BY <1>1 DEF MeetingOf
<1>2. naming = {} => ByAudio(f, notes) = None
  BY DEF ByAudio
<1>3. ASSUME naming # {}
      PROVE  \E i \in naming : ByAudio(f, notes) = notes[i].meeting
  <2>1. \E i \in naming : \A j \in naming : j <= i
    BY <1>0, <1>3, Greatest
  <2> DEFINE last == CHOOSE i \in naming : \A j \in naming : j <= i
  <2>2. last \in naming
    BY <2>1
  <2>3. ByAudio(f, notes) = notes[last].meeting
    BY <1>3 DEF ByAudio
  <2> QED
    BY <2>2, <2>3
<1>4. ASSUME ByStart(f, notes) # None
      PROVE  \E i \in near : near = {i} /\ ByStart(f, notes) = notes[i].meeting
  <2>0. ByStart(f, notes) = IF Cardinality(near) = 1
                                    THEN notes[CHOOSE i \in near : TRUE].meeting ELSE None
    BY DEF ByStart
  <2> HIDE DEF near
  <2>1. Cardinality(near) = 1 /\ ByStart(f, notes) = notes[CHOOSE i \in near : TRUE].meeting
    BY <1>4, <2>0
  <2>2. PICK i \in near : near = {i}
    BY <1>0, <2>1, OneMember
  <2>3. (CHOOSE j \in near : TRUE) = i
    BY <2>2
  <2> QED
    BY <2>1, <2>2, <2>3
<1>5. ASSUME f.marker = None, naming # {}
      PROVE  \E i \in DOMAIN notes : notes[i].audio = Path(f) /\ m = notes[i].meeting
  <2>1. PICK i \in naming : ByAudio(f, notes) = notes[i].meeting
    BY <1>3, <1>5
  <2>2. ByAudio(f, notes) # None
    BY <2>1
  <2> QED
    BY <1>5, <2>1, <2>2 DEF MeetingOf
<1>6. ASSUME f.marker = None, naming = {}, m # Own(f)
      PROVE  \E i \in DOMAIN notes : /\ m = notes[i].meeting
                                     /\ Near(f, notes[i])
                                     /\ \A j \in DOMAIN notes \ {i} : ~Near(f, notes[j])
  <2>1. ByStart(f, notes) # None /\ m = ByStart(f, notes)
    BY <1>2, <1>6 DEF MeetingOf
  <2>2. PICK i \in near : near = {i} /\ ByStart(f, notes) = notes[i].meeting
    BY <1>4, <2>1
  <2> QED
    BY <2>1, <2>2
<1> HIDE DEF m
<1> QED
  BY <1>1, <1>5, <1>6 DEF FiledOnEvidence, m

-----------------------------------------------------------------------------
(* Diarization *)

(* What the user may ask for, and what the container is built with. *)
SpeakerLimits ==
  /\ AutoSamples \in Nat /\ AutoMin \in Nat /\ AutoMax \in Nat
  /\ MinSilhouette \in Int /\ MinClusterWindows \in Nat

(* The limits on the number of speakers hold, whatever the sound says: as  *)
(* far as there are windows to tell them apart by, never fewer nor more    *)
(* than were asked for; without limits only clusters that are large enough, *)
(* in windows and in their share of them, and apart are taken for speakers. *)
THEOREM SpeakerLimitsAreKept ==
  ASSUME SpeakerLimits, NEW min \in Nat, NEW max \in Nat, NEW samples \in Nat \ {0},
         NEW clusters
  PROVE  SpeakerLimitsHold(min, max, samples, clusters)
<1> SUFFICES ASSUME NEW n \in Speakers(min, max, samples, clusters)
             PROVE  /\ n \in 1..samples
                    /\ max > 0 /\ max <= samples => n <= max
                    /\ min > 0 /\ min <= samples /\ (max = 0 \/ min <= max) => n >= min
                    /\ min = 0 /\ max = 0 =>
                         /\ clusters[n].silhouette >= MinSilhouette
                         /\ clusters[n].smallest >= MinClusterWindows
                         /\ IsShare(clusters[n].smallest, samples, MinClusterShare)
  BY DEF SpeakerLimitsHold
<1>1. CASE min > 0 \/ max > 0
  <2>1. n = FixedSpeakers(min, max, samples)
    BY <1>1 DEF Speakers
  <2> QED
    BY <1>1, <2>1 DEF FixedSpeakers, Larger, Smaller
<1>2. CASE ~(min > 0 \/ max > 0)
  <2> DEFINE top == Smaller(AutoMax, samples)
  <2>1. n \in AutoSpeakers(clusters, samples)
    BY <1>2 DEF Speakers
  <2>2. /\ n \in Larger(2, Smaller(AutoMin, top))..top
        /\ clusters[n].smallest >= MinClusterWindows
        /\ IsShare(clusters[n].smallest, samples, MinClusterShare)
        /\ clusters[n].silhouette >= MinSilhouette
    BY <2>1 DEF AutoSpeakers
  <2>3. n \in 1..samples
    BY <2>2 DEF SpeakerLimits, Larger, Smaller
  <2> QED
    BY <1>2, <2>2, <2>3
<1> QED
  BY <1>1, <1>2

SpokenBy(segments, s) == {i \in DOMAIN segments : segments[i].speaker = s}

LEMMA SpokenIsFinite ==
  ASSUME NEW segments \in Seq(Labelled), NEW s
  PROVE  /\ IsFiniteSet(SpokenBy(segments, s))
         /\ Cardinality(SpokenBy(segments, s)) \in Nat
         /\ \A i \in DOMAIN segments : segments[i].speaker = s => Cardinality(SpokenBy(segments, s)) >= 1
<1>1. IsFiniteSet(1..Len(segments)) /\ SpokenBy(segments, s) \subseteq 1..Len(segments)
  BY FS_Interval DEF SpokenBy
<1>2. IsFiniteSet(SpokenBy(segments, s))
  BY <1>1, FS_Subset
<1>3. Cardinality(SpokenBy(segments, s)) \in Nat
  BY <1>2, FS_CardinalityType
<1>4. ASSUME NEW i \in DOMAIN segments, segments[i].speaker = s
      PROVE  Cardinality(SpokenBy(segments, s)) # 0
  BY <1>2, <1>4, FS_EmptySet DEF SpokenBy
<1> QED
  BY <1>2, <1>3, <1>4

(* After the cleanup every segment's speaker has enough segments and a     *)
(* large enough share of them, unless nobody had or one segment is enough; *)
(* and no segment of a speaker who had enough of both is given away.       *)
THEOREM SparseSpeakersAreGone ==
  ASSUME {MinSegments, MinShare} \subseteq Nat, NEW segments \in Seq(Labelled)
  PROVE  SparseSpeakersGone(segments)
<1> DEFINE clean == Cleanup(segments)
           count(s) == Cardinality({j \in DOMAIN segments : segments[j].speaker = s})
           enough(n) == n >= MinSegments /\ IsShare(n, Len(segments), MinShare)
           dominant == {j \in DOMAIN segments : enough(count(segments[j].speaker))}
           middle(j) == segments[j].start + segments[j].end
           apart(i, j) == Larger(middle(i) - middle(j), middle(j) - middle(i))
           isNearest(i, j) == \A k \in dominant :
                      apart(i, j) < apart(i, k) \/ (apart(i, j) = apart(i, k) /\ j <= k)
           nearest(i) == CHOOSE j \in dominant : isNearest(i, j)
<1>1. ASSUME NEW i \in DOMAIN segments, dominant # {}
      PROVE  nearest(i) \in dominant
  <2>1. \A j \in DOMAIN segments : apart(i, j) \in Nat
    <3>1. \A j \in DOMAIN segments : segments[j].start \in Nat /\ segments[j].end \in Nat
      <4>1. \A j \in DOMAIN segments : segments[j] \in Labelled
        OBVIOUS
      <4> QED
        BY <4>1 DEF Labelled
    <3>2. \A j \in DOMAIN segments : middle(j) \in Nat
      BY <3>1
    <3> HIDE DEF middle
    <3>3. \A j \in DOMAIN segments : middle(i) - middle(j) \in Int /\ middle(j) - middle(i) \in Int
                                    /\ middle(j) - middle(i) = -(middle(i) - middle(j))
      BY <3>2
    <3>4. \A x \in Int : Larger(x, -x) \in Nat
      BY DEF Larger
    <3> QED
      BY <3>3, <3>4
  <2>2. dominant \subseteq DOMAIN segments
    OBVIOUS
  <2> HIDE DEF apart, dominant
  <2> DEFINE gaps == {apart(i, j) : j \in dominant}
  <2>3. gaps \subseteq Nat /\ gaps # {}
    BY <1>1, <2>1, <2>2
  <2>4. PICK gap \in gaps : \A g \in gaps : gap <= g
    BY <2>3, Least
  <2> DEFINE closest == {j \in dominant : apart(i, j) = gap}
  <2>5. closest \subseteq Nat /\ closest # {}
    BY <2>2, <2>4
  <2>6. PICK j \in closest : \A k \in closest : j <= k
    BY <2>5, Least
  <2>7. isNearest(i, j)
    <3> SUFFICES ASSUME NEW k \in dominant
                 PROVE apart(i, j) < apart(i, k) \/ (apart(i, j) = apart(i, k) /\ j <= k)
      OBVIOUS
    <3>1. gap <= apart(i, k) /\ apart(i, j) = gap /\ gap \in Nat /\ apart(i, k) \in Nat
      BY <2>1, <2>2, <2>3, <2>4, <2>6
    <3>2. apart(i, k) = gap => j <= k
      BY <2>6
    <3> QED
      BY <3>1, <3>2
  <2> HIDE DEF isNearest
  <2> QED
    BY <2>6, <2>7
<1>2. CASE MinSegments <= 1 \/ dominant = {}
  <2>1. clean = segments
    BY <1>2 DEF Cleanup
  <2>2. dominant = {} => \A j \in DOMAIN segments : ~enough(count(segments[j].speaker))
    OBVIOUS
  <2> HIDE DEF clean, dominant
  <2>3. ASSUME NEW i \in DOMAIN segments
        PROVE  /\ clean[i] = segments[i]
               /\ \/ MinSegments <= 1
                  \/ \A j \in DOMAIN segments : ~enough(count(segments[j].speaker))
    BY <1>2, <2>1, <2>2
  <2> QED
    BY <2>3 DEF SparseSpeakersGone, clean
<1>3. CASE ~(MinSegments <= 1 \/ dominant = {})
  <2>1. clean = [i \in DOMAIN segments |->
                   IF i \in dominant THEN segments[i]
                   ELSE [segments[i] EXCEPT !.speaker = segments[nearest(i)].speaker]]
    BY <1>3 DEF Cleanup
  <2>2. ASSUME NEW i \in DOMAIN segments, i \in dominant PROVE clean[i] = segments[i]
    BY <2>1, <2>2
  <2>3. ASSUME NEW i \in DOMAIN segments
        PROVE  \E d \in dominant : clean[i].speaker = segments[d].speaker
    <3>1. CASE i \in dominant
      BY <2>2, <3>1
    <3>2. CASE i \notin dominant
      <4>1. clean[i].speaker = segments[nearest(i)].speaker
        BY <2>1, <3>2 DEF Labelled
      <4> QED
        BY <1>1, <1>3, <4>1
    <3> QED
      BY <3>1, <3>2
  <2>4. ASSUME NEW i \in DOMAIN segments
        PROVE  enough(Cardinality({j \in DOMAIN clean : clean[j].speaker = clean[i].speaker}))
    <3> DEFINE s == clean[i].speaker
               before == {j \in DOMAIN segments : segments[j].speaker = s}
               after == {j \in DOMAIN clean : clean[j].speaker = s}
    <3>1. enough(Cardinality(before))
      BY <2>3
    <3>2. \A j \in before : j \in dominant
      BY <3>1
    <3>3. DOMAIN clean = DOMAIN segments /\ DOMAIN segments = 1..Len(segments)
      BY <2>1
    <3>4. before \subseteq after /\ after \subseteq 1..Len(segments)
      BY <2>2, <3>2, <3>3
    <3>5. IsFiniteSet(after) /\ Cardinality(after) \in Nat
      <4>1. IsFiniteSet(1..Len(segments))
        BY FS_Interval
      <4> HIDE DEF after
      <4>2. IsFiniteSet(after)
        BY <3>4, <4>1, FS_Subset
      <4> QED
        BY <4>2, FS_CardinalityType
    <3>6. Cardinality(before) \in Nat /\ Cardinality(before) <= Cardinality(after)
      BY <3>4, <3>5, FS_Subset, FS_CardinalityType
    <3> HIDE DEF before, after
    <3>7. \A m, n \in Nat : m <= n /\ enough(m) => enough(n)
      BY DEF IsShare
    <3> HIDE DEF enough
    <3>8. enough(Cardinality(after))
      BY <3>1, <3>5, <3>6, <3>7
    <3> QED
      BY <3>8 DEF after
  <2>5. \A i \in DOMAIN segments : enough(count(segments[i].speaker)) => clean[i] = segments[i]
    BY <2>2
  <2> HIDE DEF clean, dominant
  <2> QED
    BY <2>4, <2>5 DEF SparseSpeakersGone, clean
<1> QED
  BY <1>2, <1>3

-----------------------------------------------------------------------------
(* Lists in order *)

(* A strict total order of a set, as the set of its pairs. *)
Orders(R, S) ==
  /\ \A x \in S : <<x, x>> \notin R
  /\ \A x, y, z \in S : <<x, y>> \in R /\ <<y, z>> \in R => <<x, z>> \in R
  /\ \A x, y \in S : x # y => <<x, y>> \in R \/ <<y, x>> \in R

LEMMA SameListing ==
  ASSUME NEW S, NEW before
  PROVE  Cal!Listed(S, before) = Listed(S, before) /\ Text!Listed(S, before) = Listed(S, before)
BY DEF Cal!Listed, Text!Listed, Listed, Cal!Cardinality, Text!Cardinality, Cardinality,
       Cal!IsFiniteSet, Text!IsFiniteSet, IsFiniteSet

LEMMA ListedInOrder ==
  ASSUME NEW S, IsFiniteSet(S), NEW R, Orders(R, S)
  PROVE  /\ Cardinality(S) \in Nat
         /\ Listed(S, R) \in [1..Cardinality(S) -> S]
         /\ \A i, j \in 1..Cardinality(S) : i < j => <<Listed(S, R)[i], Listed(S, R)[j]>> \in R
         /\ \A x \in S : \E i \in 1..Cardinality(S) : Listed(S, R)[i] = x
<1> DEFINE n == Cardinality(S)
           list == Listed(S, R)
           below(x) == {y \in S : <<y, x>> \in R}
           rank == [x \in S |-> Cardinality(below(x))]
<1>0. n \in Nat
  BY FS_CardinalityType
<1>1. ASSUME NEW x \in S
      PROVE  IsFiniteSet(below(x)) /\ rank[x] \in 0..(n - 1)
  <2>1. below(x) \subseteq S \ {x} /\ IsFiniteSet(S \ {x}) /\ Cardinality(S \ {x}) = n - 1
    BY FS_RemoveElement DEF Orders
  <2>2. IsFiniteSet(below(x)) /\ Cardinality(below(x)) <= n - 1
    BY <2>1, FS_Subset
  <2>3. Cardinality(below(x)) \in Nat
    BY <2>2, FS_CardinalityType
  <2> QED
    BY <1>0, <2>2, <2>3
<1>2. ASSUME NEW x \in S, NEW y \in S, <<x, y>> \in R
      PROVE  rank[x] < rank[y]
  <2>1. below(x) \cup {x} \subseteq below(y) /\ x \notin below(x)
    BY <1>2 DEF Orders
  <2>2. Cardinality(below(x) \cup {x}) = rank[x] + 1
    BY <1>1, <2>1, FS_AddElement
  <2>3. Cardinality(below(x) \cup {x}) <= rank[y]
    BY <1>1, <2>1, FS_Subset
  <2>4. rank[x] \in Nat /\ rank[y] \in Nat
    BY <1>0, <1>1
  <2> HIDE DEF rank
  <2> QED
    BY <2>2, <2>3, <2>4
<1> HIDE DEF n
<1>3. ASSUME NEW x \in S, NEW y \in S, rank[x] = rank[y]
      PROVE  x = y
  <2>1. rank[x] \in Nat
    BY <1>0, <1>1
  <2> HIDE DEF rank
  <2>2. <<x, y>> \notin R /\ <<y, x>> \notin R
    BY <1>2, <1>3, <2>1
  <2> QED
    BY <2>2 DEF Orders
<1>4. ASSUME NEW k \in 0..(n - 1)
      PROVE  \E x \in S : rank[x] = k
  <2>1. rank \in [S -> 0..(n - 1)]
    BY <1>1
  <2> HIDE DEF rank
  <2>2. rank \in Injection(S, 0..(n - 1))
    BY <1>3, <2>1 DEF Injection, IsInjective
  <2>3. IsFiniteSet(0..(n - 1)) /\ Cardinality(0..(n - 1)) = n
    BY <1>0, FS_Interval
  <2>4. rank \in Surjection(S, 0..(n - 1))
    BY <2>2, <2>3, FS_Injection DEF n
  <2> QED
    BY <2>4 DEF Surjection
<1>5. ASSUME NEW i \in 1..n
      PROVE  list[i] \in S /\ rank[list[i]] = i - 1
  <2>1. i - 1 \in 0..(n - 1)
    BY <1>0
  <2>2. PICK x \in S : rank[x] = i - 1
    BY <1>4, <2>1
  <2>3. list[i] = CHOOSE y \in S : Cardinality(below(y)) = i - 1
    BY DEF Listed, n
  <2>4. Cardinality(below(x)) = i - 1
    BY <2>2
  <2>5. list[i] \in S /\ Cardinality(below(list[i])) = i - 1
    BY <2>3, <2>4
  <2> QED
    BY <2>5
<1>6. list \in [1..n -> S]
  <2> DEFINE pick(i) == CHOOSE x \in S : Cardinality(below(x)) = i - 1
  <2>1. list = [i \in 1..n |-> pick(i)]
    BY DEF Listed, n
  <2> HIDE DEF list, pick
  <2> QED
    BY <1>5, <2>1
<1> HIDE DEF rank
<1>7. ASSUME NEW i \in 1..n, NEW j \in 1..n, i < j
      PROVE  <<list[i], list[j]>> \in R
  <2>1. list[i] \in S /\ list[j] \in S /\ rank[list[i]] = i - 1 /\ rank[list[j]] = j - 1
    BY <1>5
  <2>2. list[i] # list[j]
    BY <1>0, <1>7, <2>1
  <2>3. <<list[j], list[i]>> \notin R
    BY <1>0, <1>2, <1>7, <2>1
  <2> QED
    BY <2>1, <2>2, <2>3 DEF Orders
<1>8. ASSUME NEW x \in S
      PROVE  \E i \in 1..n : list[i] = x
  <2>1. rank[x] \in 0..(n - 1)
    BY <1>1 DEF n
  <2>2. rank[x] + 1 \in 1..n
    BY <1>0, <2>1
  <2>3. list[rank[x] + 1] \in S /\ rank[list[rank[x] + 1]] = rank[x]
    BY <1>0, <1>5, <2>1, <2>2
  <2> QED
    BY <1>3, <2>2, <2>3
<1> QED
  BY <1>0, <1>6, <1>7, <1>8 DEF n

(* Some of the places of a list. *)
ArePlaces(places) == IsFiniteSet(places) /\ places \subseteq Int

LEMMA PlacesAreFinite ==
  ASSUME NEW n \in Nat, NEW places, places \subseteq 1..n
  PROVE  ArePlaces(places)
<1>1. IsFiniteSet(1..n) /\ places \in SUBSET (1..n)
  BY FS_Interval
<1>2. IsFiniteSet(places)
  BY <1>1, FS_Subset
<1> QED
  BY <1>2 DEF ArePlaces

LEMMA FilteredInOrder ==
  ASSUME NEW s, NEW places, ArePlaces(places)
  PROVE  /\ Cardinality(places) \in Nat
         /\ Rising(places) \in [1..Cardinality(places) -> places]
         /\ \A i, j \in 1..Cardinality(places) : i < j => Rising(places)[i] < Rising(places)[j]
         /\ \A p \in places : \E i \in 1..Cardinality(places) : Rising(places)[i] = p
         /\ DOMAIN Filtered(s, places) = 1..Cardinality(places)
         /\ Len(Filtered(s, places)) = Cardinality(places)
         /\ \A i \in 1..Cardinality(places) : Filtered(s, places)[i] = s[Rising(places)[i]]
<1> USE DEF ArePlaces
<1> DEFINE R == {p \in places \X places : p[1] < p[2]}
<1>1. \A x, y \in places : <<x, y>> \in R <=> x < y
  OBVIOUS
<1>2. Filtered(s, places) = [i \in 1..Cardinality(places) |-> s[Rising(places)[i]]]
  BY DEF Filtered
<1>3. Rising(places) = Listed(places, R)
  BY DEF Rising
<1> HIDE DEF R
<1>4. Orders(R, places)
  BY <1>1 DEF Orders
<1>5. /\ Cardinality(places) \in Nat
      /\ Rising(places) \in [1..Cardinality(places) -> places]
      /\ \A i, j \in 1..Cardinality(places) : i < j => <<Rising(places)[i], Rising(places)[j]>> \in R
      /\ \A x \in places : \E i \in 1..Cardinality(places) : Rising(places)[i] = x
  <2>1. Listed(places, R) \in [1..Cardinality(places) -> places]
    BY <1>4, ListedInOrder
  <2>2. \A i, j \in 1..Cardinality(places) : i < j => <<Listed(places, R)[i], Listed(places, R)[j]>> \in R
    BY <1>4, ListedInOrder
  <2>3. \A x \in places : \E i \in 1..Cardinality(places) : Listed(places, R)[i] = x
    BY <1>4, ListedInOrder
  <2>4. Cardinality(places) \in Nat
    BY <1>4, ListedInOrder
  <2> QED
    BY <1>3, <2>1, <2>2, <2>3, <2>4
<1>6. \A i, j \in 1..Cardinality(places) : i < j => Rising(places)[i] < Rising(places)[j]
  BY <1>1, <1>5
<1>7. Len(Filtered(s, places)) = Cardinality(places)
  BY <1>2, <1>5
<1> QED
  BY <1>2, <1>5, <1>6, <1>7

LEMMA FilteredMembers ==
  ASSUME NEW s, NEW places, ArePlaces(places)
  PROVE  \A i \in DOMAIN Filtered(s, places) : \E p \in places : Filtered(s, places)[i] = s[p]
<1>1. \A i \in DOMAIN Filtered(s, places) :
        Rising(places)[i] \in places /\ Filtered(s, places)[i] = s[Rising(places)[i]]
  BY FilteredInOrder
<1> QED
  BY <1>1

LEMMA FilteredKeeps ==
  ASSUME NEW s, NEW places, ArePlaces(places)
  PROVE  \A p \in places : \E i \in DOMAIN Filtered(s, places) : Filtered(s, places)[i] = s[p]
<1>1. \A i \in DOMAIN Filtered(s, places) :
        Rising(places)[i] \in places /\ Filtered(s, places)[i] = s[Rising(places)[i]]
  BY FilteredInOrder
<1>2. DOMAIN Filtered(s, places) = 1..Cardinality(places)
  BY FilteredInOrder
<1>3. \A p \in places : \E i \in 1..Cardinality(places) : Rising(places)[i] = p
  BY FilteredInOrder
<1> QED
  BY <1>1, <1>2, <1>3

LEMMA FilteredAll ==
  ASSUME NEW T, NEW s \in Seq(T)
  PROVE  Filtered(s, DOMAIN s) = s
<1> DEFINE n == Len(s)
           R == {p \in (1..n) \X (1..n) : p[1] < p[2]}
           order == Listed(1..n, R)
<1>1. n \in Nat /\ DOMAIN s = 1..n
  OBVIOUS
<1>2. IsFiniteSet(1..n) /\ Cardinality(1..n) = n
  BY <1>1, FS_Interval
<1>3. Filtered(s, DOMAIN s) = [i \in 1..n |-> s[order[i]]]
  BY <1>1, <1>2 DEF Filtered, Rising
<1>4. ASSUME NEW i \in 1..n PROVE order[i] = i
  <2>1. \A x \in 1..n : {y \in 1..n : <<y, x>> \in R} = 1..(x - 1)
    BY <1>1
  <2>2. \A x \in 1..n : Cardinality({y \in 1..n : <<y, x>> \in R}) = x - 1
    <3> TAKE x \in 1..n
    <3>1. Cardinality(1..(x - 1)) = x - 1
      BY <1>1, FS_Interval
    <3> QED
      BY <2>1, <3>1
  <2>3. order[i] = CHOOSE x \in 1..n : Cardinality({y \in 1..n : <<y, x>> \in R}) = i - 1
    BY <1>2 DEF Listed
  <2> HIDE DEF R
  <2> DEFINE place(x) == Cardinality({y \in 1..n : <<y, x>> \in R})
  <2>4. order[i] = CHOOSE x \in 1..n : place(x) = i - 1
    BY <2>3
  <2>5. \A x \in 1..n : place(x) = x - 1
    BY <2>2
  <2> HIDE DEF place, order
  <2>6. place(i) = i - 1
    BY <2>5
  <2>7. order[i] \in 1..n /\ place(order[i]) = i - 1
    BY <2>4, <2>6
  <2> QED
    BY <1>1, <2>5, <2>7
<1> HIDE DEF order
<1>5. [i \in 1..n |-> s[order[i]]] = [i \in 1..n |-> s[i]]
  BY <1>4
<1> QED
  BY <1>1, <1>3, <1>5

LEMMA PrecedesIsStrict ==
  ASSUME NEW k \in Nat, NEW x \in [1..k -> Int]
  PROVE  ~Precedes(x, x)
BY DEF Precedes

LEMMA PrecedesIsTransitive ==
  ASSUME NEW k \in Nat, NEW x \in [1..k -> Int], NEW y \in [1..k -> Int], NEW z \in [1..k -> Int],
         Precedes(x, y), Precedes(y, z)
  PROVE  Precedes(x, z)
<1>1. PICK i \in 1..k : x[i] < y[i] /\ \A j \in 1..(i - 1) : x[j] = y[j]
  BY DEF Precedes
<1>2. PICK m \in 1..k : y[m] < z[m] /\ \A j \in 1..(m - 1) : y[j] = z[j]
  BY DEF Precedes
<1>3. CASE i <= m
  <2>1. x[i] < z[i]
    BY <1>1, <1>2, <1>3
  <2>2. \A j \in 1..(i - 1) : x[j] = z[j]
    BY <1>1, <1>2, <1>3
  <2> QED
    BY <2>1, <2>2 DEF Precedes
<1>4. CASE m < i
  <2>1. x[m] < z[m]
    BY <1>1, <1>2, <1>4
  <2>2. \A j \in 1..(m - 1) : x[j] = z[j]
    BY <1>1, <1>2, <1>4
  <2> QED
    BY <2>1, <2>2 DEF Precedes
<1> QED
  BY <1>3, <1>4

LEMMA PrecedesIsTotal ==
  ASSUME NEW k \in Nat, NEW x \in [1..k -> Int], NEW y \in [1..k -> Int], x # y
  PROVE  Precedes(x, y) \/ Precedes(y, x)
<1> DEFINE differ == {i \in 1..k : x[i] # y[i]}
<1>1. differ \subseteq Nat /\ differ # {}
  OBVIOUS
<1>2. PICK i \in differ : \A j \in differ : i <= j
  BY <1>1, Least
<1>3. \A j \in 1..(i - 1) : x[j] = y[j]
  BY <1>2
<1>4. x[i] < y[i] \/ y[i] < x[i]
  BY <1>2
<1> QED
  BY <1>2, <1>3, <1>4 DEF Precedes

(* Keys that are numbers, or tuples of so many numbers.                    *)
Keyed(places, key) == \E k \in Nat : \A p \in places : key[p] \in [1..k -> Int]

LEMMA SortedInOrder ==
  ASSUME NEW s, NEW places, ArePlaces(places), NEW key, Keyed(places, key)
  PROVE  /\ Cardinality(places) \in Nat
         /\ ByKey(places, key) \in [1..Cardinality(places) -> places]
         /\ \A i, j \in 1..Cardinality(places) : i < j =>
              Before(key, ByKey(places, key)[i], ByKey(places, key)[j])
         /\ \A p \in places : \E i \in 1..Cardinality(places) : ByKey(places, key)[i] = p
         /\ DOMAIN Sorted(s, places, key) = 1..Cardinality(places)
         /\ Len(Sorted(s, places, key)) = Cardinality(places)
         /\ \A i \in 1..Cardinality(places) : Sorted(s, places, key)[i] = s[ByKey(places, key)[i]]
<1> USE DEF ArePlaces
<1>0. PICK k \in Nat : \A p \in places : key[p] \in [1..k -> Int]
  BY DEF Keyed
<1> DEFINE R == {p \in places \X places : Before(key, p[1], p[2])}
<1>1. \A x, y \in places : <<x, y>> \in R <=> Before(key, x, y)
  OBVIOUS
<1>2. Sorted(s, places, key) = [i \in 1..Cardinality(places) |-> s[ByKey(places, key)[i]]]
  BY DEF Sorted
<1>3. ByKey(places, key) = Listed(places, R)
  BY DEF ByKey
<1> HIDE DEF R
<1>4. Orders(R, places)
  <2>1. \A x \in places : ~Before(key, x, x)
    BY <1>0, PrecedesIsStrict DEF Before
  <2>2. ASSUME NEW x \in places, NEW y \in places, NEW z \in places,
               Before(key, x, y), Before(key, y, z)
        PROVE  Before(key, x, z)
    <3>1. Precedes(key[x], key[y]) /\ Precedes(key[y], key[z]) => Precedes(key[x], key[z])
      BY <1>0, PrecedesIsTransitive
    <3> QED
      BY <2>2, <3>1 DEF Before
  <2>3. ASSUME NEW x \in places, NEW y \in places, x # y
        PROVE  Before(key, x, y) \/ Before(key, y, x)
    <3>1. key[x] # key[y] => Precedes(key[x], key[y]) \/ Precedes(key[y], key[x])
      BY <1>0, PrecedesIsTotal
    <3>2. x \in Int /\ y \in Int
      OBVIOUS
    <3> QED
      BY <2>3, <3>1, <3>2 DEF Before
  <2> QED
    BY <1>1, <2>1, <2>2, <2>3 DEF Orders
<1>5. /\ Cardinality(places) \in Nat
      /\ ByKey(places, key) \in [1..Cardinality(places) -> places]
      /\ \A i, j \in 1..Cardinality(places) :
           i < j => <<ByKey(places, key)[i], ByKey(places, key)[j]>> \in R
      /\ \A x \in places : \E i \in 1..Cardinality(places) : ByKey(places, key)[i] = x
  BY <1>3, <1>4, ListedInOrder
<1>6. \A i, j \in 1..Cardinality(places) : i < j =>
        Before(key, ByKey(places, key)[i], ByKey(places, key)[j])
  BY <1>1, <1>5
<1>7. Len(Sorted(s, places, key)) = Cardinality(places)
  BY <1>2, <1>5
<1> QED
  BY <1>2, <1>5, <1>6, <1>7

LEMMA SameFiltering ==
  ASSUME NEW s, NEW places
  PROVE  Cal!Filtered(s, places) = Filtered(s, places) /\ Text!Filtered(s, places) = Filtered(s, places)
BY DEF Cal!Filtered, Text!Filtered, Filtered, Cal!Rising, Text!Rising, Rising,
       Cal!Listed, Text!Listed, Listed, Cal!Cardinality, Text!Cardinality, Cardinality,
       Cal!IsFiniteSet, Text!IsFiniteSet, IsFiniteSet

LEMMA SameSorting ==
  ASSUME NEW s, NEW places, NEW key
  PROVE  Cal!Sorted(s, places, key) = Sorted(s, places, key)
BY DEF Cal!Sorted, Sorted, Cal!ByKey, ByKey, Cal!Before, Before, Cal!Precedes, Precedes,
       Cal!Listed, Listed, Cal!Cardinality, Cardinality, Cal!IsFiniteSet, IsFiniteSet

-----------------------------------------------------------------------------
(* Summaries *)

(* A list of texts none of which is blank. *)
NoBlanks(l) == l \in Seq({l[i] : i \in DOMAIN l}) /\ \A i \in DOMAIN l : Text!NonBlank(l[i])

(* A value that is one of the service's as far as it has parts. *)
Held(v) == v \in Values \/ v.is \notin {"list", "object"}

LEMMA PartsAreHeld ==
  /\ Held(Text!Missing) /\ Held(Text!Blank) /\ Held(Text!Repr) /\ Held(Text!NoSummary)
  /\ \A v : Held(v) /\ v.is = "object" => Held(v.minutes) /\ Held(v.decisions) /\ Held(v.action_items)
  /\ \A v : Held(v) => Held(Text!ExtractMinutes(v))
<1>1. Held(Text!Missing) /\ Held(Text!Blank) /\ Held(Text!Repr) /\ Held(Text!NoSummary)
  BY DEF Held, Text!Missing, Text!Blank, Text!Repr, Text!NoSummary, Text!Plain
<1>2. \A v : Held(v) /\ v.is = "object" => Held(v.minutes) /\ Held(v.decisions) /\ Held(v.action_items)
  BY ValuesAssumption DEF Held
<1> QED
  BY <1>1, <1>2 DEF Text!ExtractMinutes

LEMMA CoercedIsHeld ==
  ASSUME NEW value, NEW fallback, Held(value), Held(fallback)
  PROVE  Held(Text!CoerceMinutes(value, fallback))
BY PartsAreHeld DEF Text!CoerceMinutes, Text!Either

LEMMA StringsAreTexts ==
  \A v : Text!IsText(Text!Strings(v)) /\ (Text!NonBlank(v) => Text!Strings(v) = v)
BY DEF Text!Strings, Text!IsText, Text!NonBlank, Text!Repr, Text!Plain

LEMMA CoercedListIsWhole ==
  ASSUME NEW value, Held(value)
  PROVE  NoBlanks(Text!CoerceList(value)) /\ NoBlanks(Text!CoerceItems(value))
<1>1. NoBlanks(<< >>)
  BY DEF NoBlanks
<1>2. \A v : Text!NonBlank(v) => NoBlanks(<<v>>)
  BY DEF NoBlanks
<1>3. CASE value.is = "list"
  <2> DEFINE texts == [i \in DOMAIN value.items |-> Text!Strings(value.items[i])]
             places == {i \in DOMAIN texts : Text!NonBlank(texts[i])}
             l == Filtered(texts, places)
  <2>1. value \in Values /\ value.items \in Seq(Values)
    BY <1>3, ValuesAssumption DEF Held
  <2>2. Text!CoerceList(value) = l
    BY <1>3, SameFiltering DEF Text!CoerceList
  <2>3. Len(value.items) \in Nat /\ places \subseteq 1..Len(value.items)
    BY <2>1
  <2> HIDE DEF places, texts
  <2>4. ArePlaces(places)
    BY <2>3, PlacesAreFinite
  <2>5. \A p \in places : Text!NonBlank(texts[p])
    BY DEF places
  <2>6. \A i \in DOMAIN l : Text!NonBlank(l[i])
    <3> TAKE i \in DOMAIN l
    <3>1. \A j \in DOMAIN l : \E p \in places : l[j] = texts[p]
      BY <2>4, FilteredMembers
    <3> HIDE DEF l
    <3> QED
      BY <2>5, <3>1
  <2>7. DOMAIN l = 1..Len(l) /\ Len(l) \in Nat
    BY <2>4, FilteredInOrder
  <2>8. l = [i \in 1..Len(l) |-> l[i]]
    <3>1. l = [n \in 1..Cardinality(places) |-> texts[Rising(places)[n]]]
      BY DEF Filtered
    <3> HIDE DEF l
    <3> QED
      BY <2>7, <3>1
  <2> HIDE DEF l
  <2>9. l \in Seq({l[i] : i \in DOMAIN l})
    BY <2>7, <2>8
  <2> QED
    BY <1>3, <2>2, <2>6, <2>9 DEF NoBlanks, Text!CoerceItems
<1>4. CASE value.is = "other"
  BY <1>1, <1>2, <1>4, PlainIsText DEF Text!CoerceList, Text!CoerceItems
<1>5. CASE value.is \notin {"list", "other"}
  BY <1>1, <1>2, <1>5 DEF Text!CoerceList, Text!CoerceItems
<1> QED
  BY <1>3, <1>4, <1>5

(* Coercing what was coerced changes nothing. *)
LEMMA CoercedListStays ==
  ASSUME NEW l, NoBlanks(l)
  PROVE  Text!CoerceList(Text!List(l)) = l /\ Text!CoerceItems(Text!List(l)) = l
<1> DEFINE texts == [i \in DOMAIN l |-> Text!Strings(l[i])]
<1>1. l \in Seq({l[i] : i \in DOMAIN l}) /\ \A i \in DOMAIN l : Text!NonBlank(l[i])
  BY DEF NoBlanks
<1>2. texts = l
  <2>1. \A i \in DOMAIN l : texts[i] = l[i]
    BY <1>1, StringsAreTexts
  <2> QED
    BY <1>1, <2>1
<1>3. Text!List(l).is = "list" /\ Text!List(l).items = l
  BY DEF Text!List
<1>4. Text!CoerceList(Text!List(l)) = Filtered(l, {i \in DOMAIN l : Text!NonBlank(l[i])})
  BY <1>2, <1>3, SameFiltering DEF Text!CoerceList
<1>5. {i \in DOMAIN l : Text!NonBlank(l[i])} = DOMAIN l
  BY <1>1
<1>6. Text!CoerceList(Text!List(l)) = l
  BY <1>1, <1>4, <1>5, FilteredAll
<1> QED
  BY <1>3, <1>6 DEF Text!CoerceItems

LEMMA NormalizedLists ==
  ASSUME NEW payload, Held(payload.minutes),
         NoBlanks(Text!CoerceList(payload.decisions)), NoBlanks(Text!CoerceItems(payload.action_items))
  PROVE  LET summary == Text!Normalize(payload)
         IN  /\ NoBlanks(summary.decisions) /\ NoBlanks(summary.action_items)
             /\ Text!CoerceList(payload.decisions) # << >> =>
                  summary.decisions = Text!CoerceList(payload.decisions)
             /\ Text!CoerceItems(payload.action_items) # << >> =>
                  summary.action_items = Text!CoerceItems(payload.action_items)
<1> DEFINE own == Text!CoerceMinutes(payload.minutes, Text!Blank)
           inner == IF Text!IsText(payload.minutes) /\ Text!HoldsSummary(payload.minutes)
                      THEN payload.minutes
                    ELSE IF Text!HoldsSummary(own) THEN own ELSE Text!Missing
           orInner(mine, theirs) == IF mine = << >> /\ inner # Text!Missing THEN theirs ELSE mine
           decisions == IF inner = Text!Missing THEN << >> ELSE Text!CoerceList(inner.decisions)
           items == IF inner = Text!Missing THEN << >> ELSE Text!CoerceItems(inner.action_items)
<1>1. Held(own)
  BY PartsAreHeld, CoercedIsHeld
<1>2. inner # Text!Missing => Held(inner) /\ inner.is = "object"
  BY <1>1 DEF Text!HoldsSummary
<1>3. /\ Text!Normalize(payload).decisions = orInner(Text!CoerceList(payload.decisions), decisions)
      /\ Text!Normalize(payload).action_items = orInner(Text!CoerceItems(payload.action_items), items)
  BY DEF Text!Normalize
<1> HIDE DEF inner
<1>4. inner # Text!Missing => NoBlanks(decisions) /\ NoBlanks(items)
  BY <1>2, PartsAreHeld, CoercedListIsWhole
<1> HIDE DEF decisions, items
<1> QED
  BY <1>3, <1>4

(* Whatever the service answers, the note gets all of what it said: no     *)
(* blank minutes or lines, minutes out of the innermost object, and the    *)
(* lists of the outer one before those of the inner.                       *)
LEMMA EverySummaryIsWhole ==
  ASSUME NEW reply \in Values
  PROVE  Text!SummaryIsWhole(reply)
<1> DEFINE summary == Text!Summary(reply)
           loaded == reply.is = "object" /\ reply.whole
<1>1. Held(reply) /\ (reply.is = "object" =>
        Held(reply.minutes) /\ Held(reply.decisions) /\ Held(reply.action_items))
  BY PartsAreHeld DEF Held
<1>2. ASSUME Text!Parses(reply)
      PROVE  /\ NoBlanks(summary.decisions) /\ NoBlanks(summary.action_items)
             /\ Text!CoerceList(reply.decisions) # << >> =>
                  summary.decisions = Text!CoerceList(reply.decisions)
             /\ Text!CoerceItems(reply.action_items) # << >> =>
                  summary.action_items = Text!CoerceItems(reply.action_items)
  <2>1. summary = Text!Normalize(reply) /\ reply.is = "object"
    BY <1>2 DEF Text!Summary, Text!Parses
  <2>2. /\ Held(reply.minutes) /\ NoBlanks(Text!CoerceList(reply.decisions))
        /\ NoBlanks(Text!CoerceItems(reply.action_items))
    BY <1>1, <2>1, CoercedListIsWhole
  <2> HIDE DEF summary
  <2> QED
    BY <2>1, <2>2, NormalizedLists
<1>3. ASSUME ~Text!Parses(reply)
      PROVE  /\ NoBlanks(summary.decisions) /\ NoBlanks(summary.action_items)
             /\ loaded /\ Text!CoerceList(reply.decisions) # << >> =>
                  summary.decisions = Text!CoerceList(reply.decisions)
             /\ loaded /\ Text!CoerceItems(reply.action_items) # << >> =>
                  summary.action_items = Text!CoerceItems(reply.action_items)
  <2> DEFINE decisions == Text!CoerceList(IF loaded THEN reply.decisions ELSE Text!Missing)
             items == Text!CoerceItems(IF loaded THEN reply.action_items ELSE Text!Missing)
             payload == [minutes |-> Text!CoerceMinutes(IF loaded THEN reply.minutes ELSE Text!Missing, reply),
                         decisions |-> Text!List(decisions), action_items |-> Text!List(items)]
  <2>1. summary = Text!Normalize(payload)
    BY <1>3 DEF Text!Summary, Text!Coerce
  <2>2. Held(payload.minutes)
    BY <1>1, PartsAreHeld, CoercedIsHeld
  <2>3. NoBlanks(decisions) /\ NoBlanks(items)
    BY <1>1, PartsAreHeld, CoercedListIsWhole
  <2>4. Text!CoerceList(payload.decisions) = decisions /\ Text!CoerceItems(payload.action_items) = items
    BY <2>3, CoercedListStays
  <2> HIDE DEF payload, summary
  <2>5. /\ NoBlanks(summary.decisions) /\ NoBlanks(summary.action_items)
        /\ decisions # << >> => summary.decisions = decisions
        /\ items # << >> => summary.action_items = items
    BY <2>1, <2>2, <2>3, <2>4, NormalizedLists
  <2> QED
    BY <2>5
<1>4. /\ Text!NonBlank(summary.minutes)
      /\ \A text \in Text!Said(reply) : summary.minutes = text
  BY MinutesReachTheNote
<1> HIDE DEF summary
<1> QED
  BY <1>2, <1>3, <1>4 DEF Text!SummaryIsWhole, NoBlanks, summary

-----------------------------------------------------------------------------
(* What a part is asked *)

(* What a part is asked is one of its inputs.                              *)
Asked == part \in Questions => input \in Inputs[part]

LEMMA AlwaysAsked == PartsSpec => []Asked
<1>1. PartsInit => Asked
  BY DEF PartsInit, Asked, Questions
<1>2. ASSUME Asked, [PartsNext]_parts PROVE Asked'
  <2>1. ASSUME NEW name \in Questions, Question(name) PROVE Asked'
    BY <2>1 DEF Question, Asked
  <2>2. CASE ClientStep
    BY <2>2 DEF ClientStep, Asked, Questions
  <2>3. CASE DeployStep
    BY <2>3 DEF DeployStep, Asked, Questions
  <2>4. CASE UNCHANGED parts
    BY <1>2, <2>4 DEF parts, Asked
  <2> QED
    BY <1>2, <2>1, <2>2, <2>3, <2>4 DEF PartsNext
<1> QED
  BY <1>1, <1>2, PTL DEF PartsSpec

(* Minutes within two layers of encoding and the lists of a whole reply    *)
(* reach the note, for every set of values the service may answer with.    *)
THEOREM SummariesAreWhole == PartsSpec => []SummaryIsWhole
<1>1. Asked => SummaryIsWhole
  <2> SUFFICES ASSUME Asked, part = "text" PROVE Text!SummaryIsWhole(input)
    BY DEF SummaryIsWhole
  <2>1. input \in Inputs["text"]
    BY DEF Asked, Questions
  <2> QED
    BY <2>1, ValuesAssumption, EverySummaryIsWhole
<1> QED
  BY <1>1, AlwaysAsked, PTL

-----------------------------------------------------------------------------
(* Recursion *)

(* Induction up to a bound. *)
LEMMA InductUpTo ==
  ASSUME NEW N \in Nat, NEW P, 0 \in P, \A n \in 1..N : n - 1 \in P => n \in P
  PROVE  0..N \subseteq P
<1> DEFINE S == {n \in 0..N : n \notin P}
<1> SUFFICES ASSUME S # {} PROVE FALSE
  OBVIOUS
<1>0. S \subseteq Nat
  OBVIOUS
<1>1. PICK n \in S : \A m \in S : n <= m
  BY <1>0, Least
<1>2. n # 0 /\ n - 1 \in 0..N /\ n \in 1..N
  BY <1>1
<1>3. n - 1 \in P
  BY <1>1, <1>2
<1> QED
  BY <1>1, <1>2, <1>3

(* What a recursive definition up to a bound defines. *)
Recursion(f, N, D, base, step) ==
  /\ f \in [0..N -> D]
  /\ f[0] = base /\ \A n \in 1..N : f[n] = step[n][f[n - 1]]

LEMMA RecursionExists ==
  ASSUME NEW N \in Nat, NEW D, NEW base \in D, NEW step \in [1..N -> [D -> D]]
  PROVE  \E f : Recursion(f, N, D, base, step)
<1> DEFINE Upto(k, f) == f[0] = base /\ \A n \in 1..k : f[n] = step[n][f[n - 1]]
           P == {k \in 0..N : \E f \in [0..N -> D] : Upto(k, f)}
<1>1. 0 \in P
  <2> DEFINE f == [n \in 0..N |-> base]
  <2>1. f \in [0..N -> D] /\ Upto(0, f)
    OBVIOUS
  <2> HIDE DEF f, Upto
  <2> QED
    BY <2>1
<1>2. ASSUME NEW n \in 1..N, n - 1 \in P PROVE n \in P
  <2>1. PICK f \in [0..N -> D] : Upto(n - 1, f)
    BY <1>2
  <2> DEFINE g == [f EXCEPT ![n] = step[n][f[n - 1]]]
  <2>2. n - 1 \in 0..N /\ f[n - 1] \in D /\ n \in 0..N /\ n # 0
    OBVIOUS
  <2>3. step[n] \in [D -> D]
    OBVIOUS
  <2>4. step[n][f[n - 1]] \in D
    BY <2>2, <2>3
  <2>5. g \in [0..N -> D] /\ g[n] = step[n][f[n - 1]] /\ \A m \in 0..N : m # n => g[m] = f[m]
    BY <2>2, <2>4
  <2> HIDE DEF g
  <2>6. g[0] = base /\ g[n - 1] = f[n - 1]
    BY <2>1, <2>2, <2>5
  <2>7. ASSUME NEW m \in 1..n PROVE g[m] = step[m][g[m - 1]]
    <3>1. CASE m = n
      BY <2>5, <2>6, <3>1
    <3>2. CASE m # n
      <4>1. m \in 1..(n - 1) /\ m \in 0..N /\ m - 1 \in 0..N /\ m - 1 # n
        BY <3>2
      <4>2. f[m] = step[m][f[m - 1]]
        BY <2>1, <4>1
      <4> QED
        BY <2>5, <3>2, <4>1, <4>2
    <3> QED
      BY <3>1, <3>2
  <2>8. Upto(n, g)
    BY <2>6, <2>7
  <2> HIDE DEF Upto
  <2> QED
    BY <2>2, <2>5, <2>8
<1> HIDE DEF P
<1>3. N \in P
  <2>1. 0..N \subseteq P
    BY <1>1, <1>2, InductUpTo
  <2> QED
    BY <2>1
<1> QED
  BY <1>3 DEF P, Recursion

-----------------------------------------------------------------------------
(* Catch-up batches *)

(* The states a run goes through. *)
RunStart(files, diarized, sidecar) ==
  [done |-> diarized, written |-> << >>, results |-> << >>,
   stopped |-> \E n \in DOMAIN files : sidecar[files[n].family].raises = "stat"]
RunStates(files, notes, diarized, env, sidecar) ==
  CHOOSE state : state = [n \in 0..Len(files) |->
    IF n = 0 THEN RunStart(files, diarized, sidecar) ELSE Process(state[n - 1], files[n], notes, env, sidecar)]

Issues == {"sidecar_failure", "onepassword", "docker", "lightning"}
Results == {"short", "no transcript", "already", "ok"} \cup Issues
Met(files, notes, diarized) == diarized \cup {MeetingOf(files[n], notes) : n \in DOMAIN files}
(* The notes a run may write. *)
NewNotes(files, notes) ==
  {OwnNote(files[n]) : n \in {k \in DOMAIN files : MeetingOf(files[k], notes) = Own(files[k])}}
RunStateSet(M, W) ==
  [done : SUBSET M, written : Seq(W), results : Seq(Results), stopped : BOOLEAN]

LEMMA IssueIsOne ==
  ASSUME NEW matched
  PROVE  /\ Issue(matched) \in Issues
         /\ StopsTheRun(Issue(matched)) => \E rule \in {"onepassword", "docker"} : rule \in matched
<1> DEFINE hits == {i \in DOMAIN Rules : Rules[i] \in matched}
<1>1. DOMAIN Rules = 1..3 /\ Rules[1] = "onepassword" /\ Rules[2] = "docker" /\ Rules[3] = "lightning"
  BY DEF Rules
<1>2. CASE hits = {}
  BY <1>2 DEF Issue, Issues, StopsTheRun
<1>3. CASE hits # {}
  <2>1. hits \subseteq Nat
    BY <1>1
  <2>2. PICK i \in hits : \A j \in hits : i <= j
    BY <1>3, <2>1, Least
  <2> DEFINE i0 == CHOOSE k \in hits : \A j \in hits : k <= j
  <2>3. i0 \in hits
    BY <2>2
  <2>4. Issue(matched) = Rules[i0]
    BY <1>3 DEF Issue
  <2> HIDE DEF i0
  <2>5. Issue(matched) \in matched /\ Issue(matched) \in {"onepassword", "docker", "lightning"}
    BY <1>1, <2>3, <2>4
  <2> QED
    BY <2>5 DEF StopsTheRun, Issues
<1> QED
  BY <1>2, <1>3

LEMMA OutcomeIsResult ==
  ASSUME NEW f, NEW done, NEW notes, NEW env, NEW sidecar
  PROVE  Outcome(f, done, notes, env, sidecar) \in Results \cup {"raised"}
<1>1. Issue(sidecar[f.family].matched) \in Results
  BY IssueIsOne DEF Results
<1> DEFINE last == IF ~sidecar[f.family].ok THEN Issue(sidecar[f.family].matched)
                   ELSE IF sidecar[f.family].raises \in {"copies", "promotion"}
                     THEN "raised" ELSE "ok"
<1>2. last \in Results \cup {"raised"}
  BY <1>1 DEF Results
<1>3. Outcome(f, done, notes, env, sidecar) \in {"short", "no transcript", "already", "raised", last}
  BY DEF Outcome
<1> HIDE DEF last
<1> QED
  BY <1>2, <1>3 DEF Results

LEMMA RunSteps ==
  ASSUME NEW F, NEW files \in Seq(F), NEW notes, NEW diarized, NEW env, NEW sidecar
  PROVE  LET f == RunStates(files, notes, diarized, env, sidecar)
         IN  /\ Run(files, notes, diarized, env, sidecar) = f[Len(files)]
             /\ f[0] = RunStart(files, diarized, sidecar)
             /\ \A n \in 1..Len(files) : f[n] = Process(f[n - 1], files[n], notes, env, sidecar)
             /\ \A n \in 0..Len(files) :
                  f[n] \in RunStateSet(Met(files, notes, diarized), NewNotes(files, notes))
<1> DEFINE N == Len(files)
           M == Met(files, notes, diarized)
           W == NewNotes(files, notes)
           D == RunStateSet(M, W)
           step == [n \in 1..N |-> [d \in D |-> Process(d, files[n], notes, env, sidecar)]]
           body(state, n) == IF n = 0 THEN RunStart(files, diarized, sidecar)
                             ELSE Process(state[n - 1], files[n], notes, env, sidecar)
           f == RunStates(files, notes, diarized, env, sidecar)
<1>1. N \in Nat /\ DOMAIN files = 1..N
  OBVIOUS
<1>2. RunStart(files, diarized, sidecar) \in D
  <2>1. << >> \in Seq(W) /\ << >> \in Seq(Results) /\ diarized \in SUBSET M
    BY DEF Met
  <2> HIDE DEF M, W
  <2> QED
    BY <2>1 DEF RunStart, RunStateSet
<1>3. ASSUME NEW n \in 1..N, NEW d \in D
      PROVE  Process(d, files[n], notes, env, sidecar) \in D
  <2>1. MeetingOf(files[n], notes) \in M
    BY <1>1 DEF Met
  <2>2. Outcome(files[n], d.done, notes, env, sidecar) \in Results \cup {"raised"}
    BY OutcomeIsResult
  <2>3. Written(files[n], notes) \in Seq(W)
    <3>1. MeetingOf(files[n], notes) = Own(files[n]) => OwnNote(files[n]) \in W
      BY <1>1 DEF NewNotes
    <3> HIDE DEF W
    <3> QED
      BY <3>1 DEF Written
  <2> HIDE DEF M, W
  <2>4. d.done \in SUBSET M /\ d.written \in Seq(W) /\ d.results \in Seq(Results)
    BY DEF RunStateSet
  <2> DEFINE result == Outcome(files[n], d.done, notes, env, sidecar)
  <2> HIDE DEF result
  <2>5. StopsTheRun(result) \in BOOLEAN
    BY DEF StopsTheRun
  <2>6. << >> \in Seq(W)
    OBVIOUS
  <2>7. result \in Results \cup {"raised"}
    BY <2>2 DEF result
  <2> DEFINE raises == sidecar[files[n].family].raises
             done == IF result = "ok" \/ (result = "raised" /\ raises = "promotion")
                       THEN d.done \cup {MeetingOf(files[n], notes)} ELSE d.done
             more == IF result = "short" \/ (result = "raised" /\ raises = "note")
                       THEN << >> ELSE Written(files[n], notes)
             results == IF result = "raised" THEN d.results ELSE Append(d.results, result)
             stopped == result = "raised" \/ StopsTheRun(result)
  <2>8. done \in SUBSET M
    BY <2>1, <2>4
  <2>9. more \in Seq(W)
    BY <2>3, <2>6
  <2>10. d.written \o more \in Seq(W)
    <3> HIDE DEF more
    <3> QED
      BY <2>4, <2>9
  <2>11. results \in Seq(Results)
    BY <2>4, <2>7
  <2>12. stopped \in BOOLEAN
    BY <2>5
  <2>13. Process(d, files[n], notes, env, sidecar) =
           IF d.stopped THEN d
           ELSE [done |-> done, written |-> d.written \o more, results |-> results, stopped |-> stopped]
    BY DEF Process, result
  <2> HIDE DEF done, more, results, stopped
  <2> QED
    BY <2>8, <2>10, <2>11, <2>12, <2>13 DEF RunStateSet
<1> HIDE DEF D
<1>4. step \in [1..N -> [D -> D]]
  BY <1>3
<1> HIDE DEF N, step
<1> DEFINE base == RunStart(files, diarized, sidecar)
<1> HIDE DEF base
<1>a. base \in D
  BY <1>2 DEF base
<1>b. N \in Nat
  BY <1>1
<1>c. \E g : Recursion(g, N, D, base, step)
  BY <1>a, <1>b, <1>4, RecursionExists
<1>5. PICK g \in [0..N -> D] : g[0] = RunStart(files, diarized, sidecar) /\ \A n \in 1..N : g[n] = step[n][g[n - 1]]
  BY <1>c DEF base, Recursion
<1>6. ASSUME NEW n \in 1..N PROVE g[n] = Process(g[n - 1], files[n], notes, env, sidecar)
  <2>1. n - 1 \in 0..N
    BY <1>1
  <2>2. g[n - 1] \in D
    BY <2>1
  <2> QED
    BY <1>5, <2>2 DEF step
<1>7. \A n \in 0..N : g[n] = body(g, n)
  <2> TAKE n \in 0..N
  <2>1. n # 0 => n \in 1..N
    BY <1>1
  <2> QED
    BY <1>5, <1>6, <2>1
<1> HIDE DEF body
<1>8. g = [n \in 0..N |-> body(g, n)]
  BY <1>5, <1>7
<1>9. f = CHOOSE state : state = [n \in 0..N |-> body(state, n)]
  BY DEF RunStates, body, N
<1> HIDE DEF f
<1>10. f = [n \in 0..N |-> body(f, n)]
  BY <1>8, <1>9
<1>11. /\ f[0] = RunStart(files, diarized, sidecar)
       /\ \A n \in 1..N : f[n] = Process(f[n - 1], files[n], notes, env, sidecar)
  <2>1. \A n \in 0..N : f[n] = body(f, n)
    BY <1>10
  <2>2. 0 \in 0..N /\ \A n \in 1..N : n \in 0..N /\ n # 0
    BY <1>1
  <2> QED
    BY <2>1, <2>2 DEF body
<1>12. \A n \in 0..N : f[n] \in D
  <2> DEFINE P == {n \in 0..N : f[n] \in D}
  <2>1. 0 \in P
    BY <1>1, <1>2, <1>11
  <2>2. ASSUME NEW n \in 1..N, n - 1 \in P PROVE n \in P
    BY <1>1, <1>3, <1>11, <2>2
  <2> HIDE DEF P
  <2>3. 0..N \subseteq P
    BY <1>1, <2>1, <2>2, InductUpTo
  <2> QED
    BY <2>3 DEF P
<1>13. Run(files, notes, diarized, env, sidecar) = f[N]
  BY DEF Run, f, RunStates, RunStart, N
<1> HIDE DEF M, W
<1> QED
  BY <1>11, <1>12, <1>13 DEF f, D, N, M, W

(* What holds after n recordings: unless the run has stopped it has a      *)
(* result for each, and each is the outcome at its turn. A run that has    *)
(* stopped did so at the start, by an exception, or by its last result.    *)
RunSoFar(f, n, files, notes, env, sidecar) ==
  LET results == f[n].results
  IN  /\ results \in Seq(Results) /\ Len(results) <= n
      /\ f[n].stopped \/ Len(results) = n
      /\ \A k \in 1..Len(results) :
           ~f[k - 1].stopped /\ results[k] = Outcome(files[k], f[k - 1].done, notes, env, sidecar)
      /\ f[n].stopped =>
           \/ f[0].stopped
           \/ /\ Len(results) < n
              /\ Outcome(files[Len(results) + 1], f[Len(results)].done, notes, env, sidecar) = "raised"
           \/ Len(results) >= 1 /\ StopsTheRun(results[Len(results)])

LEMMA ProcessStops ==
  ASSUME NEW d, NEW f, NEW notes, NEW env, NEW sidecar, ~d.stopped, NEW result,
         result = Outcome(f, d.done, notes, env, sidecar)
  PROVE  LET after == Process(d, f, notes, env, sidecar)
         IN  /\ after.results = IF result = "raised" THEN d.results ELSE Append(d.results, result)
             /\ result = "raised" => after.stopped
             /\ result # "raised" /\ after.stopped => StopsTheRun(result)
<1>1. Process(d, f, notes, env, sidecar).stopped = (result = "raised" \/ StopsTheRun(result))
  BY DEF Process
<1>2. StopsTheRun(result) \in BOOLEAN
  BY DEF StopsTheRun
<1>3. Process(d, f, notes, env, sidecar).results =
        IF result = "raised" THEN d.results ELSE Append(d.results, result)
  BY DEF Process
<1> QED
  BY <1>1, <1>2, <1>3

LEMMA RunsSoFar ==
  ASSUME NEW F, NEW files \in Seq(F), NEW notes, NEW diarized, NEW env, NEW sidecar
  PROVE  LET f == RunStates(files, notes, diarized, env, sidecar)
         IN  /\ \A n \in 0..Len(files) : RunSoFar(f, n, files, notes, env, sidecar)
             /\ \A i, j \in 0..Len(files) : i <= j => f[i].done \subseteq f[j].done
<1> DEFINE N == Len(files)
           f == RunStates(files, notes, diarized, env, sidecar)
           D == RunStateSet(Met(files, notes, diarized), NewNotes(files, notes))
           ending(n) == Outcome(files[n], f[n - 1].done, notes, env, sidecar)
           P == {n \in 0..N : RunSoFar(f, n, files, notes, env, sidecar)}
           Q == {j \in 0..N : \A i \in 0..j : f[i].done \subseteq f[j].done}
<1>0. N \in Nat
  OBVIOUS
<1>1. /\ f[0] = RunStart(files, diarized, sidecar)
      /\ \A n \in 1..N : f[n] = Process(f[n - 1], files[n], notes, env, sidecar)
      /\ \A n \in 0..N : f[n] \in D
  BY RunSteps
<1> HIDE DEF f, N
<1>2. 0 \in P
  <2>1. f[0].results = << >> /\ 0 \in 0..N
    BY <1>0, <1>1 DEF RunStart
  <2>2. << >> \in Seq(Results) /\ Len(<< >>) = 0
    OBVIOUS
  <2>3. RunSoFar(f, 0, files, notes, env, sidecar)
    BY <2>1, <2>2 DEF RunSoFar
  <2> QED
    BY <2>1, <2>3
<1>3. ASSUME NEW n \in 1..N PROVE n - 1 \in 0..N /\ f[n - 1].results \in Seq(Results)
                                 /\ f[n - 1].stopped \in BOOLEAN
                                 /\ ending(n) \in Results \cup {"raised"}
  BY <1>0, <1>1, OutcomeIsResult DEF RunStateSet
<1>4. ASSUME NEW n \in 1..N, n - 1 \in P PROVE n \in P
  <2> DEFINE old == f[n - 1].results
             results == f[n].results
  <2>1. RunSoFar(f, n - 1, files, notes, env, sidecar) /\ n - 1 \in 0..N /\ n \in 0..N
    BY <1>0, <1>3, <1>4
  <2>2. /\ old \in Seq(Results) /\ Len(old) <= n - 1
        /\ f[n - 1].stopped \/ Len(old) = n - 1
        /\ \A k \in 1..Len(old) : ~f[k - 1].stopped /\ old[k] = ending(k)
        /\ f[n - 1].stopped =>
             \/ f[0].stopped
             \/ Len(old) < n - 1 /\ ending(Len(old) + 1) = "raised"
             \/ Len(old) >= 1 /\ StopsTheRun(old[Len(old)])
    <3>1. Len(old) + 1 - 1 = Len(old)
      BY <1>3
    <3> QED
      BY <2>1, <3>1 DEF RunSoFar
  <2> HIDE DEF ending
  <2>3. CASE f[n - 1].stopped
    <3>1. f[n] = f[n - 1]
      BY <1>1, <2>3 DEF Process
    <3>2. Len(old) + 1 - 1 = Len(old)
      BY <1>3
    <3>3. RunSoFar(f, n, files, notes, env, sidecar)
      BY <1>0, <2>2, <2>3, <3>1, <3>2 DEF RunSoFar, ending
    <3> QED
      BY <2>1, <3>3
  <2>4. CASE ~f[n - 1].stopped /\ ending(n) = "raised"
    <3>1. results = old /\ f[n].stopped
      <4>1. f[n] = Process(f[n - 1], files[n], notes, env, sidecar)
        BY <1>1
      <4> QED
        BY <2>4, <4>1, ProcessStops DEF ending
    <3> HIDE DEF results, old
    <3>2. Len(old) = n - 1 /\ Len(old) + 1 = n /\ n - 1 < n
      BY <1>0, <2>2, <2>4
    <3>3. /\ results \in Seq(Results) /\ Len(results) <= n
          /\ \A k \in 1..Len(results) : ~f[k - 1].stopped /\ results[k] = ending(k)
      BY <1>0, <2>2, <3>1, <3>2
    <3>4. Outcome(files[Len(results) + 1], f[Len(results)].done, notes, env, sidecar) = "raised"
      <4>1. Len(results) + 1 = n /\ Len(results) = n - 1
        BY <3>1, <3>2
      <4> QED
        BY <2>4, <4>1 DEF ending
    <3>5. Len(results) < n
      BY <3>1, <3>2
    <3>6. RunSoFar(f, n, files, notes, env, sidecar)
      BY <3>1, <3>3, <3>4, <3>5 DEF RunSoFar, ending, results
    <3> QED
      BY <2>1, <3>6
  <2>5. CASE ~f[n - 1].stopped /\ ending(n) # "raised"
    <3>1. results = Append(old, ending(n)) /\ (f[n].stopped => StopsTheRun(ending(n)))
      <4>1. f[n] = Process(f[n - 1], files[n], notes, env, sidecar)
        BY <1>1
      <4> QED
        <5> DEFINE e == Outcome(files[n], f[n - 1].done, notes, env, sidecar)
                   after == Process(f[n - 1], files[n], notes, env, sidecar)
        <5>1. /\ after.results = IF e = "raised" THEN old ELSE Append(old, e)
              /\ e # "raised" /\ after.stopped => StopsTheRun(e)
          <6>1. ~f[n - 1].stopped
            BY <2>5
          <6> QED
            BY <6>1, ProcessStops
        <5> HIDE DEF after
        <5>2. /\ results = IF ending(n) = "raised" THEN old ELSE Append(old, ending(n))
              /\ ending(n) # "raised" /\ f[n].stopped => StopsTheRun(ending(n))
          BY <4>1, <5>1 DEF ending, after
        <5> HIDE DEF results, old
        <5> QED
          BY <2>5, <5>2
    <3> HIDE DEF results, old
    <3>2. Len(old) = n - 1 /\ ending(n) \in Results
      BY <1>3, <2>2, <2>5
    <3>3. results \in Seq(Results) /\ Len(results) = n /\ results[n] = ending(n)
      BY <1>0, <2>2, <3>1, <3>2
    <3>4. ASSUME NEW k \in 1..n PROVE ~f[k - 1].stopped /\ results[k] = ending(k)
      <4>1. CASE k = n
        BY <2>5, <3>3, <4>1
      <4>2. CASE k # n
        <5>1. k \in 1..(n - 1)
          BY <1>0, <4>2
        <5>2. results[k] = old[k]
          BY <1>0, <2>2, <3>1, <3>2, <5>1
        <5> QED
          BY <2>2, <3>2, <5>1, <5>2
      <4> QED
        BY <4>1, <4>2
    <3>5. f[n].stopped => StopsTheRun(results[Len(results)])
      BY <3>1, <3>3
    <3>6. Len(results) <= n /\ Len(results) >= 1
      BY <1>0, <3>3
    <3>7. \A k \in 1..Len(results) : ~f[k - 1].stopped /\ results[k] = ending(k)
      BY <3>3, <3>4
    <3>8. RunSoFar(f, n, files, notes, env, sidecar)
      BY <3>3, <3>5, <3>6, <3>7 DEF RunSoFar, ending, results
    <3> QED
      BY <2>1, <3>8
  <2> QED
    BY <2>3, <2>4, <2>5
<1>5. 0 \in Q
  BY <1>0
<1>6. ASSUME NEW n \in 1..N, n - 1 \in Q PROVE n \in Q
  <2>1. f[n - 1].done \subseteq f[n].done
    <3>1. f[n] = Process(f[n - 1], files[n], notes, env, sidecar)
      BY <1>1
    <3> QED
      BY <3>1 DEF Process
  <2>2. n - 1 \in 0..N /\ \A i \in 0..(n - 1) : f[i].done \subseteq f[n - 1].done
    BY <1>6
  <2>3. ASSUME NEW i \in 0..n PROVE f[i].done \subseteq f[n].done
    <3>1. i = n \/ i \in 0..(n - 1)
      BY <1>0
    <3> QED
      BY <2>1, <2>2, <3>1
  <2> QED
    BY <1>0, <2>3
<1> HIDE DEF P, Q
<1>7. 0..N \subseteq P /\ 0..N \subseteq Q
  <2>1. 0..N \subseteq P
    BY <1>0, <1>2, <1>4, InductUpTo
  <2>2. 0..N \subseteq Q
    BY <1>0, <1>5, <1>6, InductUpTo
  <2> QED
    BY <2>1, <2>2
<1>8. \A i, j \in 0..N : i <= j => f[i].done \subseteq f[j].done
  <2>1. \A j \in 0..N : \A i \in 0..j : f[i].done \subseteq f[j].done
    BY <1>7 DEF Q
  <2> QED
    BY <1>0, <2>1
<1> QED
  BY <1>7, <1>8 DEF P, N, f

LEMMA OneOfEachFamily ==
  ASSUME NEW found, \A f \in found : f.ext \in {"wav", "m4a"},
         \A f, g \in found : Path(f) = Path(g) => f = g,
         NEW f \in Collapsed(found), NEW g \in Collapsed(found), f.family = g.family
  PROVE  f = g
<1>1. f \in found /\ g \in found /\ (f.ext = "m4a" <=> g.ext = "m4a")
  BY DEF Collapsed
<1>2. f.ext = g.ext
  BY <1>1
<1>3. Path(f) = Path(g)
  BY <1>2 DEF Path
<1> QED
  BY <1>1, <1>3

LEMMA FilesInOrder ==
  ASSUME NEW found, IsFiniteSet(found),
         \A f \in found : f.family \in Int /\ f.mtime \in Int /\ f.ext \in {"wav", "m4a"},
         \A f, g \in found : Path(f) = Path(g) => f = g
  PROVE  /\ InOrder(Collapsed(found)) \in Seq(Collapsed(found))
         /\ Collapsed(found) \subseteq found
<1> DEFINE S == Collapsed(found)
           key(f) == <<f.mtime, f.family>>
           R == {p \in S \X S : Precedes(key(p[1]), key(p[2]))}
<1>1. S \subseteq found /\ IsFiniteSet(S)
  <2>1. S \subseteq found
    BY DEF Collapsed
  <2> QED
    BY <2>1, FS_Subset
<1>2. \A f \in S : key(f) \in [1..2 -> Int]
  BY <1>1
<1>3. \A f, g \in S : key(f) = key(g) => f = g
  BY <1>1, OneOfEachFamily
<1>4. \A f, g \in S : <<f, g>> \in R <=> Precedes(key(f), key(g))
  OBVIOUS
<1>5. InOrder(S) = Listed(S, R)
  BY DEF InOrder
<1> HIDE DEF R, S, key
<1>6. Orders(R, S)
  <2>1. \A f \in S : ~Precedes(key(f), key(f))
    BY <1>2, PrecedesIsStrict
  <2>2. \A f, g, h \in S : Precedes(key(f), key(g)) /\ Precedes(key(g), key(h)) => Precedes(key(f), key(h))
    BY <1>2, PrecedesIsTransitive
  <2>3. \A f, g \in S : f # g => Precedes(key(f), key(g)) \/ Precedes(key(g), key(f))
    BY <1>2, <1>3, PrecedesIsTotal
  <2> QED
    BY <1>4, <2>1, <2>2, <2>3 DEF Orders
<1>7. Cardinality(S) \in Nat /\ InOrder(S) \in [1..Cardinality(S) -> S]
  BY <1>1, <1>5, <1>6, ListedInOrder
<1>8. InOrder(S) \in Seq(S)
  BY <1>7
<1> QED
  BY <1>1, <1>8 DEF S

(* The notes a run has written for others are no matter to a recording of  *)
(* another time, and its own gives it the meeting it had.                  *)
LEMMA FiledTheSame ==
  ASSUME NEW S, NEW notes \in Seq(S), NEW chosen, Apart(chosen), NEW f \in chosen,
         Path(f) # None, NEW written,
         written \in Seq({OwnNote(g) : g \in {h \in chosen : MeetingOf(h, notes) = Own(h)}})
  PROVE  MeetingOf(f, notes \o written) = MeetingOf(f, notes)
<1> DEFINE W == {OwnNote(g) : g \in {h \in chosen : MeetingOf(h, notes) = Own(h)}}
           then == notes \o written
           L == Len(notes)
           naming(list) == {i \in DOMAIN list : list[i].meeting # None /\ list[i].audio = Path(f)}
           near(list) == {i \in DOMAIN list : Near(f, list[i])}
<1>1. /\ L \in Nat /\ Len(then) \in Nat /\ DOMAIN notes = 1..L /\ DOMAIN then = 1..Len(then)
      /\ L <= Len(then)
      /\ \A i \in 1..L : then[i] = notes[i]
      /\ \A i \in DOMAIN then : i \notin 1..L => then[i] \in W
  <2> HIDE DEF W
  <2>1. written \in Seq(W)
    BY DEF W
  <2> QED
    BY <2>1
<1> HIDE DEF W, then, L
<1>2. ASSUME NEW i \in DOMAIN then, i \notin 1..L, Near(f, then[i])
      PROVE  then[i].meeting = Own(f) /\ MeetingOf(f, notes) = Own(f)
  <2>1. PICK g \in chosen : MeetingOf(g, notes) = Own(g) /\ then[i] = OwnNote(g)
    BY <1>1, <1>2 DEF W
  <2>2. g = f
    BY <1>2, <2>1 DEF Apart
  <2> QED
    BY <2>1, <2>2 DEF OwnNote
<1>3. ASSUME NEW i \in DOMAIN then, i \notin 1..L PROVE then[i].audio # Path(f)
  BY <1>1, <1>3 DEF W, OwnNote
<1>4. naming(then) = naming(notes)
  BY <1>1, <1>3
<1>5. ByAudio(f, then) = ByAudio(f, notes)
  <2> DEFINE last == CHOOSE i \in naming(notes) : \A j \in naming(notes) : j <= i
  <2>1. CASE naming(notes) = {}
    BY <1>4, <2>1 DEF ByAudio
  <2>2. CASE naming(notes) # {}
    <3>1. ByAudio(f, then) = then[last].meeting /\ ByAudio(f, notes) = notes[last].meeting
      BY <1>4, <2>2 DEF ByAudio
    <3>2. \E i \in naming(notes) : \A j \in naming(notes) : j <= i
      <4>1. naming(notes) \subseteq 0..L
        BY <1>1
      <4> HIDE DEF naming
      <4> QED
        BY <1>1, <2>2, <4>1, Greatest
    <3>3. last \in 1..L
      BY <1>1, <3>2
    <3> HIDE DEF last
    <3> QED
      BY <1>1, <3>1, <3>3
  <2> QED
    BY <2>1, <2>2
<1>6. CASE near(then) = near(notes)
  <2>1. ByStart(f, then) = ByStart(f, notes)
    <3>1. CASE Cardinality(near(notes)) = 1
      <4> DEFINE one == CHOOSE i \in near(notes) : TRUE
      <4>1. ByStart(f, then) = then[one].meeting /\ ByStart(f, notes) = notes[one].meeting
        BY <1>6, <3>1 DEF ByStart
      <4>2. PICK i \in near(notes) : near(notes) = {i}
        <5>1. near(notes) \subseteq 0..L
          BY <1>1
        <5> HIDE DEF near
        <5> QED
          BY <1>1, <3>1, <5>1, OneMember
      <4>3. one \in 1..L
        BY <1>1, <4>2
      <4> HIDE DEF one
      <4> QED
        BY <1>1, <4>1, <4>3
    <3>2. CASE Cardinality(near(notes)) # 1
      BY <1>6, <3>2 DEF ByStart
    <3> QED
      BY <3>1, <3>2
  <2> QED
    BY <1>5, <2>1 DEF MeetingOf, then
<1>7. CASE near(then) # near(notes)
  <2>1. MeetingOf(f, notes) = Own(f)
    BY <1>1, <1>2, <1>7
  <2>2. f.marker # None \/ ByAudio(f, notes) # None => MeetingOf(f, then) = MeetingOf(f, notes)
    BY <1>5 DEF MeetingOf
  <2>3. ASSUME f.marker = None, ByAudio(f, notes) = None, ByStart(f, then) # None
        PROVE  MeetingOf(f, then) = Own(f)
    <3>1. MeetingOf(f, then) = ByStart(f, then)
      BY <1>5, <2>3 DEF MeetingOf
    <3> DEFINE one == CHOOSE i \in near(then) : TRUE
    <3>2. Cardinality(near(then)) = 1 /\ ByStart(f, then) = then[one].meeting
      BY <2>3 DEF ByStart
    <3>3. PICK i \in near(then) : near(then) = {i}
      <4>1. near(then) \subseteq 0..Len(then)
        BY <1>1
      <4> HIDE DEF near
      <4> QED
        BY <1>1, <3>2, <4>1, OneMember
    <3>4. one \in near(then) /\ one = i
      BY <3>3
    <3> HIDE DEF one
    <3>5. CASE one \notin 1..L
      BY <1>2, <3>1, <3>2, <3>4, <3>5
    <3>6. CASE one \in 1..L
      <4>1. near(notes) = near(then)
        BY <1>1, <3>3, <3>4, <3>6
      <4> QED
        BY <1>7, <4>1
    <3> QED
      BY <3>5, <3>6
  <2>4. ASSUME f.marker = None, ByAudio(f, notes) = None, ByStart(f, then) = None
        PROVE  MeetingOf(f, then) = Own(f)
    BY <1>5, <2>4 DEF MeetingOf
  <2> QED
    BY <2>1, <2>2, <2>3, <2>4 DEF then
<1> QED
  BY <1>6, <1>7

LEMMA RunsEndForAReason ==
  ASSUME NEW F, NEW files \in Seq(F), NEW notes, NEW diarized, NEW env, NEW sidecar
  PROVE  EndsForAReason(Run(files, notes, diarized, env, sidecar), files, sidecar)
<1> DEFINE N == Len(files)
           run == Run(files, notes, diarized, env, sidecar)
           f == RunStates(files, notes, diarized, env, sidecar)
           at == Len(run.results)
           ending(n) == Outcome(files[n], f[n - 1].done, notes, env, sidecar)
<1>1. N \in Nat /\ DOMAIN files = 1..N
  OBVIOUS
<1>2. /\ run = f[N]
      /\ f[0] = RunStart(files, diarized, sidecar)
      /\ \A n \in 0..N : RunSoFar(f, n, files, notes, env, sidecar)
  BY RunSteps, RunsSoFar
<1> HIDE DEF run, f, N
<1>3. /\ run.results \in Seq(Results) /\ at <= N
      /\ run.stopped \/ at = N
      /\ \A k \in 1..at : run.results[k] = ending(k)
      /\ run.stopped => \/ f[0].stopped
                        \/ at < N /\ ending(at + 1) = "raised"
                        \/ at >= 1 /\ StopsTheRun(run.results[at])
  <2>1. RunSoFar(f, N, files, notes, env, sidecar)
    BY <1>1, <1>2
  <2>2. Len(f[N].results) \in Nat
    BY <2>1 DEF RunSoFar
  <2>3. Len(f[N].results) + 1 - 1 = Len(f[N].results)
    BY <2>2
  <2> QED
    BY <1>2, <2>1, <2>3 DEF RunSoFar
<1>4. at \in Nat
  BY <1>3
<1> HIDE DEF at
<1>5. f[0].stopped => \E n \in DOMAIN files : sidecar[files[n].family].raises = "stat"
  BY <1>2 DEF RunStart
<1>6. ASSUME ending(at + 1) = "raised" PROVE sidecar[files[at + 1].family].raises # "none"
  <2>1. Issue(sidecar[files[at + 1].family].matched) # "raised"
    BY IssueIsOne DEF Issues
  <2> QED
    BY <1>6, <2>1 DEF Outcome
<1>7. ASSUME at >= 1, StopsTheRun(run.results[at])
      PROVE  at > 0 /\ \E rule \in {"onepassword", "docker"} : rule \in sidecar[files[at].family].matched
  <2>1. at \in 1..at
    BY <1>4, <1>7
  <2>2. StopsTheRun(ending(at))
    BY <1>3, <1>7, <2>1
  <2>3. ending(at) = Issue(sidecar[files[at].family].matched)
    BY <2>2 DEF Outcome, StopsTheRun
  <2> QED
    BY <1>4, <1>7, <2>2, <2>3, IssueIsOne
<1> HIDE DEF ending
<1> QED
  BY <1>3, <1>5, <1>6, <1>7 DEF EndsForAReason, at, N, run

LEMMA RunsResume ==
  ASSUME NEW F, NEW files \in Seq(F), NEW notes, NEW then, NEW earlier, NEW env, NEW sidecar,
         \A n \in DOMAIN files : MeetingOf(files[n], then) = MeetingOf(files[n], notes),
         \A n \in DOMAIN files : sidecar[files[n].family] = [ok |-> TRUE, matched |-> {}, raises |-> "none"]
  PROVE  Resumes(earlier, Run(files, then, earlier.done, env, sidecar), files, notes, then, env)
<1> DEFINE N == Len(files)
           second == Run(files, then, earlier.done, env, sidecar)
           g == RunStates(files, then, earlier.done, env, sidecar)
           meeting(n) == MeetingOf(files[n], notes)
           usable(n) == ~files[n].short /\ (env.require => meeting(n) \in env.transcribed)
           result(n) == Outcome(files[n], g[n - 1].done, then, env, sidecar)
<1>1. N \in Nat /\ DOMAIN files = 1..N
  OBVIOUS
<1>4. /\ second = g[N]
      /\ g[0] = RunStart(files, earlier.done, sidecar)
      /\ \A n \in 1..N : g[n] = Process(g[n - 1], files[n], then, env, sidecar)
      /\ \A n \in 0..N : RunSoFar(g, n, files, then, env, sidecar)
      /\ \A i, j \in 0..N : i <= j => g[i].done \subseteq g[j].done
  BY RunSteps, RunsSoFar
<1> HIDE DEF g, second
<1>5. ASSUME NEW n \in 1..N
      PROVE  /\ result(n) \in {"short", "no transcript", "already", "ok"}
             /\ usable(n) => result(n) \in {"already", "ok"}
             /\ result(n) = "already" => meeting(n) \in g[n - 1].done
             /\ result(n) = "ok" => meeting(n) \notin g[n - 1].done
  <2>1. /\ sidecar[files[n].family].ok /\ sidecar[files[n].family].raises = "none"
        /\ MeetingOf(files[n], then) = meeting(n)
    BY <1>1
  <2> QED
    BY <2>1 DEF Outcome
<1>a. ~g[0].stopped
  BY <1>1, <1>4 DEF RunStart
<1>6. ASSUME NEW n \in 0..N PROVE ~g[n].stopped /\ Len(g[n].results) = n
  <2> DEFINE results == g[n].results
  <2>1. RunSoFar(g, n, files, then, env, sidecar)
    BY <1>4
  <2>0. Len(results) \in Nat
    BY <2>1 DEF RunSoFar
  <2>2. /\ results \in Seq(Results) /\ Len(results) <= n
        /\ g[n].stopped \/ Len(results) = n
        /\ \A k \in 1..Len(results) : results[k] = result(k)
        /\ g[n].stopped => \/ Len(results) < n /\ result(Len(results) + 1) = "raised"
                           \/ Len(results) >= 1 /\ StopsTheRun(results[Len(results)])
    <3>1. Len(results) + 1 - 1 = Len(results)
      BY <2>0
    <3> QED
      BY <1>a, <2>1, <3>1 DEF RunSoFar
  <2> HIDE DEF results, result
  <2>3. ASSUME g[n].stopped PROVE FALSE
    <3>1. CASE Len(results) < n /\ result(Len(results) + 1) = "raised"
      <4>1. Len(results) + 1 \in 1..N
        BY <1>1, <2>0, <3>1
      <4> QED
        BY <1>5, <3>1, <4>1
    <3>2. CASE Len(results) >= 1 /\ StopsTheRun(results[Len(results)])
      <4>1. Len(results) \in 1..N /\ Len(results) \in 1..Len(results)
        BY <1>1, <2>0, <2>2, <3>2
      <4>2. StopsTheRun(result(Len(results)))
        BY <2>2, <3>2, <4>1
      <4> QED
        BY <1>5, <4>1, <4>2 DEF StopsTheRun
    <3> QED
      BY <2>2, <2>3, <3>1, <3>2
  <2> QED
    BY <2>2, <2>3 DEF results
<1>7. ASSUME NEW n \in 1..N
      PROVE  /\ second.results[n] = result(n)
             /\ result(n) = "ok" => meeting(n) \in g[n].done
             /\ n - 1 \in 0..N /\ n \in 0..N
  <2>1. n - 1 \in 0..N /\ n \in 0..N /\ N \in 0..N
    BY <1>1
  <2>2. RunSoFar(g, N, files, then, env, sidecar) /\ Len(g[N].results) = N
    BY <1>4, <1>6, <2>1
  <2>3. second.results[n] = result(n)
    BY <1>4, <2>2 DEF RunSoFar
  <2>4. /\ g[n] = Process(g[n - 1], files[n], then, env, sidecar) /\ ~g[n - 1].stopped
        /\ MeetingOf(files[n], then) = meeting(n)
    BY <1>1, <1>4, <1>6, <2>1
  <2>5. result(n) = "ok" => meeting(n) \in g[n].done
    BY <2>4 DEF Process
  <2> QED
    BY <2>1, <2>3, <2>5
<1>8. ASSUME NEW n \in 1..N, usable(n) PROVE meeting(n) \in second.done
  <2>1. result(n) \in {"already", "ok"}
    BY <1>5, <1>8
  <2>2. meeting(n) \in g[n - 1].done \/ meeting(n) \in g[n].done
    BY <1>5, <1>7, <2>1
  <2>3. n - 1 \in 0..N /\ n \in 0..N /\ N \in 0..N /\ n - 1 <= N /\ n <= N
    BY <1>1
  <2>4. g[n - 1].done \subseteq g[N].done /\ g[n].done \subseteq g[N].done
    BY <1>4, <2>3
  <2> QED
    BY <1>4, <2>2, <2>4
<1> DEFINE ran(n) == second.results[n] \notin {"short", "no transcript", "already"}
<1>9. ASSUME NEW n \in 1..N, ran(n)
      PROVE  result(n) = "ok" /\ meeting(n) \notin g[n - 1].done /\ meeting(n) \in g[n].done
  <2>1. result(n) = "ok"
    BY <1>5, <1>7, <1>9
  <2> QED
    BY <1>5, <1>7, <2>1
<1>10. ASSUME NEW n \in 1..N, ran(n) PROVE meeting(n) \notin earlier.done
  <2>1. 0 \in 0..N /\ n - 1 \in 0..N /\ 0 <= n - 1
    BY <1>1
  <2>2. g[0].done \subseteq g[n - 1].done /\ g[0].done = earlier.done
    BY <1>4, <2>1 DEF RunStart
  <2> QED
    BY <1>9, <1>10, <2>2
<1>11. ASSUME NEW k \in 1..N, NEW n \in 1..N, k < n, ran(k), ran(n) PROVE meeting(k) # meeting(n)
  <2>1. k \in 0..N /\ n - 1 \in 0..N /\ k <= n - 1
    <3>1. k < n
      BY <1>11
    <3> HIDE DEF ran
    <3> QED
      BY <1>1, <3>1
  <2>2. g[k].done \subseteq g[n - 1].done
    BY <1>4, <2>1
  <2> QED
    BY <1>9, <1>11, <2>2
<1> HIDE DEF ran, usable, meeting
<1> QED
  BY <1>1, <1>8, <1>10, <1>11 DEF Resumes, second, ran, usable, meeting

THEOREM EveryBatchIsPickedUp ==
  ASSUME NEW found, IsFiniteSet(found), NEW S, NEW notes \in Seq(S), NEW env, NEW sidecar,
         \A f \in found : /\ f.family \in Int /\ f.mtime \in Int /\ f.ext \in {"wav", "m4a"}
                          /\ f.family \in DOMAIN sidecar /\ Path(f) # None,
         \A f, g \in found : Path(f) = Path(g) => f = g
  PROVE  NextRunPicksUp(found, notes, env, sidecar)
<1> DEFINE chosen == Collapsed(found)
           files == InOrder(chosen)
           well == [family \in DOMAIN sidecar |-> [ok |-> TRUE, matched |-> {}, raises |-> "none"]]
           former == Run(files, notes, {}, env, sidecar)
           then == notes \o former.written
           second == Run(files, then, former.done, env, well)
<1>1. files \in Seq(chosen) /\ chosen \subseteq found
  BY FilesInOrder
<1> HIDE DEF files, chosen
<1>2. EndsForAReason(former, files, sidecar)
  BY <1>1, RunsEndForAReason
<1>3. former.written \in Seq(NewNotes(files, notes))
  <2> DEFINE f == RunStates(files, notes, {}, env, sidecar)
             D == RunStateSet(Met(files, notes, {}), NewNotes(files, notes))
  <2>1. former = f[Len(files)] /\ \A n \in 0..Len(files) : f[n] \in D
    BY <1>1, RunSteps
  <2> HIDE DEF f, D, former
  <2>2. Len(files) \in 0..Len(files)
    BY <1>1
  <2>3. former \in D
    BY <2>1, <2>2
  <2> QED
    BY <2>3 DEF D, RunStateSet
<1> HIDE DEF former
<1>4. former.written \in Seq({OwnNote(g) : g \in {h \in chosen : MeetingOf(h, notes) = Own(h)}})
  <2>1. NewNotes(files, notes) \subseteq {OwnNote(g) : g \in {h \in chosen : MeetingOf(h, notes) = Own(h)}}
    BY <1>1 DEF NewNotes
  <2> QED
    BY <1>3, <2>1
<1>5. ASSUME Apart(chosen) PROVE Resumes(former, second, files, notes, then, env)
  <2>1. ASSUME NEW n \in DOMAIN files
        PROVE  /\ MeetingOf(files[n], then) = MeetingOf(files[n], notes)
               /\ well[files[n].family] = [ok |-> TRUE, matched |-> {}, raises |-> "none"]
    <3>1. files[n] \in chosen /\ files[n] \in found
      BY <1>1
    <3> HIDE DEF then
    <3>2. MeetingOf(files[n], notes \o former.written) = MeetingOf(files[n], notes)
      BY <1>4, <1>5, <3>1, FiledTheSame
    <3> QED
      BY <3>1, <3>2 DEF then
  <2> HIDE DEF then, well
  <2> QED
    BY <1>1, <2>1, RunsResume
<1>6. \A x, y \in chosen : x.family = y.family => x = y
  BY OneOfEachFamily DEF chosen
<1> HIDE DEF second, then, well
<1> QED
  BY <1>2, <1>5, <1>6 DEF NextRunPicksUp, files, former, second, then, well, chosen

(* Each recording is filed on evidence and each batch is picked up by the  *)
(* next run, for every set of recordings, notes and failures.              *)
THEOREM CatchupsResume == PartsSpec => []CatchupResumes
<1>1. Asked => CatchupResumes
  <2>1. ASSUME Asked, part = "filed" PROVE FiledOnEvidence(input.recording, input.notes)
    <3>1. input \in Inputs.filed
      BY <2>1 DEF Asked, Questions
    <3> QED
      BY <3>1, FilingAssumption, RecordingsAreFiledOnEvidence DEF IsList
  <2>2. ASSUME Asked, part = "batch"
        PROVE  NextRunPicksUp(input.found, input.notes,
                 [transcribed |-> input.transcribed, require |-> input.require], input.sidecar)
    <3>1. input \in Inputs.batch
      BY <2>2 DEF Asked, Questions
    <3> QED
      BY <3>1, BatchAssumption, EveryBatchIsPickedUp DEF IsList
  <2> QED
    BY <2>1, <2>2 DEF CatchupResumes
<1> QED
  BY <1>1, AlwaysAsked, PTL

-----------------------------------------------------------------------------
(* Links and events *)

LEMMA FilteredIsEmpty ==
  ASSUME NEW s, NEW places, ArePlaces(places)
  PROVE  Filtered(s, places) = << >> <=> places = {}
<1>1. Len(Filtered(s, places)) = Cardinality(places) /\ DOMAIN Filtered(s, places) = 1..Cardinality(places)
      /\ Cardinality(places) \in Nat
  BY FilteredInOrder
<1>2. Cardinality(places) = 0 <=> places = {}
  BY FS_EmptySet DEF ArePlaces
<1>3. Filtered(s, places) = << >> => Cardinality(places) = 0
  BY <1>1
<1>4. ASSUME Cardinality(places) = 0 PROVE Filtered(s, places) = << >>
  <2>1. Filtered(s, places) = [n \in 1..0 |-> s[Rising(places)[n]]]
    BY <1>4 DEF Filtered
  <2> QED
    BY <2>1
<1> QED
  BY <1>2, <1>3, <1>4

LEMMA FilteredFirst ==
  ASSUME NEW s, NEW places, ArePlaces(places), NEW p \in places, \A q \in places : p <= q
  PROVE  Filtered(s, places)[1] = s[p]
<1> DEFINE order == Rising(places)
           n == Cardinality(places)
<1>1. /\ n \in Nat
      /\ order \in [1..n -> places]
      /\ \A i, j \in 1..n : i < j => order[i] < order[j]
      /\ \A x \in places : \E i \in 1..n : order[i] = x
      /\ \A i \in 1..n : Filtered(s, places)[i] = s[order[i]]
  <2>1. n \in Nat /\ order \in [1..n -> places]
    BY FilteredInOrder
  <2>2. \A i, j \in 1..n : i < j => order[i] < order[j]
    BY FilteredInOrder
  <2>3. \A x \in places : \E i \in 1..n : order[i] = x
    BY FilteredInOrder
  <2>4. \A i \in 1..n : Filtered(s, places)[i] = s[order[i]]
    BY FilteredInOrder
  <2> QED
    BY <2>1, <2>2, <2>3, <2>4
<1> HIDE DEF order, n
<1>2. PICK i \in 1..n : order[i] = p
  BY <1>1
<1>3. 1 \in 1..n
  BY <1>1, <1>2
<1>4. order[1] \in places
  BY <1>1, <1>3
<1>5. order[1] \in Int /\ p \in Int /\ p <= order[1]
  BY <1>4 DEF ArePlaces
<1>6. i = 1
  BY <1>1, <1>2, <1>3, <1>5
<1> QED
  BY <1>1, <1>2, <1>3, <1>6

(* A link is of the platform that is preferred, whatever links an event    *)
(* has. *)
LEMMA LinkIsOfThePreferred ==
  ASSUME NEW T, NEW links \in Seq(T)
  PROVE  Cal!PlatformIsPreferred(links)
<1> DEFINE D == Cal!Domains
           at(d) == {k \in DOMAIN links : d \in links[k]}
           mentions(d) == Filtered(links, at(d))
           ranks == {i \in DOMAIN D : \E k \in DOMAIN links : D[i] \in links[k]}
           known == Filtered(D, ranks)
           url == Cal!JoinUrl(links)
<1>1. DOMAIN D = 1..4 /\ Len(links) \in Nat /\ DOMAIN links = 1..Len(links)
  BY DEF Cal!Domains
<1>2. ArePlaces(ranks) /\ \A d : ArePlaces(at(d))
  <2>1. ranks \subseteq 1..4 /\ \A d : at(d) \subseteq 1..Len(links)
    BY <1>1
  <2> HIDE DEF ranks, at
  <2> QED
    BY <1>1, <2>1, PlacesAreFinite
<1>3. \A i \in DOMAIN D : mentions(D[i]) # << >> <=> i \in ranks
  <2>1. \A d : mentions(d) # << >> <=> at(d) # {}
    <3> HIDE DEF at
    <3> QED
      BY <1>2, FilteredIsEmpty
  <2> QED
    BY <2>1
<1>4. url = IF known # << >> THEN mentions(known[1])[1] ELSE
            IF links = << >> THEN {} ELSE links[1]
  <2> DEFINE found == {i \in DOMAIN D : mentions(D[i]) # << >>}
  <2>1. found = ranks
    BY <1>3
  <2>2. url = IF Filtered(D, found) # << >> THEN mentions(Filtered(D, found)[1])[1] ELSE
              IF links = << >> THEN {} ELSE links[1]
    <3>1. \A s, places : Cal!Filtered(s, places) = Filtered(s, places)
      BY SameFiltering
    <3> QED
      BY <3>1 DEF Cal!JoinUrl
  <2> HIDE DEF found, mentions, ranks
  <2> QED
    BY <2>1, <2>2
<1> HIDE DEF url
<1>5. ASSUME ranks = {} PROVE Cal!Platform(url) = "unknown"
  <2>1. known = << >>
    <3> HIDE DEF ranks
    <3> QED
      BY <1>2, <1>5, FilteredIsEmpty
  <2>2. url = {} \/ \E k \in DOMAIN links : url = links[k]
    <3>1. links # << >> => 1 \in DOMAIN links
      BY <1>1
    <3> HIDE DEF known
    <3> QED
      BY <1>4, <2>1, <3>1
  <2>3. \A i \in DOMAIN D : D[i] \notin url
    BY <1>5, <2>2
  <2> QED
    BY <2>3 DEF Cal!Platform
<1>6. ASSUME NEW i \in ranks, \A j \in ranks : i <= j PROVE Cal!Platform(url) = D[i]
  <2>1. known # << >> /\ known[1] = D[i]
    <3> HIDE DEF ranks, D
    <3> QED
      BY <1>2, <1>6, FilteredIsEmpty, FilteredFirst
  <2>2. PICK k \in at(D[i]) : \A m \in at(D[i]) : k <= m
    <3>1. at(D[i]) \subseteq Nat /\ at(D[i]) # {}
      BY <1>1
    <3> QED
      BY <3>1, Least
  <2>3. mentions(D[i])[1] = links[k]
    <3> HIDE DEF at, D
    <3> QED
      BY <1>2, <2>2, FilteredFirst
  <2>4. url = links[k]
    <3> HIDE DEF known, mentions, at, D
    <3> QED
      BY <1>4, <2>1, <2>3
  <2>5. i \in DOMAIN D /\ i \in Int /\ D[i] \in url
    BY <1>1, <2>2, <2>4
  <2>6. \A j \in DOMAIN D : D[j] \in url => i <= j
    BY <1>6, <2>2, <2>4
  <2>7. \A j \in 1..(i - 1) : D[j] \notin url
    BY <1>1, <2>5, <2>6
  <2> DEFINE preferred(j) == D[j] \in url /\ \A m \in 1..(j - 1) : D[m] \notin url
             chosen == CHOOSE j \in DOMAIN D : preferred(j)
  <2>8. preferred(i)
    BY <2>5, <2>7
  <2>9. chosen \in DOMAIN D /\ preferred(chosen)
    <3> HIDE DEF preferred
    <3> QED
      BY <2>5, <2>8
  <2>10. i <= chosen /\ ~(i < chosen)
    BY <1>1, <2>5, <2>6, <2>9
  <2>11. chosen = i
    BY <1>1, <2>5, <2>9, <2>10
  <2>12. Cal!Platform(url) = D[chosen]
    BY <2>5 DEF Cal!Platform
  <2> HIDE DEF D, chosen
  <2> QED
    BY <2>11, <2>12
<1>7. ranks = {} => Cal!Platform(url) = "unknown"
  BY <1>5
<1>8. \A i \in ranks : (\A j \in ranks : i <= j) => Cal!Platform(url) = D[i]
  BY <1>6
<1> QED
  BY <1>7, <1>8 DEF Cal!PlatformIsPreferred, url

LEMMA ByKeyInOrder ==
  ASSUME NEW places, ArePlaces(places), NEW key, Keyed(places, key)
  PROVE  /\ Cardinality(places) \in Nat
         /\ ByKey(places, key) \in [1..Cardinality(places) -> places]
         /\ \A i, j \in 1..Cardinality(places) : i < j =>
              Before(key, ByKey(places, key)[i], ByKey(places, key)[j])
         /\ \A p \in places : \E i \in 1..Cardinality(places) : ByKey(places, key)[i] = p
BY SortedInOrder

LEMMA BeforeIsStrict ==
  ASSUME NEW places, ArePlaces(places), NEW key, Keyed(places, key)
  PROVE  \A p \in places : ~Before(key, p, p)
<1>1. \A p \in places : p \in Int
  BY DEF ArePlaces
<1> QED
  BY <1>1, PrecedesIsStrict DEF Before, Keyed

LEMMA PrecedesOrders ==
  ASSUME NEW places, NEW near, Keyed(places, near)
  PROVE  /\ \A p, q \in places : Precedes(near[p], near[q]) => ~Precedes(near[q], near[p]) /\ near[p] # near[q]
         /\ \A p, q \in places : near[p] # near[q] => Precedes(near[p], near[q]) \/ Precedes(near[q], near[p])
         /\ \A p, q, r \in places :
              Precedes(near[p], near[q]) /\ Precedes(near[q], near[r]) => Precedes(near[p], near[r])
<1>0. PICK k \in Nat : \A p \in places : near[p] \in [1..k -> Int]
  BY DEF Keyed
<1>1. \A p, q, r \in places :
        Precedes(near[p], near[q]) /\ Precedes(near[q], near[r]) => Precedes(near[p], near[r])
  BY <1>0, PrecedesIsTransitive
<1>2. \A p \in places : ~Precedes(near[p], near[p])
  BY <1>0, PrecedesIsStrict
<1>3. \A p, q \in places : near[p] # near[q] => Precedes(near[p], near[q]) \/ Precedes(near[q], near[p])
  BY <1>0, PrecedesIsTotal
<1> QED
  BY <1>1, <1>2, <1>3

(* The places that are nearer than every other; an order that keeps the    *)
(* nearer first; and of its first m places those as near as the first.     *)
Nearest(places, near) == {i \in places : \A j \in places \ {i} : Precedes(near[i], near[j])}
SortsNear(places, key, near) == \A p, q \in places : Before(key, p, q) => ~Precedes(near[q], near[p])
AsFirst(places, key, near, m) ==
  {n \in 1..m : near[ByKey(places, key)[n]] = near[ByKey(places, key)[1]]}

(* Enough of the order is kept: all of it, or two.                         *)
LEMMA FirstIsNearest ==
  ASSUME NEW places, ArePlaces(places), NEW key, Keyed(places, key), NEW near, Keyed(places, near),
         SortsNear(places, key, near),
         NEW m \in 0..Cardinality(places), m >= 2 \/ m = Cardinality(places)
  PROVE  /\ AsFirst(places, key, near, m) = {1} => ByKey(places, key)[1] \in Nearest(places, near)
         /\ AsFirst(places, key, near, m) # {1} => Nearest(places, near) = {}
<1> DEFINE order == ByKey(places, key)
           n == Cardinality(places)
           B == AsFirst(places, key, near, m)
<1>1. n \in Nat /\ order \in [1..n -> places]
  BY ByKeyInOrder
<1>2. \A i, j \in 1..n : i < j => Before(key, order[i], order[j])
  BY ByKeyInOrder
<1>3. \A p \in places : \E i \in 1..n : order[i] = p
  BY ByKeyInOrder
<1>5. B = {i \in 1..m : near[order[i]] = near[order[1]]}
  BY DEF AsFirst
<1> HIDE DEF order, B
<1>4. \A i, j \in 1..n : i < j => order[i] # order[j] /\ ~Precedes(near[order[j]], near[order[i]])
  BY <1>1, <1>2, BeforeIsStrict DEF SortsNear
<1>6. m \in 0..n /\ (m >= 2 \/ m = n)
  OBVIOUS
<1> HIDE DEF n
<1>7. \A p, q \in places : Precedes(near[p], near[q]) => ~Precedes(near[q], near[p]) /\ near[p] # near[q]
  BY PrecedesOrders
<1>8. \A p, q \in places : near[p] # near[q] => Precedes(near[p], near[q]) \/ Precedes(near[q], near[p])
  BY PrecedesOrders
<1>9. \A p, q, r \in places : Precedes(near[p], near[q]) /\ Precedes(near[q], near[r]) => Precedes(near[p], near[r])
  BY PrecedesOrders
<1>10. ASSUME B = {1} PROVE order[1] \in Nearest(places, near)
  <2>1. 1 \in 1..m /\ 1 \in 1..n /\ order[1] \in places
    BY <1>1, <1>5, <1>6, <1>10
  <2>2. ASSUME NEW j \in places \ {order[1]} PROVE Precedes(near[order[1]], near[j])
    <3>1. PICK l \in 1..n : order[l] = j
      BY <1>3
    <3>2. l > 1 /\ 2 \in 1..n /\ 2 \in 1..m
      BY <1>1, <1>6, <2>1, <2>2, <3>1
    <3>3. order[2] \in places /\ order[l] \in places
      BY <1>1, <3>2
    <3>4. near[order[2]] # near[order[1]]
      BY <1>5, <1>10, <3>2
    <3>5. ~Precedes(near[order[2]], near[order[1]])
      BY <1>4, <2>1, <3>2
    <3>6. Precedes(near[order[1]], near[order[2]])
      BY <1>8, <2>1, <3>3, <3>4, <3>5
    <3>7. l = 2 \/ ~Precedes(near[order[l]], near[order[2]])
      BY <1>4, <3>2
    <3>8. near[j] = near[order[2]] \/ Precedes(near[order[2]], near[j])
      BY <1>8, <3>1, <3>3, <3>7
    <3> QED
      BY <1>9, <2>1, <3>1, <3>3, <3>6, <3>8
  <2> QED
    BY <2>1, <2>2 DEF Nearest
<1>11. ASSUME B # {1}, NEW i \in Nearest(places, near) PROVE FALSE
  <2>1. i \in places /\ \A j \in places \ {i} : Precedes(near[i], near[j])
    BY <1>11 DEF Nearest
  <2>2. PICK l \in 1..n : order[l] = i
    BY <1>3, <2>1
  <2>3. 1 \in 1..n /\ order[1] \in places
    BY <1>1, <2>2
  <2>4. l = 1
    <3>1. ASSUME l # 1 PROVE FALSE
      <4>1. 1 < l
        BY <2>2, <3>1
      <4>2. order[1] # i /\ ~Precedes(near[i], near[order[1]])
        BY <1>4, <2>2, <2>3, <4>1
      <4> QED
        BY <2>1, <2>3, <4>2
    <3> QED
      BY <3>1
  <2>5. 1 \in B
    BY <1>5, <1>6, <2>3
  <2>6. PICK x \in B : x # 1
    BY <1>11, <2>5
  <2>7. x \in 1..n /\ 1 < x /\ near[order[x]] = near[order[1]]
    <3>1. x \in 1..m /\ near[order[x]] = near[order[1]]
      BY <1>5
    <3> QED
      BY <1>1, <1>6, <2>6, <3>1
  <2>8. order[x] \in places /\ order[x] # i /\ near[order[x]] = near[i]
    BY <1>1, <1>4, <2>2, <2>3, <2>4, <2>7
  <2>9. Precedes(near[i], near[order[x]])
    BY <2>1, <2>8
  <2> QED
    BY <1>7, <2>1, <2>8, <2>9
<1> QED
  BY <1>10, <1>11 DEF order, B

(* As SortedInOrder, of a list cut to its first members.                   *)
LEMMA KeptInOrder ==
  ASSUME MaxCandidates \in Nat, NEW s, NEW places, ArePlaces(places), NEW key, Keyed(places, key)
  PROVE  /\ DOMAIN Cal!Kept(Sorted(s, places, key)) = 1..Cal!Lesser(Cardinality(places), MaxCandidates)
         /\ \A i \in 1..Cal!Lesser(Cardinality(places), MaxCandidates) :
              Cal!Kept(Sorted(s, places, key))[i] = s[ByKey(places, key)[i]]
<1> DEFINE list == Sorted(s, places, key)
           n == Cardinality(places)
<1>1. n \in Nat /\ DOMAIN list = 1..n /\ Len(list) = n
      /\ \A i \in 1..n : list[i] = s[ByKey(places, key)[i]]
  <2>1. n \in Nat
    BY SortedInOrder
  <2>2. DOMAIN list = 1..n
    BY SortedInOrder
  <2>3. Len(list) = n
    BY SortedInOrder
  <2>4. \A i \in 1..n : list[i] = s[ByKey(places, key)[i]]
    BY SortedInOrder
  <2> QED
    BY <2>1, <2>2, <2>3, <2>4
<1> DEFINE m == Cal!Lesser(n, MaxCandidates)
<1>2. m \in 0..n
  <2> HIDE DEF n
  <2> QED
    BY <1>1 DEF Cal!Lesser
<1>3. Cal!Kept(list) = SubSeq(list, 1, m)
  <2> HIDE DEF list
  <2> QED
    BY <1>1 DEF Cal!Kept
<1> HIDE DEF list, n, m
<1>4. SubSeq(list, 1, m) = [i \in 1..m |-> list[i]]
  <2>1. SubSeq(list, 1, m) = [i \in 1..(1 + m - 1) |-> list[i + 1 - 1]]
    BY <1>1, <1>2
  <2> QED
    BY <1>1, <1>2, <2>1
<1>5. DOMAIN Cal!Kept(list) = 1..m /\ \A i \in 1..m : Cal!Kept(list)[i] = list[i]
  BY <1>3, <1>4
<1>6. \A i \in 1..m : Cal!Kept(list)[i] = s[ByKey(places, key)[i]]
  BY <1>1, <1>2, <1>5
<1> QED
  BY <1>5, <1>6 DEF list, n, m

(* What is resolved to from a list that is sorted and cut: the one place    *)
(* that is nearer than all others, or none.                                *)
LEMMA OneOrNone ==
  ASSUME MaxCandidates \in Nat, MaxCandidates >= 2, NEW s, NEW places, ArePlaces(places),
         NEW key, Keyed(places, key), NEW near, Keyed(places, near), SortsNear(places, key, near),
         NEW list, list = Cal!Kept(Sorted(s, places, key)),
         NEW B, B = AsFirst(places, key, near, Cal!Lesser(Cardinality(places), MaxCandidates)),
         NEW result, result = IF Len(Filtered(list, B)) = 1 THEN Filtered(list, B)[1] ELSE None
  PROVE  IF Nearest(places, near) = {} THEN result = None
         ELSE \E i \in Nearest(places, near) : result = s[i]
<1> DEFINE order == ByKey(places, key)
           n == Cardinality(places)
           m == Cal!Lesser(n, MaxCandidates)
<1>1. n \in Nat
  BY ByKeyInOrder
<1>2. m \in 0..n /\ (m >= 2 \/ m = n)
  <2> HIDE DEF n
  <2> QED
    BY <1>1 DEF Cal!Lesser
<1>3. \A i \in 1..m : list[i] = s[order[i]]
  BY KeptInOrder
<1>4. B = AsFirst(places, key, near, m)
  OBVIOUS
<1> HIDE DEF m
<1>5. B = {i \in 1..m : near[order[i]] = near[order[1]]}
  BY <1>4 DEF AsFirst
<1>6. /\ B = {1} => order[1] \in Nearest(places, near)
      /\ B # {1} => Nearest(places, near) = {}
  BY <1>2, <1>4, FirstIsNearest
<1> HIDE DEF order, n
<1>7. ArePlaces(B) /\ IsFiniteSet(B)
  <2>1. B \subseteq 1..m /\ m \in Nat
    BY <1>1, <1>2, <1>5
  <2>2. ArePlaces(B)
    BY <2>1, PlacesAreFinite
  <2> QED
    BY <2>2 DEF ArePlaces
<1>8. Len(Filtered(list, B)) = Cardinality(B)
  BY <1>7, FilteredInOrder
<1>9. CASE B = {1}
  <2>1. Cardinality(B) = 1
    BY <1>9, FS_Singleton
  <2>2. \A q \in B : 1 <= q
    BY <1>9
  <2>3. Filtered(list, B)[1] = list[1] /\ 1 \in 1..m
    BY <1>5, <1>7, <1>9, <2>2, FilteredFirst
  <2>4. result = s[order[1]]
    BY <1>3, <1>8, <2>1, <2>3
  <2> QED
    BY <1>6, <1>9, <2>4
<1>10. CASE B # {1}
  <2>1. ASSUME Cardinality(B) = 1 PROVE FALSE
    <3>1. PICK x : B = {x}
      BY <1>7, <2>1, FS_Singleton
    <3>2. x \in 1..m
      BY <1>5, <3>1
    <3>3. 1 \in 1..m
      BY <1>1, <1>2, <3>2
    <3>4. 1 \in B
      BY <1>5, <3>3
    <3> QED
      BY <1>10, <3>1, <3>4
  <2>2. result = None
    BY <1>8, <2>1
  <2> QED
    BY <1>6, <1>10, <2>2
<1> QED
  BY <1>9, <1>10

LEMMA AlikeInList ==
  ASSUME MaxCandidates \in Nat, MaxCandidates >= 2, NEW s, NEW places, ArePlaces(places),
         NEW key, Keyed(places, key), NEW near,
         NEW list, list = Cal!Kept(Sorted(s, places, key))
  PROVE  /\ AsFirst(places, key, near, Cal!Lesser(Cardinality(places), MaxCandidates))
              = {n \in DOMAIN list : near[ByKey(places, key)[n]] = near[ByKey(places, key)[1]]}
         /\ \A n \in DOMAIN list : /\ 1 \in DOMAIN list
                                   /\ ByKey(places, key)[n] \in places
                                   /\ list[n] = s[ByKey(places, key)[n]]
<1> DEFINE order == ByKey(places, key)
           n == Cardinality(places)
           m == Cal!Lesser(n, MaxCandidates)
<1>1. n \in Nat /\ order \in [1..n -> places]
  BY ByKeyInOrder
<1>2. m \in 0..n
  <2> HIDE DEF n
  <2> QED
    BY <1>1 DEF Cal!Lesser
<1>3. DOMAIN list = 1..m
  BY KeptInOrder
<1>4. \A i \in 1..m : list[i] = s[order[i]]
  BY KeptInOrder
<1> HIDE DEF order, n, m
<1>5. \A i \in 1..m : 1 \in 1..m /\ order[i] \in places
  BY <1>1, <1>2
<1>6. AsFirst(places, key, near, m) = {i \in 1..m : near[order[i]] = near[order[1]]}
  BY DEF AsFirst, order
<1> QED
  BY <1>3, <1>4, <1>5, <1>6 DEF order, n, m

LEMMA SomePlaces ==
  ASSUME NEW T, NEW s \in Seq(T), NEW places, places \subseteq DOMAIN s
  PROVE  ArePlaces(places)
<1>1. Len(s) \in Nat /\ places \subseteq 1..Len(s)
  OBVIOUS
<1> QED
  BY <1>1, PlacesAreFinite

LEMMA StageIsNumber ==
  ASSUME NEW delta, NEW forward, NEW backward,
         Cal!MatchStage(delta, forward, backward) # None
  PROVE  Cal!MatchStage(delta, forward, backward) \in Int
BY DEF Cal!MatchStage

(* What the ingest looks at when it resolves a moment.                     *)
NearNow(events, now, forward, backward, stage, fits, near) ==
  /\ stage = [i \in DOMAIN events |->
       Cal!MatchStage(events[i].start - now, Cal!AtLeast0(forward), Cal!AtLeast0(backward))]
  /\ fits = {i \in DOMAIN events : ~events[i].canceled /\ stage[i] # None}
  /\ near = [i \in fits |-> <<stage[i], Cal!Abs(events[i].start - now)>>]

LEMMA ResolvedNearNow ==
  ASSUME MaxCandidates \in Nat, MaxCandidates >= 2, NEW events \in Seq(Event), NEW now \in Int,
         NEW forward, NEW backward,
         NEW stage, NEW fits, NEW near,
         NearNow(events, now, forward, backward, stage, fits, near)
  PROVE  LET best == Nearest(fits, near)
             result == Cal!ResolveNearNow(events, now, forward, backward)
         IN  IF best = {} THEN result = None ELSE \E i \in best : result = events[i]
<1>0. /\ stage = [i \in DOMAIN events |->
           Cal!MatchStage(events[i].start - now, Cal!AtLeast0(forward), Cal!AtLeast0(backward))]
      /\ fits = {i \in DOMAIN events : ~events[i].canceled /\ stage[i] # None}
      /\ near = [i \in fits |-> <<stage[i], Cal!Abs(events[i].start - now)>>]
  BY DEF NearNow
<1> DEFINE result == Cal!ResolveNearNow(events, now, forward, backward)
           away(i) == Cal!Abs(events[i].start - now)
           key == [i \in fits |-> <<stage[i], away(i), events[i].start, events[i].title>>]
           list == Cal!Kept(Sorted(events, fits, key))
           B == AsFirst(fits, key, near, Cal!Lesser(Cardinality(fits), MaxCandidates))
<1>1. ArePlaces(fits) /\ fits \subseteq DOMAIN events
  BY <1>0, SomePlaces
<1>2. \A i \in fits : stage[i] \in Int /\ away(i) \in Int /\ events[i].start \in Int /\ events[i].title \in Int
  <2>1. \A i \in DOMAIN events : events[i] \in Event
    OBVIOUS
  <2>2. \A i \in fits : events[i].start \in Int /\ events[i].title \in Int
    BY <1>0, <2>1 DEF Event
  <2>3. \A i \in fits : stage[i] \in Int
    BY <1>0, StageIsNumber
  <2>4. \A n \in Int : Cal!Abs(n) \in Int
    BY DEF Cal!Abs
  <2>5. \A i \in fits : events[i].start - now \in Int
    BY <2>2
  <2> QED
    BY <2>2, <2>3, <2>4, <2>5
<1> HIDE DEF away
<1>3. /\ \A i \in fits : key[i] \in [1..4 -> Int] /\ near[i] \in [1..2 -> Int]
      /\ \A i \in fits : near[i] = <<stage[i], away(i)>>
  BY <1>0, <1>2 DEF away
<1>4. Keyed(fits, key) /\ Keyed(fits, near)
  BY <1>3 DEF Keyed
<1>5. SortsNear(fits, key, near)
  <2> SUFFICES ASSUME NEW p \in fits, NEW q \in fits, Before(key, p, q), Precedes(near[q], near[p])
               PROVE  FALSE
    BY DEF SortsNear
  <2>1. stage[q] < stage[p] \/ (stage[q] = stage[p] /\ away(q) < away(p))
    <3>1. PICK x \in 1..2 : near[q][x] < near[p][x] /\ \A j \in 1..(x - 1) : near[q][j] = near[p][j]
      BY <1>3 DEF Precedes
    <3>2. near[q][1] = stage[q] /\ near[q][2] = away(q) /\ near[p][1] = stage[p] /\ near[p][2] = away(p)
      BY <1>3
    <3>3. CASE x = 1
      BY <3>1, <3>2, <3>3
    <3>4. CASE x = 2
      BY <3>1, <3>2, <3>4
    <3> QED
      BY <3>1, <3>3, <3>4
  <2>2. key[q][1] = stage[q] /\ key[q][2] = away(q) /\ key[p][1] = stage[p] /\ key[p][2] = away(p)
    OBVIOUS
  <2>3. Precedes(key[p], key[q]) \/ key[p] = key[q]
    BY DEF Before
  <2>4. stage[p] < stage[q] \/ (stage[p] = stage[q] /\ away(p) <= away(q))
    <3>1. CASE key[p] = key[q]
      BY <1>2, <2>2, <3>1
    <3>2. CASE Precedes(key[p], key[q])
      <4>1. PICK x \in 1..4 : key[p][x] < key[q][x] /\ \A j \in 1..(x - 1) : key[p][j] = key[q][j]
        BY <1>3, <3>2 DEF Precedes
      <4> HIDE DEF key
      <4>2. CASE x = 1
        BY <2>2, <4>1, <4>2
      <4>3. CASE x = 2
        BY <1>2, <2>2, <4>1, <4>3
      <4>4. CASE x > 2
        <5>1. key[p][1] = key[q][1] /\ key[p][2] = key[q][2]
          BY <4>1, <4>4
        <5> QED
          BY <1>2, <2>2, <5>1
      <4> QED
        BY <4>1, <4>2, <4>3, <4>4
    <3> QED
      BY <2>3, <3>1, <3>2
  <2> QED
    BY <1>2, <2>1, <2>4
<1>6. Cal!NearNowCandidates(events, now, forward, backward) = list
  BY <1>0, SameSorting DEF Cal!NearNowCandidates, away
<1> HIDE DEF key, list
<1>7. list = Cal!Kept(Sorted(events, fits, key))
  BY DEF list
<1>8. B = {n \in DOMAIN list : near[ByKey(fits, key)[n]] = near[ByKey(fits, key)[1]]}
  BY <1>1, <1>4, <1>7, AlikeInList
<1>9. \A n \in DOMAIN list :
        /\ 1 \in DOMAIN list
        /\ ByKey(fits, key)[n] \in fits
        /\ list[n] = events[ByKey(fits, key)[n]]
  BY <1>1, <1>4, <1>7, AlikeInList
<1> HIDE DEF B
<1> DEFINE stageOf(e) == Cal!MatchStage(e.start - now, Cal!AtLeast0(forward), Cal!AtLeast0(backward))
           asGood(e) == /\ stageOf(e) = stageOf(list[1])
                        /\ Cal!Abs(e.start - now) = Cal!Abs(list[1].start - now)
           alike == {n \in DOMAIN list : asGood(list[n])}
<1>10. result = IF Len(Filtered(list, alike)) = 1 THEN Filtered(list, alike)[1] ELSE None
  BY <1>6, SameFiltering DEF Cal!ResolveNearNow, result
<1> HIDE DEF result
<1>11. \A i \in fits : stageOf(events[i]) = stage[i] /\ Cal!Abs(events[i].start - now) = away(i)
  BY <1>0 DEF away
<1> HIDE DEF stageOf
<1>12. alike = B
  <2>1. ASSUME NEW n \in DOMAIN list
        PROVE  asGood(list[n]) <=> near[ByKey(fits, key)[n]] = near[ByKey(fits, key)[1]]
    <3> DEFINE i == ByKey(fits, key)[n]
               j == ByKey(fits, key)[1]
    <3>1. i \in fits /\ j \in fits /\ list[n] = events[i] /\ list[1] = events[j]
      BY <1>9
    <3>2. near[i] = <<stage[i], away(i)>> /\ near[j] = <<stage[j], away(j)>>
      BY <1>3, <3>1
    <3> HIDE DEF i, j
    <3>3. asGood(list[n]) <=> stage[i] = stage[j] /\ away(i) = away(j)
      BY <1>11, <3>1
    <3>4. near[i] = near[j] <=> stage[i] = stage[j] /\ away(i) = away(j)
      <4>1. /\ near[i][1] = stage[i] /\ near[i][2] = away(i)
            /\ near[j][1] = stage[j] /\ near[j][2] = away(j)
        BY <3>2
      <4> QED
        BY <3>2, <4>1
    <3> QED
      BY <3>3, <3>4 DEF i, j
  <2> HIDE DEF asGood
  <2> QED
    BY <1>8, <2>1
<1> HIDE DEF alike
<1>13. result = IF Len(Filtered(list, B)) = 1 THEN Filtered(list, B)[1] ELSE None
  BY <1>10, <1>12
<1>14. B = AsFirst(fits, key, near, Cal!Lesser(Cardinality(fits), MaxCandidates))
  BY DEF B
<1>15. IF Nearest(fits, near) = {} THEN result = None
       ELSE \E i \in Nearest(fits, near) : result = events[i]
  BY <1>1, <1>4, <1>5, <1>7, <1>13, <1>14, OneOrNone
<1> QED
  BY <1>15 DEF result

(* What is looked at when a recording is resolved by its time.             *)
NearTime(events, at, window, runs, near) ==
  /\ runs = {i \in DOMAIN events : Cal!Distance(events[i], at) <= Cal!AtLeast0(window)}
  /\ near = [i \in runs |-> <<Cal!Distance(events[i], at)>>]

LEMMA DistanceIsNumber ==
  ASSUME NEW e \in Event, NEW at \in Int
  PROVE  Cal!Distance(e, at) \in Nat /\ e.start \in Int /\ e.title \in Int /\ e.end \in Int
<1>1. e.start \in Int /\ e.title \in Int /\ e.end \in Int
  BY DEF Event
<1>2. \A n \in Int : Cal!Abs(n) \in Nat
  BY DEF Cal!Abs
<1>3. e.start - at \in Int
  BY <1>1
<1> QED
  BY <1>1, <1>2, <1>3 DEF Cal!Distance

LEMMA ResolvedNearTime ==
  ASSUME MaxCandidates \in Nat, MaxCandidates >= 2, NEW events \in Seq(Event), NEW at \in Int,
         NEW window, NEW runs, NEW near, NearTime(events, at, window, runs, near)
  PROVE  LET best == Nearest(runs, near)
             result == Cal!ResolveNearTimestamp(events, at, window)
         IN  IF best = {} THEN result = None ELSE \E i \in best : result = events[i]
<1>0. /\ runs = {i \in DOMAIN events : Cal!Distance(events[i], at) <= Cal!AtLeast0(window)}
      /\ near = [i \in runs |-> <<Cal!Distance(events[i], at)>>]
  BY DEF NearTime
<1> DEFINE result == Cal!ResolveNearTimestamp(events, at, window)
           away(i) == Cal!Distance(events[i], at)
           key == [i \in runs |-> <<away(i), events[i].start, events[i].title>>]
           list == Cal!Kept(Sorted(events, runs, key))
           B == AsFirst(runs, key, near, Cal!Lesser(Cardinality(runs), MaxCandidates))
<1>1. ArePlaces(runs) /\ runs \subseteq DOMAIN events
  BY <1>0, SomePlaces
<1>2. \A i \in runs : away(i) \in Nat /\ events[i].start \in Int /\ events[i].title \in Int
  <2>1. \A i \in runs : events[i] \in Event
    BY <1>1
  <2> QED
    BY <2>1, DistanceIsNumber
<1> HIDE DEF away
<1>3. /\ \A i \in runs : key[i] \in [1..3 -> Int] /\ near[i] \in [1..1 -> Int]
      /\ \A i \in runs : near[i] = <<away(i)>>
  BY <1>0, <1>2 DEF away
<1>4. Keyed(runs, key) /\ Keyed(runs, near)
  BY <1>3 DEF Keyed
<1>5. SortsNear(runs, key, near)
  <2> SUFFICES ASSUME NEW p \in runs, NEW q \in runs, Before(key, p, q), Precedes(near[q], near[p])
               PROVE  FALSE
    BY DEF SortsNear
  <2>1. away(q) < away(p)
    <3>1. PICK x \in 1..1 : near[q][x] < near[p][x]
      BY <1>3 DEF Precedes
    <3> QED
      BY <1>3, <3>1
  <2>2. key[q][1] = away(q) /\ key[p][1] = away(p)
    OBVIOUS
  <2>3. Precedes(key[p], key[q]) \/ key[p] = key[q]
    BY DEF Before
  <2>4. away(p) <= away(q)
    <3>1. CASE key[p] = key[q]
      BY <1>2, <2>2, <3>1
    <3>2. CASE Precedes(key[p], key[q])
      <4>1. PICK x \in 1..3 : key[p][x] < key[q][x] /\ \A j \in 1..(x - 1) : key[p][j] = key[q][j]
        BY <1>3, <3>2 DEF Precedes
      <4> HIDE DEF key
      <4>2. CASE x = 1
        BY <1>2, <2>2, <4>1, <4>2
      <4>3. CASE x > 1
        <5>1. key[p][1] = key[q][1]
          BY <4>1, <4>3
        <5> QED
          BY <1>2, <2>2, <5>1
      <4> QED
        BY <4>1, <4>2, <4>3
    <3> QED
      BY <2>3, <3>1, <3>2
  <2> QED
    BY <1>2, <2>1, <2>4
<1>6. Cal!NearTimestampCandidates(events, at, window) = list
  BY <1>0, SameSorting DEF Cal!NearTimestampCandidates, away
<1> HIDE DEF key, list
<1>7. list = Cal!Kept(Sorted(events, runs, key))
  BY DEF list
<1>8. B = {n \in DOMAIN list : near[ByKey(runs, key)[n]] = near[ByKey(runs, key)[1]]}
  BY <1>1, <1>4, <1>7, AlikeInList
<1>9. \A n \in DOMAIN list :
        /\ 1 \in DOMAIN list
        /\ ByKey(runs, key)[n] \in runs
        /\ list[n] = events[ByKey(runs, key)[n]]
  BY <1>1, <1>4, <1>7, AlikeInList
<1> HIDE DEF B
<1> DEFINE alike == {n \in DOMAIN list : Cal!Distance(list[n], at) = Cal!Distance(list[1], at)}
<1>10. result = IF Len(Filtered(list, alike)) = 1 THEN Filtered(list, alike)[1] ELSE None
  BY <1>6, SameFiltering DEF Cal!ResolveNearTimestamp, result
<1> HIDE DEF result
<1>11. alike = B
  <2>1. ASSUME NEW n \in DOMAIN list
        PROVE  Cal!Distance(list[n], at) = Cal!Distance(list[1], at)
                 <=> near[ByKey(runs, key)[n]] = near[ByKey(runs, key)[1]]
    <3> DEFINE i == ByKey(runs, key)[n]
               j == ByKey(runs, key)[1]
    <3>1. i \in runs /\ j \in runs /\ list[n] = events[i] /\ list[1] = events[j]
      BY <1>9
    <3>2. near[i] = <<away(i)>> /\ near[j] = <<away(j)>>
      BY <1>3, <3>1
    <3> HIDE DEF i, j
    <3>3. near[i] = near[j] <=> away(i) = away(j)
      <4>1. near[i][1] = away(i) /\ near[j][1] = away(j)
        BY <3>2
      <4> QED
        BY <3>2, <4>1
    <3> QED
      BY <3>1, <3>3 DEF i, j, away
  <2> QED
    BY <1>8, <2>1
<1> HIDE DEF alike
<1>12. result = IF Len(Filtered(list, B)) = 1 THEN Filtered(list, B)[1] ELSE None
  BY <1>10, <1>11
<1>13. B = AsFirst(runs, key, near, Cal!Lesser(Cardinality(runs), MaxCandidates))
  BY DEF B
<1>14. IF Nearest(runs, near) = {} THEN result = None
       ELSE \E i \in Nearest(runs, near) : result = events[i]
  BY <1>1, <1>4, <1>5, <1>7, <1>12, <1>13, OneOrNone
<1> QED
  BY <1>14 DEF result

(* A recording is filed under a meeting only if no other fits as well,     *)
(* however many there are and in whatever order they are listed, and       *)
(* though the list is cut: two candidates that are kept settle it. *)
LEMMA ResolvedToTheOnlyFit ==
  ASSUME MaxCandidates \in Nat, MaxCandidates >= 2, NEW events \in Seq(Event), NEW now \in Int,
         NEW forward, NEW backward, NEW window
  PROVE  Cal!OnlyFitOrNone(events, now, forward, backward, window)
<1> DEFINE stageOf(e) == Cal!MatchStage(e.start - now, Cal!AtLeast0(forward), Cal!AtLeast0(backward))
           stage == [i \in DOMAIN events |-> stageOf(events[i])]
           away(i) == Cal!Abs(events[i].start - now)
           fits == {i \in DOMAIN events : ~events[i].canceled /\ stageOf(events[i]) # None}
           near == [i \in fits |-> <<stageOf(events[i]), away(i)>>]
           best == {i \in fits : \A j \in fits \ {i} :
                      Cal!Precedes(<<stageOf(events[i]), away(i)>>, <<stageOf(events[j]), away(j)>>)}
           runs == {i \in DOMAIN events : Cal!Distance(events[i], now) <= Cal!AtLeast0(window)}
           far == [i \in runs |-> <<Cal!Distance(events[i], now)>>]
           closest == {i \in runs : \A j \in runs \ {i} :
                         Cal!Distance(events[i], now) < Cal!Distance(events[j], now)}
           Is(result, s) == IF s = {} THEN result = None ELSE \E i \in s : result = events[i]
<1>1. NearNow(events, now, forward, backward, stage, fits, near)
  BY DEF NearNow
<1>2. NearTime(events, now, window, runs, far)
  BY DEF NearTime
<1>3. best = Nearest(fits, near)
  <2>1. \A x, y : Cal!Precedes(x, y) <=> Precedes(x, y)
    BY DEF Cal!Precedes, Precedes
  <2> HIDE DEF stageOf, away
  <2> HIDE DEF fits
  <2>2. \A i, j \in fits : near[i] = <<stageOf(events[i]), away(i)>> /\ near[j] = <<stageOf(events[j]), away(j)>>
    OBVIOUS
  <2> HIDE DEF near
  <2> QED
    BY <2>1, <2>2 DEF Nearest
<1>4. closest = Nearest(runs, far)
  <2>1. ASSUME NEW a \in Int, NEW b \in Int PROVE Precedes(<<a>>, <<b>>) <=> a < b
    <3>1. DOMAIN <<a>> = {1} /\ <<a>>[1] = a /\ <<b>>[1] = b
      OBVIOUS
    <3>2. \A j : j \notin 1..(1 - 1)
      OBVIOUS
    <3> QED
      BY <3>1, <3>2 DEF Precedes
  <2>2. \A i \in runs : Cal!Distance(events[i], now) \in Int /\ far[i] = <<Cal!Distance(events[i], now)>>
    <3>1. \A i \in DOMAIN events : events[i] \in Event
      OBVIOUS
    <3> QED
      BY <3>1, DistanceIsNumber
  <2> HIDE DEF runs, far
  <2> QED
    BY <2>1, <2>2 DEF Nearest
<1>5. Is(Cal!ResolveNearNow(events, now, forward, backward), Nearest(fits, near))
  <2> HIDE DEF stage, fits, near
  <2> QED
    BY <1>1, ResolvedNearNow
<1>6. Is(Cal!ResolveNearTimestamp(events, now, window), Nearest(runs, far))
  <2> HIDE DEF runs, far
  <2> QED
    BY <1>2, ResolvedNearTime
<1>7. Is(Cal!ResolveNearNow(events, now, forward, backward), best)
  BY <1>3, <1>5
<1>8. Is(Cal!ResolveNearTimestamp(events, now, window), closest)
  BY <1>4, <1>6
<1> QED
  BY <1>7, <1>8 DEF Cal!OnlyFitOrNone

-----------------------------------------------------------------------------
(* Events under way *)

LEMMA DayIsCyclic ==
  ASSUME NEW D \in Nat \ {0}, NEW x \in 0..(D - 1)
  PROVE  x % D = x /\ (x - D) % D = x
<1>1. x % D = x
  OBVIOUS
<1>2. (x - D) % D = x
  OBVIOUS
<1> QED
  BY <1>1, <1>2

LEMMA OneSorted ==
  ASSUME NEW s, NEW i \in Int, NEW key, Keyed({i}, key)
  PROVE  Sorted(s, {i}, key) # << >> /\ Sorted(s, {i}, key)[1] = s[i]
<1>1. Cardinality({i}) = 1 /\ ArePlaces({i})
  BY FS_Singleton DEF ArePlaces
<1>2. ByKey({i}, key) \in [1..Cardinality({i}) -> {i}]
  BY <1>1, SortedInOrder
<1>3. Len(Sorted(s, {i}, key)) = 1
  BY <1>1, SortedInOrder
<1>4. \A n \in 1..Cardinality({i}) : Sorted(s, {i}, key)[n] = s[ByKey({i}, key)[n]]
  BY <1>1, SortedInOrder
<1>5. ByKey({i}, key)[1] = i /\ Sorted(s, {i}, key)[1] = s[ByKey({i}, key)[1]]
  BY <1>1, <1>2, <1>4
<1> QED
  BY <1>3, <1>5


(* A meeting that icalBuddy lists, and that is under way, is the one that  *)
(* is found, at every minute of it, past midnight too.                     *)
LEMMA TheOneUnderWayIsFound ==
  ASSUME MaxCandidates \in Nat, MaxCandidates >= 2, DayLength \in Nat \ {0}, None \notin Event,
         NEW lines \in Seq(Line), NEW now \in Int
  PROVE  Cal!UnderWayIsFound(lines, 0, DayLength, now)
<1> DEFINE events == Cal!ICalBuddyEvents(lines, 0, DayLength)
           running == {i \in DOMAIN events :
                         /\ 0 + lines[i].from <= now
                         /\ now <= 0 + lines[i].from + ((lines[i].to - lines[i].from - 1) % DayLength)}
           apart == \A i, j \in DOMAIN events : i # j =>
                      events[i].end <= events[j].start \/ events[j].end <= events[i].start
<1>1. \A i \in DOMAIN lines : /\ lines[i].title \in Int
                              /\ lines[i].from \in 0..(DayLength - 1) /\ lines[i].to \in 0..(DayLength - 1)
  <2>1. \A i \in DOMAIN lines : lines[i] \in Line
    OBVIOUS
  <2> QED
    BY <2>1 DEF Line
<1>2. /\ Len(lines) \in Nat /\ DOMAIN lines = 1..Len(lines) /\ DOMAIN events = 1..Len(lines)
      /\ \A i \in DOMAIN lines :
           events[i] = [title |-> lines[i].title, canceled |-> FALSE, start |-> 0 + lines[i].from,
                        end |-> 0 + lines[i].to + (IF lines[i].to <= lines[i].from THEN DayLength ELSE 0)]
  BY DEF Cal!ICalBuddyEvents
<1>3. \A i \in DOMAIN lines :
        /\ events[i] \in Event /\ ~events[i].canceled
        /\ events[i].start = lines[i].from /\ events[i].start < events[i].end
  <2> SUFFICES ASSUME NEW i \in DOMAIN lines
               PROVE  /\ events[i] \in Event /\ ~events[i].canceled
                      /\ events[i].start = lines[i].from /\ events[i].start < events[i].end
    OBVIOUS
  <2> DEFINE end == 0 + lines[i].to + (IF lines[i].to <= lines[i].from THEN DayLength ELSE 0)
  <2>1. end \in Int /\ lines[i].from \in Int /\ 0 + lines[i].from = lines[i].from
    BY <1>1
  <2>2. lines[i].from < end
    BY <1>1
  <2>3. events[i] = [title |-> lines[i].title, canceled |-> FALSE, start |-> 0 + lines[i].from,
                     end |-> end]
    BY <1>2
  <2> HIDE DEF end, events
  <2> QED
    BY <1>1, <2>1, <2>2, <2>3 DEF Event
<1>4. events \in Seq(Event)
  <2>1. events = [i \in 1..Len(lines) |-> events[i]]
    BY <1>2 DEF Cal!ICalBuddyEvents
  <2> HIDE DEF events
  <2> QED
    BY <1>2, <1>3, <2>1
<1>5. \A i \in running : i \in DOMAIN lines /\ events[i].start <= now /\ now < events[i].end
  <2> SUFFICES ASSUME NEW i \in running
               PROVE  i \in DOMAIN lines /\ events[i].start <= now /\ now < events[i].end
    OBVIOUS
  <2> DEFINE from == lines[i].from
             to == lines[i].to
             length == (to - from - 1) % DayLength
  <2>1. /\ from \in 0..(DayLength - 1) /\ to \in 0..(DayLength - 1) /\ i \in DOMAIN lines
        /\ from <= now /\ now <= from + length
        /\ events[i].start = from
        /\ events[i].end = to + (IF to <= from THEN DayLength ELSE 0)
    <3>1. i \in DOMAIN lines /\ 0 + from <= now /\ now <= 0 + from + length
      BY <1>2
    <3>2. from \in 0..(DayLength - 1) /\ to \in 0..(DayLength - 1)
      BY <1>1, <3>1
    <3>3. length \in Int
      BY <3>2
    <3>4. events[i] = [title |-> lines[i].title, canceled |-> FALSE, start |-> 0 + from,
                       end |-> 0 + to + (IF to <= from THEN DayLength ELSE 0)]
      BY <1>2, <3>1
    <3> HIDE DEF events, running, from, to, length
    <3>5. events[i].start = 0 + from /\ events[i].end = 0 + to + (IF to <= from THEN DayLength ELSE 0)
      BY <3>4
    <3> QED
      BY <3>1, <3>2, <3>3, <3>5
  <2> HIDE DEF events, running, from, to
  <2>2. CASE to <= from
    <3>1. to - from - 1 + DayLength \in 0..(DayLength - 1)
      BY <2>1, <2>2
    <3>2. length = to - from - 1 + DayLength
      <4> DEFINE x == to - from - 1 + DayLength
      <4>1. to - from - 1 = x - DayLength
        BY <2>1
      <4> HIDE DEF x
      <4>2. (x - DayLength) % DayLength = x
        BY <3>1, DayIsCyclic DEF x
      <4> QED
        BY <4>1, <4>2 DEF x
    <3> QED
      BY <2>1, <2>2, <3>2
  <2>3. CASE from < to
    <3>1. to - from - 1 \in 0..(DayLength - 1)
      BY <2>1, <2>3
    <3>2. length = to - from - 1
      BY <3>1, DayIsCyclic
    <3> QED
      BY <2>1, <2>3, <3>2
  <2> QED
    BY <2>1, <2>2, <2>3
<1> HIDE DEF events, running
<1> SUFFICES ASSUME apart, NEW i \in running
             PROVE  /\ Cal!ResolveNearTimestamp(events, now, 0) = events[i]
                    /\ Cal!SelectNowOrNext(events, now, DayLength) = events[i]
  BY DEF Cal!UnderWayIsFound, events, running
<1>6. i \in DOMAIN events /\ i \in Int /\ events[i].start <= now /\ now < events[i].end
  BY <1>2, <1>5
<1>7. \A j \in DOMAIN events \ {i} : now < events[j].start \/ events[j].end <= now
  <2> SUFFICES ASSUME NEW j \in DOMAIN events \ {i}
               PROVE  now < events[j].start \/ events[j].end <= now
    OBVIOUS
  <2>1. /\ events[i].start \in Int /\ events[i].end \in Int
        /\ events[j].start \in Int /\ events[j].end \in Int
    BY <1>2, <1>3, <1>6, DistanceIsNumber
  <2>2. events[i].end <= events[j].start \/ events[j].end <= events[i].start
    BY <1>6
  <2> QED
    BY <1>6, <2>1, <2>2
<1>8. \A j \in DOMAIN events : /\ events[j].start \in Int /\ events[j].end \in Int
                               /\ events[j].title \in Int /\ events[j].start < events[j].end
  BY <1>2, <1>3, DistanceIsNumber
<1>9. Cal!ResolveNearTimestamp(events, now, 0) = events[i]
  <2> DEFINE runs == {j \in DOMAIN events : Cal!Distance(events[j], now) <= Cal!AtLeast0(0)}
             near == [j \in runs |-> <<Cal!Distance(events[j], now)>>]
  <2>1. NearTime(events, now, 0, runs, near)
    BY DEF NearTime
  <2>2. runs = {i}
    <3>1. Cal!AtLeast0(0) = 0 /\ Cal!Distance(events[i], now) = 0
      BY <1>6 DEF Cal!AtLeast0, Cal!Distance
    <3>2. ASSUME NEW j \in DOMAIN events \ {i} PROVE ~(Cal!Distance(events[j], now) <= 0)
      BY <1>7, <1>8 DEF Cal!Distance, Cal!Abs
    <3> QED
      BY <1>6, <3>1, <3>2
  <2> HIDE DEF runs, near
  <2>3. Nearest(runs, near) = {i}
    BY <2>2 DEF Nearest
  <2>4. IF Nearest(runs, near) = {} THEN Cal!ResolveNearTimestamp(events, now, 0) = None
        ELSE \E j \in Nearest(runs, near) : Cal!ResolveNearTimestamp(events, now, 0) = events[j]
    BY <1>4, <2>1, ResolvedNearTime
  <2> QED
    BY <2>3, <2>4
<1>10. Cal!SelectNowOrNext(events, now, DayLength) = events[i]
  <2> DEFINE key == [j \in DOMAIN events |-> <<events[j].start, events[j].title>>]
             ongoing == {j \in DOMAIN events : ~events[j].canceled /\ events[j].start <= now
                                               /\ now < events[j].end}
             current == Cal!FirstOf(Sorted(events, ongoing, key))
  <2>1. ongoing = {i}
    <3>1. i \in ongoing
      BY <1>2, <1>3, <1>6
    <3>2. \A j \in DOMAIN events \ {i} : j \notin ongoing
      BY <1>7, <1>8
    <3> QED
      BY <3>1, <3>2
  <2>2. key[i] \in [1..2 -> Int]
    BY <1>6, <1>8
  <2>3. Keyed({i}, key)
    BY <2>2 DEF Keyed
  <2> HIDE DEF key, ongoing
  <2>4. current = events[i]
    BY <1>6, <2>1, <2>3, OneSorted DEF Cal!FirstOf
  <2>5. current # None
    BY <1>2, <1>3, <1>6, <2>4
  <2>6. Cal!SelectNowOrNext(events, now, DayLength) = current
    BY <2>5, SameSorting DEF Cal!SelectNowOrNext, key, ongoing
  <2> QED
    BY <2>4, <2>6
<1> QED
  BY <1>9, <1>10

(* The calendar finds the meeting: whatever the backends reply, however    *)
(* many events there are, and at whatever minute it is asked.              *)
THEOREM CalendarsAnswer == PartsSpec => []CalendarAnswers
<1>1. Asked => CalendarAnswers
  <2>1. ASSUME Asked, part = "match"
        PROVE  Cal!OnlyFitOrNone(input.events, input.now, input.reach.forward,
                                 input.reach.backward, input.reach.window)
    <3>1. input \in Inputs.match
      BY <2>1 DEF Asked, Questions
    <3> QED
      BY <3>1, CalendarAssumption, EventsAssumption, ResolvedToTheOnlyFit
  <2>2. ASSUME Asked, part = "underway"
        PROVE  Cal!UnderWayIsFound(input.lines, 0, DayLength, input.now)
    <3>1. input \in Inputs.underway
      BY <2>2 DEF Asked, Questions
    <3> QED
      BY <3>1, CalendarAssumption, EventsAssumption, TheOneUnderWayIsFound
  <2>3. Cal!FetchFindsEvents(input.env, input.jxa, input.ical)
    BY CalendarAssumption, FallbackFindsEvents
  <2>4. ASSUME Asked, part = "link" PROVE Cal!PlatformIsPreferred(input)
    <3>1. input \in Inputs.link
      BY <2>4 DEF Asked, Questions
    <3> QED
      BY <3>1, EventsAssumption, LinkIsOfThePreferred DEF IsList
  <2> QED
    BY <2>1, <2>2, <2>3, <2>4 DEF CalendarAnswers
<1> QED
  BY <1>1, AlwaysAsked, PTL

-----------------------------------------------------------------------------
(* Labels *)

(* What may label: the models that are tried. *)
Tried(models, token, cached) == UNION {Attempts(models[i], token, cached) : i \in DOMAIN models}

LEMMA LabellerIsTried ==
  ASSUME NEW models \in Seq(STRING), NEW token, NEW cached, NEW works, NEW fallback
  PROVE  LET by == Labeller(models, token, cached, works, fallback)
             working == Tried(models, token, cached) \cap works
         IN  /\ working # {} => by \in working
             /\ working = {} => by = Nobody \/ (fallback /\ by = Embedding)
<1> DEFINE W(m) == Attempts(m, token, cached) \cap works
           useful == {i \in DOMAIN models : W(models[i]) # {}}
           earliest == CHOOSE i \in useful : \A j \in useful : i <= j
           m == models[earliest]
           online == <<"pyannote", m>>
           by == Labeller(models, token, cached, works, fallback)
           working == Tried(models, token, cached) \cap works
<1>1. useful # {} <=> working # {}
  BY DEF Tried
<1>2. by = CASE useful # {} /\ online \in W(m) -> online
             [] useful # {} /\ online \notin W(m) -> <<"local", m>>
             [] useful = {} /\ fallback /\ Embedding \in works -> Embedding
             [] OTHER -> Nobody
  BY DEF Labeller
<1>3. ASSUME useful # {} PROVE by \in working
  <2>1. useful \subseteq Nat
    OBVIOUS
  <2>2. \E i \in useful : \A j \in useful : i <= j
    BY <1>3, <2>1, Least
  <2>3. earliest \in useful
    BY <2>2
  <2> HIDE DEF earliest
  <2>4. W(m) # {} /\ W(m) \subseteq working
    BY <2>3 DEF Tried
  <2>5. W(m) \subseteq {<<"pyannote", m>>, <<"local", m>>}
    BY DEF Attempts
  <2> HIDE DEF W, working, m, useful, by
  <2>6. CASE online \in W(m)
    BY <1>2, <1>3, <2>4, <2>6
  <2>7. CASE online \notin W(m)
    BY <1>2, <1>3, <2>4, <2>5, <2>7
  <2> QED
    BY <2>6, <2>7
<1>4. ASSUME useful = {} PROVE by = Nobody \/ (fallback /\ by = Embedding)
  <2> HIDE DEF W, working, m, useful, by
  <2> QED
    BY <1>2, <1>4
<1> QED
  BY <1>1, <1>3, <1>4

(* Labels come only from a backend the options allow, and that worked.     *)
THEOREM LabelledByWhomIsAllowed ==
  ASSUME NEW args, NEW models \in Seq(STRING), NEW token, NEW cached, NEW works
  PROVE  LabelledByAllowed(args, models, token, cached, works)
<1> DEFINE manifest == Manifest(args, models, token, cached, works)
           tried == {<<"pyannote", models[i]>> : i \in IF token THEN DOMAIN models ELSE {}}
                    \cup {<<"local", m>> : m \in cached \cap {models[i] : i \in DOMAIN models}}
           fallback == args.embedding /\ ~args.noEmbedding /\ ~args.require
           labeller == Labeller(models, token, cached, works, fallback)
           by == IF args.enabled THEN labeller ELSE Nobody
           working == tried \cap works
<1>1. tried = Tried(models, token, cached)
  <2>1. \A m : Attempts(m, token, cached) =
          {x \in {<<"pyannote", m>>} : token} \cup {x \in {<<"local", m>>} : m \in cached}
    BY DEF Attempts
  <2> QED
    BY <2>1 DEF Tried
<1>2. /\ working # {} => labeller \in working
      /\ working = {} => labeller = Nobody \/ (fallback /\ labeller = Embedding)
  <2>1. /\ Tried(models, token, cached) \cap works # {} =>
             labeller \in Tried(models, token, cached) \cap works
        /\ Tried(models, token, cached) \cap works = {} =>
             labeller = Nobody \/ (fallback /\ labeller = Embedding)
    <3> HIDE DEF fallback
    <3> QED
      BY LabellerIsTried, Zenon
  <2> QED
    BY <1>1, <2>1
<1>3. Embedding \notin working /\ Nobody \notin working /\ Embedding # Nobody
  BY DEF Embedding, Nobody
<1>4. manifest = IF args.enabled /\ by = Nobody /\ ~args.allow THEN << >>
                 ELSE <<[by |-> by, succeeded |-> args.enabled /\ ~(args.enabled /\ by = Nobody)]>>
  BY DEF Manifest
<1>5. ASSUME manifest # << >>
      PROVE  manifest[1].by = by /\ (manifest[1].succeeded <=> args.enabled /\ by # Nobody)
  <2> DEFINE failed == args.enabled /\ by = Nobody
             r == [by |-> by, succeeded |-> args.enabled /\ ~failed]
  <2>1. manifest = <<r>>
    BY <1>4, <1>5
  <2>2. manifest[1] = r
    <3> HIDE DEF r, manifest
    <3> QED
      BY <2>1
  <2> HIDE DEF by, manifest
  <2>3. r.by = by /\ r.succeeded = (args.enabled /\ ~failed)
    OBVIOUS
  <2>4. (args.enabled /\ ~failed) <=> args.enabled /\ by # Nobody
    OBVIOUS
  <2> HIDE DEF r, failed
  <2> QED
    BY <2>2, <2>3, <2>4
<1>6. manifest = << >> => args.enabled /\ by = Nobody /\ ~args.allow
  BY <1>4
<1> HIDE DEF manifest, labeller, tried, working
<1>7. manifest = << >> => args.enabled /\ ~args.allow /\ working = {}
  BY <1>2, <1>3, <1>6
<1>8. ASSUME manifest # << >>
      PROVE  /\ manifest[1].succeeded <=> manifest[1].by # Nobody
             /\ manifest[1].by = Embedding => ~args.require /\ ~args.noEmbedding /\ working = {}
             /\ manifest[1].by \notin {Embedding, Nobody} => manifest[1].by \in working
  BY <1>2, <1>3, <1>5, <1>8
<1> QED
  BY <1>7, <1>8 DEF LabelledByAllowed, manifest, tried, working

(* Windows of sound that have a speaker.                                   *)
Marked == [start : Int, end : Int, speaker : STRING]

(* A merged window spans those from one to another, of one speaker.        *)
Spans(w, windows, a, b) ==
  /\ a <= b /\ w.start = windows[a].start /\ w.end = windows[b].end
  /\ \A c \in a..b : windows[c].speaker = w.speaker
MergedSoFar(m, n, windows) ==
  /\ m \in Seq(Marked)
  /\ n > 0 => m # << >> /\ \E a \in 1..n : Spans(m[Len(m)], windows, a, n)
  /\ \A k \in DOMAIN m : \E a, b \in 1..n : Spans(m[k], windows, a, b)
  /\ \A c \in 1..n : \E k \in DOMAIN m :
       m[k].start <= windows[c].start /\ windows[c].end <= m[k].end

MergeStates(windows) ==
  CHOOSE merged : merged = [i \in 0..Len(windows) |->
    IF i = 0 THEN << >> ELSE Joined(merged[i - 1], windows[i])]

(* Windows that slide, in order of time.                                   *)
SlidingOn(windows) ==
  /\ \A i \in DOMAIN windows : windows[i].start \in Int /\ windows[i].end \in Int
                               /\ windows[i].start < windows[i].end
  /\ \A i, j \in DOMAIN windows :
       i < j => windows[i].start <= windows[j].start /\ windows[i].end <= windows[j].end

LEMMA JoinedIsMarked ==
  ASSUME NEW done \in Seq(Marked), NEW w \in Marked
  PROVE  Joined(done, w) \in Seq(Marked)
<1>1. CASE done # << >> /\ Last(done).speaker = w.speaker /\ w.start - Last(done).end <= MaxMergeGap
  <2> DEFINE x == Larger(done[Len(done)].end, w.end)
  <2>1. Joined(done, w) = [done EXCEPT ![Len(done)] = [@ EXCEPT !.end = x]]
    BY <1>1 DEF Joined
  <2>2. Len(done) \in DOMAIN done /\ done[Len(done)] \in Marked
    BY <1>1
  <2>3. x \in Int
    BY <2>2 DEF Larger, Marked
  <2>4. [done[Len(done)] EXCEPT !.end = x] \in Marked
    BY <2>2, <2>3 DEF Marked
  <2> HIDE DEF x
  <2> QED
    BY <2>1, <2>2, <2>4
<1>2. CASE ~(done # << >> /\ Last(done).speaker = w.speaker /\ w.start - Last(done).end <= MaxMergeGap)
  BY <1>2 DEF Joined
<1> QED
  BY <1>1, <1>2

LEMMA MergeSteps ==
  ASSUME NEW windows \in Seq(Marked)
  PROVE  LET f == MergeStates(windows)
         IN  /\ MergeWindows(windows) = f[Len(windows)]
             /\ f[0] = << >>
             /\ \A n \in 1..Len(windows) : f[n] = Joined(f[n - 1], windows[n])
<1> DEFINE N == Len(windows)
           D == Seq(Marked)
           step == [n \in 1..N |-> [d \in D |-> Joined(d, windows[n])]]
           body(state, n) == IF n = 0 THEN << >> ELSE Joined(state[n - 1], windows[n])
           base == << >>
           f == MergeStates(windows)
<1>1. N \in Nat /\ base \in D /\ \A n \in 1..N : windows[n] \in Marked
  OBVIOUS
<1>2. \A n \in 1..N : \A d \in D : Joined(d, windows[n]) \in D
  BY <1>1, JoinedIsMarked
<1> HIDE DEF D
<1>3. step \in [1..N -> [D -> D]]
  BY <1>2
<1> HIDE DEF N, step, base
<1>4. \E g : Recursion(g, N, D, base, step)
  BY <1>1, <1>3, RecursionExists
<1>5. PICK g \in [0..N -> D] : g[0] = << >> /\ \A n \in 1..N : g[n] = step[n][g[n - 1]]
  BY <1>4 DEF base, Recursion
<1>6. ASSUME NEW n \in 1..N PROVE g[n] = Joined(g[n - 1], windows[n])
  <2>1. g[n - 1] \in D
    BY <1>1
  <2> QED
    BY <1>5, <2>1 DEF step
<1>7. \A n \in 0..N : g[n] = body(g, n)
  <2> TAKE n \in 0..N
  <2>1. n # 0 => n \in 1..N
    BY <1>1
  <2> QED
    BY <1>5, <1>6, <2>1
<1> HIDE DEF body
<1>8. g = [n \in 0..N |-> body(g, n)]
  BY <1>5, <1>7
<1>9. f = CHOOSE state : state = [n \in 0..N |-> body(state, n)]
  BY DEF MergeStates, body, N
<1>10. MergeWindows(windows) = f[N]
  BY DEF MergeWindows, MergeStates, N
<1> HIDE DEF f
<1>11. f = [n \in 0..N |-> body(f, n)]
  BY <1>8, <1>9
<1>12. f[0] = << >> /\ \A n \in 1..N : f[n] = Joined(f[n - 1], windows[n])
  <2>1. \A n \in 0..N : f[n] = body(f, n)
    BY <1>11
  <2>2. 0 \in 0..N /\ \A n \in 1..N : n \in 0..N /\ n # 0
    BY <1>1
  <2> QED
    BY <2>1, <2>2 DEF body
<1> QED
  BY <1>10, <1>12 DEF f, N

LEMMA MergeKeepsSpans ==
  ASSUME NEW windows \in Seq(Marked), SlidingOn(windows), NEW n \in 1..Len(windows), NEW m,
         MergedSoFar(m, n - 1, windows)
  PROVE  MergedSoFar(Joined(m, windows[n]), n, windows)
<1> DEFINE w == windows[n]
           out == Joined(m, w)
           L == Len(m)
<1>0. n - 1 \in Nat /\ n \in 1..n /\ w \in Marked /\ n \in DOMAIN windows /\ 1..n \subseteq DOMAIN windows
  OBVIOUS
<1>1. /\ m \in Seq(Marked)
      /\ n - 1 > 0 => m # << >> /\ \E a \in 1..(n - 1) : Spans(m[L], windows, a, n - 1)
      /\ \A k \in DOMAIN m : \E a, b \in 1..(n - 1) : Spans(m[k], windows, a, b)
      /\ \A c \in 1..(n - 1) : \E k \in DOMAIN m :
           m[k].start <= windows[c].start /\ windows[c].end <= m[k].end
  BY DEF MergedSoFar
<1>2. out \in Seq(Marked)
  BY <1>0, <1>1, JoinedIsMarked
<1>3. \A c \in 1..n : c = n \/ c \in 1..(n - 1)
  OBVIOUS
<1>4. 1..(n - 1) \subseteq 1..n
  OBVIOUS
<1>5. w.start \in Int /\ w.end \in Int
  BY <1>0 DEF Marked
<1>6. CASE m # << >> /\ Last(m).speaker = w.speaker /\ w.start - Last(m).end <= MaxMergeGap
  <2>1. L \in DOMAIN m /\ DOMAIN m = 1..L /\ Last(m) = m[L] /\ m[L] \in Marked
    BY <1>1, <1>6 DEF Last
  <2>2. n - 1 > 0
    <3>1. PICK a \in 1..(n - 1) : TRUE
      BY <1>1, <2>1
    <3> QED
      BY <3>1
  <2>3. PICK a \in 1..(n - 1) : Spans(m[L], windows, a, n - 1)
    BY <1>1, <2>2
  <2>4. m[L].end = windows[n - 1].end /\ windows[n - 1].end <= w.end /\ n - 1 \in DOMAIN windows
    <3>1. n - 1 \in DOMAIN windows /\ n - 1 < n
      BY <1>0, <2>2
    <3>2. windows[n - 1].end <= w.end
      BY <1>0, <3>1 DEF SlidingOn
    <3> HIDE DEF w
    <3> QED
      BY <2>3, <3>1, <3>2 DEF Spans
  <2>5. Larger(m[L].end, w.end) = w.end
    <3>1. windows[n - 1].end \in Int
      BY <2>4 DEF SlidingOn
    <3> QED
      BY <1>5, <2>4, <3>1 DEF Larger
  <2>6. out = [m EXCEPT ![L] = [m[L] EXCEPT !.end = w.end]]
    BY <1>6, <2>5 DEF Joined
  <2> HIDE DEF out
  <2>7. /\ DOMAIN out = DOMAIN m /\ Len(out) = L
        /\ \A k \in DOMAIN m : k # L => out[k] = m[k]
        /\ out[L].start = m[L].start /\ out[L].end = w.end /\ out[L].speaker = m[L].speaker
    <3>1. out[L] = [m[L] EXCEPT !.end = w.end]
      BY <2>1, <2>6
    <3>2. DOMAIN out = DOMAIN m /\ \A k \in DOMAIN m : k # L => out[k] = m[k]
      BY <2>6
    <3>3. Len(out) = L
      BY <1>1, <2>6
    <3> QED
      BY <2>1, <3>1, <3>2, <3>3 DEF Marked
  <2>8. Spans(out[L], windows, a, n)
    <3>1. a <= n /\ \A c \in a..n : c = n \/ c \in a..(n - 1)
      BY <2>3
    <3>2. w.speaker = m[L].speaker
      BY <1>6, <2>1
    <3> QED
      BY <2>3, <2>7, <3>1, <3>2 DEF Spans
  <2>9. \A k \in DOMAIN out : \E x, b \in 1..n : Spans(out[k], windows, x, b)
    <3> TAKE k \in DOMAIN out
    <3>1. CASE k = L
      BY <1>0, <1>4, <2>3, <2>8, <3>1
    <3>2. CASE k # L
      <4>1. out[k] = m[k] /\ k \in DOMAIN m
        BY <2>7, <3>2
      <4>2. PICK x \in 1..(n - 1), b \in 1..(n - 1) : Spans(m[k], windows, x, b)
        BY <1>1, <4>1
      <4> QED
        BY <1>4, <4>1, <4>2
    <3> QED
      BY <3>1, <3>2
  <2>10. \A c \in 1..n : \E k \in DOMAIN out :
           out[k].start <= windows[c].start /\ windows[c].end <= out[k].end
    <3> TAKE c \in 1..n
    <3>1. CASE c = n
      <4>1. windows[a].start <= w.start
        <5>1. a \in DOMAIN windows /\ a < n
          BY <1>0, <2>3
        <5> QED
          BY <1>0, <5>1 DEF SlidingOn
      <4>2. out[L].start = windows[a].start /\ out[L].end = w.end /\ L \in DOMAIN out
        BY <2>1, <2>7, <2>8 DEF Spans
      <4> QED
        BY <1>5, <3>1, <4>1, <4>2
    <3>2. CASE c # n
      <4>1. PICK k \in DOMAIN m : m[k].start <= windows[c].start /\ windows[c].end <= m[k].end
        BY <1>1, <1>3, <3>2
      <4>2. CASE k # L
        BY <2>7, <4>1, <4>2
      <4>3. CASE k = L
        <5>1. windows[c].end <= w.end
          BY <1>0, <3>2 DEF SlidingOn
        <5> QED
          BY <2>1, <2>7, <4>1, <4>3, <5>1
      <4> QED
        BY <4>2, <4>3
    <3> QED
      BY <3>1, <3>2
  <2>11. out # << >>
    BY <2>1, <2>7
  <2>12. a \in 1..n
    BY <1>4, <2>3
  <2> QED
    BY <1>2, <2>7, <2>8, <2>9, <2>10, <2>11, <2>12 DEF MergedSoFar, out
<1>7. CASE ~(m # << >> /\ Last(m).speaker = w.speaker /\ w.start - Last(m).end <= MaxMergeGap)
  <2>1. out = Append(m, w)
    BY <1>7 DEF Joined
  <2> HIDE DEF out, w
  <2>2. /\ DOMAIN out = 1..(L + 1) /\ Len(out) = L + 1 /\ L \in Nat /\ DOMAIN m = 1..L
        /\ \A k \in 1..L : out[k] = m[k]
        /\ out[L + 1] = w
    <3>1. m \in Seq(Marked) /\ w \in Marked
      BY <1>0, <1>1 DEF w
    <3> QED
      BY <2>1, <3>1
  <2>3. Spans(w, windows, n, n)
    BY DEF Spans, w
  <2>4. \A k \in DOMAIN out : \E a, b \in 1..n : Spans(out[k], windows, a, b)
    <3> TAKE k \in DOMAIN out
    <3>1. CASE k = L + 1
      BY <1>0, <2>2, <2>3, <3>1
    <3>2. CASE k # L + 1
      <4>1. out[k] = m[k] /\ k \in DOMAIN m
        BY <2>2, <3>2
      <4>2. PICK a \in 1..(n - 1), b \in 1..(n - 1) : Spans(m[k], windows, a, b)
        BY <1>1, <4>1
      <4> QED
        BY <1>4, <4>1, <4>2
    <3> QED
      BY <3>1, <3>2
  <2>5. \A c \in 1..n : \E k \in DOMAIN out :
          out[k].start <= windows[c].start /\ windows[c].end <= out[k].end
    <3> TAKE c \in 1..n
    <3>1. CASE c = n
      <4>1. L + 1 \in DOMAIN out /\ w.start <= w.start /\ w.end <= w.end
        BY <1>5, <2>2
      <4> QED
        BY <2>2, <3>1, <4>1 DEF w
    <3>2. CASE c # n
      <4>1. PICK k \in DOMAIN m : m[k].start <= windows[c].start /\ windows[c].end <= m[k].end
        BY <1>1, <1>3, <3>2
      <4>2. k \in DOMAIN out /\ out[k] = m[k]
        BY <2>2
      <4> QED
        BY <4>1, <4>2
    <3> QED
      BY <3>1, <3>2
  <2>6. out # << >> /\ Spans(out[Len(out)], windows, n, n)
    BY <2>2, <2>3
  <2> QED
    BY <1>0, <1>2, <2>4, <2>5, <2>6 DEF MergedSoFar, out, w
<1> QED
  BY <1>6, <1>7

LEMMA WindowsAreMerged ==
  ASSUME NEW windows \in Seq(Marked), SlidingOn(windows)
  PROVE  MergedSoFar(MergeWindows(windows), Len(windows), windows)
<1> DEFINE N == Len(windows)
           f == MergeStates(windows)
           P == {n \in 0..N : MergedSoFar(f[n], n, windows)}
<1>1. N \in Nat
  OBVIOUS
<1>2. /\ MergeWindows(windows) = f[N]
      /\ f[0] = << >>
      /\ \A n \in 1..N : f[n] = Joined(f[n - 1], windows[n])
  BY MergeSteps
<1> HIDE DEF f
<1>3. 0 \in P
  <2>1. << >> \in Seq(Marked) /\ DOMAIN << >> = {} /\ 1..0 = {}
    OBVIOUS
  <2>2. MergedSoFar(<< >>, 0, windows)
    BY <2>1 DEF MergedSoFar
  <2> QED
    BY <1>1, <1>2, <2>2
<1>4. ASSUME NEW n \in 1..N, n - 1 \in P PROVE n \in P
  <2>1. MergedSoFar(f[n - 1], n - 1, windows)
    BY <1>4
  <2>2. MergedSoFar(Joined(f[n - 1], windows[n]), n, windows)
    BY <2>1, MergeKeepsSpans
  <2> QED
    BY <1>1, <1>2, <2>2
<1> HIDE DEF P, N
<1>5. 0..N \subseteq P
  BY <1>1, <1>3, <1>4, InductUpTo
<1> QED
  BY <1>1, <1>2, <1>5 DEF P, N

(* There are n numbers up to n.                                            *)
LEMMA CountUpTo ==
  ASSUME NEW n \in Nat
  PROVE  IsFiniteSet(1..n) /\ Cardinality(1..n) = n
<1>1. 1 \in Int /\ n \in Int
  OBVIOUS
<1>2. IsFiniteSet(1..n) /\ Cardinality(1..n) = IF 1 > n THEN 0 ELSE n - 1 + 1
  BY <1>1, FS_Interval
<1> QED
  BY <1>2

(* Brought in order of time, windows slide on, and are the same windows.   *)
SameInTime(sorted, windows) ==
  /\ sorted \in Seq(Marked) /\ Len(sorted) = Len(windows)
  /\ SlidingOn(sorted)
  /\ \A n \in DOMAIN sorted : \E i \in DOMAIN windows : sorted[n] = windows[i]
  /\ \A i \in DOMAIN windows : \E n \in DOMAIN sorted : sorted[n] = windows[i]

LEMMA SortedSlide ==
  ASSUME NEW windows \in Seq(Marked), Sliding(windows), NEW key,
         \A i \in DOMAIN windows : key[i] = <<windows[i].start, windows[i].end>>
  PROVE  SameInTime(Sorted(windows, DOMAIN windows, key), windows)
<1> DEFINE places == DOMAIN windows
           order == ByKey(places, key)
           sorted == Sorted(windows, places, key)
           N == Cardinality(places)
<1>1. Len(windows) \in Nat /\ places = 1..Len(windows)
  OBVIOUS
<1>2. N = Len(windows)
  BY <1>1, CountUpTo
<1>3. ArePlaces(places)
  BY SomePlaces
<1>4. \A i \in places : windows[i] \in Marked /\ windows[i].start \in Int /\ windows[i].end \in Int
  <2>1. \A i \in places : windows[i] \in Marked
    OBVIOUS
  <2> HIDE DEF places
  <2> QED
    BY <2>1 DEF Marked
<1>5. \A i \in places : key[i] \in [1..2 -> Int] /\ key[i][1] = windows[i].start
  <2> TAKE i \in places
  <2>1. key[i] = <<windows[i].start, windows[i].end>>
    OBVIOUS
  <2>2. windows[i].start \in Int /\ windows[i].end \in Int
    BY <1>4
  <2> QED
    BY <2>1, <2>2
<1>6. Keyed(places, key)
  BY <1>5 DEF Keyed
<1> HIDE DEF places
<1>7. /\ order \in [1..N -> places]
      /\ \A i, j \in 1..N : i < j => Before(key, order[i], order[j])
      /\ \A p \in places : \E i \in 1..N : order[i] = p
      /\ DOMAIN sorted = 1..N /\ Len(sorted) = N
      /\ \A i \in 1..N : sorted[i] = windows[order[i]]
  BY <1>3, <1>6, SortedInOrder
<1>9. sorted = [i \in 1..N |-> windows[order[i]]]
  BY DEF Sorted
<1> HIDE DEF order, sorted, N
<1>10. N \in Nat
  BY <1>1, <1>2
<1>11. sorted \in Seq(Marked)
  <2>1. \A i \in 1..N : windows[order[i]] \in Marked
    BY <1>4, <1>7
  <2> QED
    BY <1>9, <1>10, <2>1
<1>12. ASSUME NEW i \in 1..N, NEW j \in 1..N, i < j
       PROVE  sorted[i].start <= sorted[j].start /\ sorted[i].end <= sorted[j].end
  <2> DEFINE p == order[i]
             q == order[j]
  <2>1. p \in places /\ q \in places /\ sorted[i] = windows[p] /\ sorted[j] = windows[q]
    BY <1>7
  <2>2. Before(key, p, q)
    BY <1>7, <1>12
  <2> HIDE DEF p, q
  <2>3. windows[p].start <= windows[q].start
    <3>1. key[p] = key[q] \/ Precedes(key[p], key[q])
      BY <2>2 DEF Before
    <3>2. Precedes(key[p], key[q]) => key[p][1] <= key[q][1]
      <4>1. key[p] \in [1..2 -> Int] /\ key[q] \in [1..2 -> Int]
        BY <1>5, <2>1
      <4> QED
        BY <4>1 DEF Precedes
    <3> QED
      BY <1>4, <1>5, <2>1, <3>1, <3>2
  <2>4. windows[p].end <= windows[q].end
    <3>1. CASE windows[p].start = windows[q].start
      <4>1. p = q
        BY <2>1, <3>1 DEF Sliding, places
      <4> QED
        BY <1>4, <2>1, <4>1
    <3>2. CASE windows[p].start # windows[q].start
      <4>1. windows[p].start < windows[q].start
        BY <1>4, <2>1, <2>3, <3>2
      <4> QED
        BY <2>1, <4>1 DEF Sliding, places
    <3> QED
      BY <3>1, <3>2
  <2> QED
    BY <2>1, <2>3, <2>4
<1>13. \A n \in 1..N : order[n] \in places /\ sorted[n] = windows[order[n]]
  BY <1>7
<1>14. SlidingOn(sorted)
  <2>1. \A n \in 1..N : /\ sorted[n].start \in Int /\ sorted[n].end \in Int
                        /\ sorted[n].start < sorted[n].end
    BY <1>13 DEF Sliding, places
  <2> QED
    BY <1>7, <1>12, <2>1 DEF SlidingOn
<1>15. \A p \in places : \E n \in 1..N : sorted[n] = windows[p]
  BY <1>7, <1>13
<1>16. /\ \A n \in DOMAIN sorted : \E i \in places : sorted[n] = windows[i]
       /\ \A i \in places : \E n \in DOMAIN sorted : sorted[n] = windows[i]
  BY <1>7, <1>13, <1>15
<1>17. SameInTime(sorted, windows)
  BY <1>2, <1>7, <1>11, <1>14, <1>16 DEF SameInTime, places
<1> QED
  BY <1>17 DEF sorted, places

LEMMA InTimeSlides ==
  ASSUME NEW windows, NEW labels, NEW marked \in Seq(Marked), Sliding(marked),
         marked = [i \in DOMAIN windows |->
           [start |-> windows[i].start, end |-> windows[i].end, speaker |-> labels[i]]]
  PROVE  SameInTime(InTime(windows, labels), marked)
<1> DEFINE key == [i \in DOMAIN windows |-> <<windows[i].start, windows[i].end>>]
<1>1. DOMAIN marked = DOMAIN windows
  OBVIOUS
<1>2. InTime(windows, labels) = Sorted(marked, DOMAIN marked, key)
  BY <1>1 DEF InTime
<1>3. \A i \in DOMAIN marked : key[i] = <<marked[i].start, marked[i].end>>
  OBVIOUS
<1> HIDE DEF key
<1> QED
  BY <1>2, <1>3, SortedSlide

LEMMA AroundIsNear ==
  ASSUME SmoothSpan \in Nat, NEW labels \in Seq(STRING), NEW i \in DOMAIN labels
  PROVE  i \in Around(labels, i) /\ Around(labels, i) \subseteq DOMAIN labels
<1>1. SmoothSpan \div 2 \in Nat
  OBVIOUS
<1> DEFINE half == SmoothSpan \div 2
<1>2. Around(labels, i) = Larger(1, i - half)..Smaller(Len(labels), i + half)
  BY DEF Around
<1>3. Len(labels) \in Nat /\ DOMAIN labels = 1..Len(labels) /\ half \in Nat
  BY <1>1
<1> HIDE DEF half
<1> QED
  BY <1>2, <1>3 DEF Larger, Smaller

(* A label is smoothed to one of those around it.                          *)
LEMMA SmoothTakesOneAround ==
  ASSUME SmoothSpan \in Nat, NEW labels \in Seq(STRING)
  PROVE  /\ DOMAIN Smooth(labels) = DOMAIN labels
         /\ \A i \in DOMAIN labels : \E j \in Around(labels, i) : Smooth(labels)[i] = labels[j]
<1> DEFINE count(i, l) == Cardinality({j \in Around(labels, i) : labels[j] = l})
           isTop(i, j) == \A k \in Around(labels, i) : count(i, labels[k]) <= count(i, labels[j])
           top(i) == {j \in Around(labels, i) : isTop(i, j)}
           lowest(i) == CHOOSE j \in top(i) : \A k \in top(i) : j <= k
           chosen(i) == IF i \in top(i) THEN labels[i] ELSE labels[lowest(i)]
<1>1. ASSUME NEW i \in DOMAIN labels
      PROVE  \E j \in Around(labels, i) : chosen(i) = labels[j]
  <2>1. i \in Around(labels, i) /\ Around(labels, i) \subseteq DOMAIN labels
    BY AroundIsNear
  <2>2. Len(labels) \in Nat /\ DOMAIN labels = 1..Len(labels)
    OBVIOUS
  <2>3. \A l : count(i, l) \in 0..Len(labels)
    <3> TAKE l
    <3> DEFINE S == {j \in Around(labels, i) : labels[j] = l}
    <3>1. S \subseteq 1..Len(labels)
      BY <2>1, <2>2
    <3> HIDE DEF S
    <3>2. IsFiniteSet(1..Len(labels)) /\ Cardinality(1..Len(labels)) = Len(labels)
      BY <2>2, CountUpTo
    <3>3. IsFiniteSet(S) /\ Cardinality(S) <= Len(labels)
      BY <3>1, <3>2, FS_Subset
    <3>4. Cardinality(S) \in Nat
      BY <3>3, FS_CardinalityType
    <3>5. Cardinality(S) \in 0..Len(labels)
      BY <2>2, <3>3, <3>4
    <3> QED
      BY <3>5 DEF S
  <2> DEFINE counts == {count(i, labels[j]) : j \in Around(labels, i)}
  <2> HIDE DEF count
  <2>4. counts \subseteq 0..Len(labels) /\ counts # {}
    BY <2>1, <2>3
  <2>5. PICK c \in counts : \A d \in counts : d <= c
    BY <2>2, <2>4, Greatest
  <2>6. PICK j \in Around(labels, i) : c = count(i, labels[j])
    BY <2>5
  <2>7. isTop(i, j)
    BY <2>5, <2>6
  <2> HIDE DEF isTop
  <2>8. top(i) # {} /\ top(i) \subseteq Nat
    BY <2>1, <2>2, <2>6, <2>7
  <2> HIDE DEF top
  <2>9. \E k \in top(i) : \A l \in top(i) : k <= l
    BY <2>8, Least
  <2>10. lowest(i) \in top(i)
    BY <2>9
  <2> HIDE DEF lowest
  <2>11. top(i) \subseteq Around(labels, i)
    BY DEF top
  <2> QED
    BY <2>10, <2>11
<1>2. CASE SmoothSpan = 1 \/ Len(labels) < SmoothSpan
  <2>1. Smooth(labels) = labels
    BY <1>2 DEF Smooth
  <2> QED
    BY <2>1, AroundIsNear
<1>3. CASE ~(SmoothSpan = 1 \/ Len(labels) < SmoothSpan)
  <2>1. Smooth(labels) = [i \in DOMAIN labels |-> chosen(i)]
    BY <1>3 DEF Smooth
  <2> HIDE DEF chosen
  <2> QED
    BY <1>1, <2>1
<1> QED
  BY <1>2, <1>3

(* Where windows and a stretch overlap.                                    *)
Overlap(w, start, end) == Larger(0, Smaller(end, w.end) - Larger(start, w.start))

LEMMA OverlapMeets ==
  ASSUME NEW w, w.start \in Int, w.end \in Int, w.start < w.end,
         NEW start \in Int, NEW end \in Int, start < end
  PROVE  /\ Overlap(w, start, end) \in 0..(end - start)
         /\ Overlap(w, start, end) > 0 <=> w.start < end /\ start < w.end
BY DEF Overlap, Larger, Smaller

LEMMA SpeakerIsOfOverlap ==
  ASSUME NEW merged \in Seq(Marked), merged # << >>,
         \A k \in DOMAIN merged : merged[k].start < merged[k].end,
         NEW start \in Int, NEW end \in Int, start < end
  PROVE  \E k \in DOMAIN merged :
           /\ SpeakerFor(merged, start, end) = merged[k].speaker
           /\ (\E i \in DOMAIN merged : Overlap(merged[i], start, end) > 0) =>
                Overlap(merged[k], start, end) > 0
<1> DEFINE overlap(w) == Overlap(w, start, end)
           apart(w) == IF start + end > w.start + w.end THEN start + end - (w.start + w.end)
                                                         ELSE w.start + w.end - (start + end)
           covered == \E i \in DOMAIN merged : overlap(merged[i]) > 0
           better(i, j) == IF covered THEN overlap(merged[i]) > overlap(merged[j])
                                      ELSE apart(merged[i]) < apart(merged[j])
           best(i) == \A j \in DOMAIN merged : ~better(j, i) /\ (~better(i, j) => i <= j)
           chosen == CHOOSE i \in DOMAIN merged : best(i)
<1>1. SpeakerFor(merged, start, end) = merged[chosen].speaker
  BY DEF SpeakerFor, Overlap
<1>2. /\ Len(merged) \in Nat /\ DOMAIN merged = 1..Len(merged) /\ DOMAIN merged # {}
      /\ \A k \in DOMAIN merged : merged[k].start \in Int /\ merged[k].end \in Int
  <2>1. \A k \in DOMAIN merged : merged[k] \in Marked
    OBVIOUS
  <2> QED
    BY <2>1 DEF Marked
<1>3. \A k \in DOMAIN merged : overlap(merged[k]) \in 0..(end - start)
  BY <1>2, OverlapMeets
<1>4. \A k \in DOMAIN merged : apart(merged[k]) \in Nat
  BY <1>2
<1> HIDE DEF overlap, apart, covered
<1>5. \E i \in DOMAIN merged : best(i)
  <2>1. CASE covered
    <3> DEFINE values == {overlap(merged[k]) : k \in DOMAIN merged}
    <3>1. values # {} /\ values \subseteq 0..(end - start) /\ end - start \in Nat
      BY <1>2, <1>3
    <3>2. PICK v \in values : \A x \in values : x <= v
      BY <3>1, Greatest
    <3> DEFINE S == {k \in DOMAIN merged : overlap(merged[k]) = v}
    <3>3. S # {} /\ S \subseteq Nat
      BY <1>2, <3>2
    <3>4. PICK i \in S : \A k \in S : i <= k
      BY <3>3, Least
    <3>5. ASSUME NEW j \in DOMAIN merged PROVE ~better(j, i) /\ (~better(i, j) => i <= j)
      <4>1. overlap(merged[j]) <= v /\ overlap(merged[i]) = v /\ v \in Int /\ overlap(merged[j]) \in Int
        BY <1>3, <3>1, <3>2, <3>4
      <4>2. overlap(merged[j]) = v => i <= j
        BY <3>4
      <4> QED
        BY <2>1, <4>1, <4>2
    <3> QED
      BY <3>4, <3>5
  <2>2. CASE ~covered
    <3> DEFINE values == {apart(merged[k]) : k \in DOMAIN merged}
    <3>1. values # {} /\ values \subseteq Nat
      BY <1>2, <1>4
    <3>2. PICK v \in values : \A x \in values : v <= x
      BY <3>1, Least
    <3> DEFINE S == {k \in DOMAIN merged : apart(merged[k]) = v}
    <3>3. S # {} /\ S \subseteq Nat
      BY <1>2, <3>2
    <3>4. PICK i \in S : \A k \in S : i <= k
      BY <3>3, Least
    <3>5. ASSUME NEW j \in DOMAIN merged PROVE ~better(j, i) /\ (~better(i, j) => i <= j)
      <4>1. v <= apart(merged[j]) /\ apart(merged[i]) = v /\ v \in Int /\ apart(merged[j]) \in Int
        BY <1>4, <3>1, <3>2, <3>4
      <4>2. apart(merged[j]) = v => i <= j
        BY <3>4
      <4> QED
        BY <2>2, <4>1, <4>2
    <3> QED
      BY <3>4, <3>5
  <2> QED
    BY <2>1, <2>2
<1>6. chosen \in DOMAIN merged /\ best(chosen)
  <2> HIDE DEF best
  <2> QED
    BY <1>5
<1> HIDE DEF chosen
<1>7. ASSUME covered PROVE overlap(merged[chosen]) > 0
  <2>1. PICK i \in DOMAIN merged : overlap(merged[i]) > 0
    BY <1>7 DEF covered
  <2>2. ~(overlap(merged[i]) > overlap(merged[chosen]))
    BY <1>6, <1>7
  <2>3. overlap(merged[i]) \in Int /\ overlap(merged[chosen]) \in Int
    BY <1>3, <1>6
  <2> QED
    BY <2>1, <2>2, <2>3
<1> QED
  BY <1>1, <1>6, <1>7 DEF covered, overlap

(* Of windows that slide on, one that is merged meets a stretch only where *)
(* one of its windows does, unless no window does.                         *)
LEMMA MetWhereMerged ==
  ASSUME NEW windows \in Seq(Marked), SlidingOn(windows), NEW w,
         NEW a \in DOMAIN windows, NEW b \in DOMAIN windows, Spans(w, windows, a, b),
         NEW start \in Int, NEW end \in Int, start < end, w.start < end, start < w.end,
         NEW i \in DOMAIN windows, windows[i].start < end, start < windows[i].end
  PROVE  \E c \in a..b : windows[c].start < end /\ start < windows[c].end
<1> DEFINE S == {c \in a..b : start < windows[c].end}
<1>0. DOMAIN windows = 1..Len(windows) /\ Len(windows) \in Nat
  OBVIOUS
<1>1. b \in S /\ S \subseteq Nat /\ windows[a].start < end
  BY <1>0 DEF Spans
<1>2. PICK c \in S : \A d \in S : c <= d
  BY <1>1, Least
<1>3. c \in DOMAIN windows /\ c \in a..b /\ start < windows[c].end
  BY <1>0, <1>2
<1>4. ASSUME ~(windows[c].start < end) PROVE FALSE
  <2>1. c # a
    BY <1>1, <1>4
  <2>2. c - 1 \in a..b /\ c - 1 \notin S /\ c - 1 \in DOMAIN windows
    BY <1>0, <1>2, <1>3, <2>1
  <2>3. ~(start < windows[c - 1].end)
    BY <2>2
  <2>4. \A k \in DOMAIN windows : windows[k].start \in Int /\ windows[k].end \in Int
    BY DEF SlidingOn
  <2>5. i <= c - 1 \/ c <= i
    BY <1>0, <1>3
  <2>6. CASE i <= c - 1
    <3>1. windows[i].end <= windows[c - 1].end
      <4>1. CASE i = c - 1
        BY <2>2, <2>4, <4>1
      <4>2. CASE i # c - 1
        <5>1. i < c - 1
          BY <1>0, <1>3, <2>6, <4>2
        <5> QED
          BY <2>2, <5>1 DEF SlidingOn
      <4> QED
        BY <4>1, <4>2
    <3> QED
      BY <2>2, <2>3, <2>4, <3>1
  <2>7. CASE c <= i
    <3>1. windows[c].start <= windows[i].start
      <4>1. CASE i = c
        BY <1>3, <2>4, <4>1
      <4>2. CASE i # c
        <5>1. c < i
          BY <1>0, <1>3, <2>7, <4>2
        <5> QED
          BY <1>3, <5>1 DEF SlidingOn
      <4> QED
        BY <4>1, <4>2
    <3> QED
      BY <1>3, <1>4, <2>4, <3>1
  <2> QED
    BY <2>5, <2>6, <2>7
<1> QED
  BY <1>3, <1>4

(* Who speaks long enough is heard, whatever the windows and the labels.   *)
THEOREM LongSpeechIsHeard ==
  ASSUME SmoothSpan \in Nat, NEW windows, NEW labels, NEW segments, Sounds(windows, labels, segments)
  PROVE  SpeakersAreHeard(windows, labels, segments)
<1> DEFINE smooth == Smooth(labels)
           marked == [i \in DOMAIN windows |->
                       [start |-> windows[i].start, end |-> windows[i].end, speaker |-> smooth[i]]]
           ordered == InTime(windows, smooth)
           merged == MergeWindows(ordered)
           N == Len(windows)
           labelled == LabelSegments(windows, labels, segments)
           touched(s) == {i \in DOMAIN windows :
                            windows[i].start < s.end /\ s.start < windows[i].end}
           near(s) == UNION {Around(labels, i) : i \in touched(s)}
<1>1. /\ windows \in Seq([start : Int, end : Int]) /\ windows # << >> /\ Sliding(windows)
      /\ labels \in Seq(STRING) /\ Len(labels) = N
      /\ \A n \in DOMAIN segments : /\ segments[n].start \in Int /\ segments[n].end \in Int
                                    /\ segments[n].start < segments[n].end
  BY DEF Sounds
<1>2. N \in Nat /\ N > 0 /\ DOMAIN windows = 1..N /\ DOMAIN labels = 1..N
  BY <1>1
<1>3. \A i \in 1..N : \E j \in Around(labels, i) : smooth[i] = labels[j]
  BY <1>1, <1>2, SmoothTakesOneAround
<1>4. \A i \in 1..N : i \in Around(labels, i) /\ Around(labels, i) \subseteq 1..N
  BY <1>1, <1>2, AroundIsNear
<1> HIDE DEF smooth
<1>5. marked \in Seq(Marked) /\ DOMAIN marked = 1..N /\ Len(marked) = N
  <2>1. \A i \in 1..N : smooth[i] \in STRING
    <3>1. \A j \in 1..N : labels[j] \in STRING
      BY <1>1, <1>2
    <3> QED
      BY <1>3, <1>4, <3>1
  <2>2. \A i \in 1..N : windows[i].start \in Int /\ windows[i].end \in Int
    BY <1>1, <1>2 DEF Sliding
  <2>3. \A i \in 1..N : marked[i] \in Marked
    BY <1>2, <2>1, <2>2 DEF Marked
  <2>4. marked = [i \in 1..N |-> marked[i]]
    BY <1>2
  <2> HIDE DEF marked
  <2> QED
    BY <1>2, <2>3, <2>4
<1>6. \A i \in 1..N : marked[i].start = windows[i].start /\ marked[i].end = windows[i].end
                      /\ marked[i].speaker = smooth[i]
  BY <1>2
<1>17. marked = [i \in DOMAIN windows |->
                  [start |-> windows[i].start, end |-> windows[i].end, speaker |-> smooth[i]]]
  OBVIOUS
<1> HIDE DEF marked
<1>7. Sliding(marked)
  BY <1>1, <1>2, <1>5, <1>6 DEF Sliding
<1>16. /\ ordered \in Seq(Marked) /\ Len(ordered) = N /\ DOMAIN ordered = 1..N
       /\ SlidingOn(ordered)
       /\ \A n \in 1..N : \E i \in 1..N : ordered[n] = marked[i]
       /\ \A i \in 1..N : \E n \in 1..N : ordered[n] = marked[i]
  <2>1. SameInTime(ordered, marked)
    BY <1>5, <1>7, <1>17, InTimeSlides
  <2> HIDE DEF ordered
  <2>2. ordered \in Seq(Marked) /\ Len(ordered) = N /\ SlidingOn(ordered)
    BY <1>5, <2>1 DEF SameInTime
  <2>3. DOMAIN ordered = 1..N /\ DOMAIN marked = 1..N
    BY <1>5, <2>2
  <2> QED
    BY <2>1, <2>2, <2>3 DEF SameInTime
<1> HIDE DEF ordered
<1>8. MergedSoFar(merged, N, ordered)
  BY <1>16, WindowsAreMerged
<1>9. labelled = [n \in DOMAIN segments |->
                   [start |-> segments[n].start, end |-> segments[n].end,
                    speaker |-> SpeakerFor(merged, segments[n].start, segments[n].end)]]
  BY DEF LabelSegments, merged, ordered, smooth
<1> HIDE DEF merged, labelled
<1>10. /\ merged \in Seq(Marked) /\ merged # << >>
       /\ \A k \in DOMAIN merged : \E a, b \in 1..N : Spans(merged[k], ordered, a, b)
       /\ \A c \in 1..N : \E k \in DOMAIN merged :
            merged[k].start <= ordered[c].start /\ ordered[c].end <= merged[k].end
  BY <1>2, <1>8 DEF MergedSoFar
<1>11. \A k \in DOMAIN merged : /\ merged[k].start \in Int /\ merged[k].end \in Int
                                /\ merged[k].start < merged[k].end
  <2> TAKE k \in DOMAIN merged
  <2>1. PICK a \in 1..N, b \in 1..N : Spans(merged[k], ordered, a, b)
    BY <1>10
  <2>2. /\ ordered[a].start \in Int /\ ordered[a].end \in Int /\ ordered[a].start < ordered[a].end
        /\ ordered[b].start \in Int /\ ordered[b].end \in Int /\ ordered[b].start < ordered[b].end
    BY <1>16 DEF SlidingOn
  <2>3. ordered[a].start <= ordered[b].start
    <3>1. a \in DOMAIN ordered /\ b \in DOMAIN ordered /\ SlidingOn(ordered)
      BY <1>16
    <3>2. CASE a = b
      BY <2>2, <3>2
    <3>3. CASE a < b
      BY <3>1, <3>3 DEF SlidingOn
    <3> QED
      BY <2>1, <3>2, <3>3 DEF Spans
  <2> QED
    BY <2>1, <2>2, <2>3 DEF Spans
<1>12. ASSUME NEW n \in DOMAIN segments
       PROVE  \E k \in DOMAIN merged :
                /\ labelled[n].speaker = merged[k].speaker
                /\ (\E i \in DOMAIN merged : Overlap(merged[i], segments[n].start, segments[n].end) > 0)
                     => Overlap(merged[k], segments[n].start, segments[n].end) > 0
  <2>1. labelled[n].speaker = SpeakerFor(merged, segments[n].start, segments[n].end)
    BY <1>9
  <2>2. segments[n].start \in Int /\ segments[n].end \in Int /\ segments[n].start < segments[n].end
    BY <1>1
  <2>3. \A k \in DOMAIN merged : merged[k].start < merged[k].end
    BY <1>11
  <2> QED
    BY <1>10, <2>1, <2>2, <2>3, SpeakerIsOfOverlap
<1>13. ASSUME NEW n \in DOMAIN segments
       PROVE  \E i \in DOMAIN labels : labelled[n].speaker = labels[i]
  <2>1. PICK k \in DOMAIN merged : labelled[n].speaker = merged[k].speaker
    BY <1>12
  <2>2. PICK a \in 1..N, b \in 1..N : Spans(merged[k], ordered, a, b)
    BY <1>10
  <2>3. a \in a..b
    BY <2>2 DEF Spans
  <2>4. ordered[a].speaker = merged[k].speaker
    BY <2>2, <2>3 DEF Spans
  <2>5. PICK i \in 1..N : ordered[a] = marked[i]
    BY <1>16
  <2> QED
    BY <1>2, <1>3, <1>4, <1>6, <2>1, <2>4, <2>5
<1>14. ASSUME NEW n \in DOMAIN segments, NEW l, touched(segments[n]) # {},
              \A j \in near(segments[n]) : labels[j] = l
       PROVE  labelled[n].speaker = l
  <2> DEFINE start == segments[n].start
             end == segments[n].end
  <2>1. start \in Int /\ end \in Int /\ start < end
    BY <1>1
  <2>2. \A c \in 1..N : windows[c].start < end /\ start < windows[c].end => smooth[c] = l
    <3> TAKE c \in 1..N
    <3> HAVE windows[c].start < end /\ start < windows[c].end
    <3>1. c \in touched(segments[n])
      BY <1>2
    <3>2. Around(labels, c) \subseteq near(segments[n])
      BY <3>1
    <3> QED
      BY <1>3, <1>14, <3>2
  <2>3. PICK i \in 1..N : ordered[i].start < end /\ start < ordered[i].end
    <3>1. PICK w \in 1..N : windows[w].start < end /\ start < windows[w].end
      BY <1>2, <1>14
    <3>2. PICK i \in 1..N : ordered[i] = marked[w]
      BY <1>16
    <3> QED
      BY <1>6, <3>1, <3>2
  <2> HIDE DEF start, end
  <2>4. \E k \in DOMAIN merged : Overlap(merged[k], start, end) > 0
    <3>1. PICK k \in DOMAIN merged :
            merged[k].start <= ordered[i].start /\ ordered[i].end <= merged[k].end
      BY <1>10
    <3>2. ordered[i].start \in Int /\ ordered[i].end \in Int
      BY <1>16 DEF SlidingOn
    <3>3. merged[k].start < end /\ start < merged[k].end
      BY <1>11, <2>1, <2>3, <3>1, <3>2
    <3> QED
      BY <1>11, <2>1, <3>3, OverlapMeets
  <2>5. PICK k \in DOMAIN merged :
          labelled[n].speaker = merged[k].speaker /\ Overlap(merged[k], start, end) > 0
    BY <1>12, <2>4 DEF start, end
  <2>6. merged[k].start < end /\ start < merged[k].end
    BY <1>11, <2>1, <2>5, OverlapMeets
  <2>7. PICK a \in 1..N, b \in 1..N : Spans(merged[k], ordered, a, b)
    BY <1>10
  <2>8. PICK c \in a..b : ordered[c].start < end /\ start < ordered[c].end
    <3>1. i \in DOMAIN ordered /\ a \in DOMAIN ordered /\ b \in DOMAIN ordered
      BY <1>16
    <3> QED
      BY <1>16, <2>1, <2>3, <2>6, <2>7, <3>1, MetWhereMerged
  <2>9. c \in 1..N /\ ordered[c].speaker = merged[k].speaker
    BY <1>2, <2>7, <2>8 DEF Spans
  <2>10. PICK w \in 1..N : ordered[c] = marked[w]
    BY <1>16, <2>9
  <2>11. windows[w].start < end /\ start < windows[w].end /\ smooth[w] = ordered[c].speaker
    BY <1>6, <2>8, <2>10
  <2> QED
    BY <2>2, <2>5, <2>9, <2>11 DEF start, end
<1> HIDE DEF touched, near
<1>15. \A n \in DOMAIN segments :
         /\ \E i \in DOMAIN labels : labelled[n].speaker = labels[i]
         /\ \A l \in {labels[i] : i \in DOMAIN labels} :
              touched(segments[n]) # {} /\ (\A i \in near(segments[n]) : labels[i] = l) =>
                labelled[n].speaker = l
  BY <1>13, <1>14
<1> QED
  BY <1>15 DEF SpeakersAreHeard, labelled, touched, near

-----------------------------------------------------------------------------
(* Written transcripts *)

(* What is written: every speaker has a name and every word a time.        *)
Names == STRING \cup {"UNKNOWN"}
Timed == [speaker : Names, start : Nat, end : Nat, token : STRING]

LEMMA ItemsAreTimed ==
  ASSUME NEW segments \in Seq(Utterance)
  PROVE  Items(segments) \in Seq(Timed)
<1> DEFINE item(s, w) == LET start == Or(w.start, s.start)
                             end == Or(Or(w.end, s.end), start)
                         IN  [speaker |-> Name(IF w.speaker = "" THEN s.speaker ELSE w.speaker),
                              start |-> start, end |-> Larger(start, end), token |-> w.token]
           whole(s) == [speaker |-> Name(s.speaker), start |-> s.start,
                        end |-> Or(s.end, s.start), token |-> s.text]
           at(s) == IF s.words = << >> THEN {0} ELSE DOMAIN s.words
           said(p) == LET s == segments[p[1]]
                      IN  IF p[2] = 0 THEN whole(s) ELSE item(s, s.words[p[2]])
           of(i) == {i} \X at(segments[i])
           all == UNION {of(i) : i \in DOMAIN segments}
           timed == {p \in all : said(p).start # NoTime}
           R == {p \in timed \X timed : Precedes(p[1], p[2])}
           order == Listed(timed, R)
           N == Len(segments)
<1>1. N \in Nat /\ DOMAIN segments = 1..N /\ \A i \in 1..N : segments[i] \in Utterance
  OBVIOUS
<1>2. ASSUME NEW i \in 1..N PROVE IsFiniteSet(of(i)) /\ of(i) \subseteq (1..N) \X Nat
  <2>1. segments[i].words \in Seq(Uttered)
    BY <1>1 DEF Utterance
  <2>2. IsFiniteSet(at(segments[i])) /\ at(segments[i]) \subseteq Nat
    <3>1. CASE segments[i].words = << >>
      <4>1. at(segments[i]) = {0}
        BY <3>1
      <4>2. IsFiniteSet({0})
        BY FS_Singleton
      <4>3. {0} \subseteq Nat
        OBVIOUS
      <4> HIDE DEF at
      <4> QED
        BY <4>1, <4>2, <4>3
    <3>2. CASE segments[i].words # << >>
      <4> DEFINE n == Len(segments[i].words)
      <4>1. at(segments[i]) = 1..n /\ n \in Nat
        BY <2>1, <3>2
      <4> HIDE DEF at, n
      <4>2. IsFiniteSet(1..n)
        BY <4>1, FS_Interval
      <4> QED
        BY <4>1, <4>2
    <3> QED
      BY <3>1, <3>2
  <2> HIDE DEF at
  <2>3. IsFiniteSet({i})
    BY FS_Singleton
  <2> QED
    BY <2>2, <2>3, FS_Product
<1> HIDE DEF of
<1>3. IsFiniteSet(all) /\ all \subseteq (1..N) \X Nat
  <2> DEFINE S == {of(i) : i \in DOMAIN segments}
             f == [i \in 1..N |-> of(i)]
  <2>1. f \in Surjection(1..N, S)
    BY <1>1 DEF Surjection
  <2>2. IsFiniteSet(1..N)
    BY <1>1, FS_Interval
  <2>3. \A T \in S : IsFiniteSet(T)
    BY <1>1, <1>2
  <2>4. UNION S \subseteq (1..N) \X Nat
    BY <1>1, <1>2
  <2> HIDE DEF f, S
  <2>5. IsFiniteSet(S)
    BY <2>1, <2>2, FS_Surjection
  <2>6. IsFiniteSet(UNION S)
    BY <2>3, <2>5, FS_UNION
  <2> QED
    BY <2>4, <2>6 DEF S
<1>4. IsFiniteSet(timed) /\ timed \subseteq all
  <2>1. timed \subseteq all
    OBVIOUS
  <2> HIDE DEF timed, all
  <2> QED
    BY <1>3, <2>1, FS_Subset
<1>5. ASSUME NEW p \in timed PROVE said(p) \in Timed
  <2>1. PICK i \in 1..N : p \in of(i)
    BY <1>1
  <2>2. p[1] = i /\ p[2] \in at(segments[i])
    BY <2>1 DEF of
  <2> DEFINE s == segments[i]
  <2>3. /\ s.speaker \in STRING /\ s.start \in Times /\ s.end \in Times /\ s.text \in STRING
        /\ s.words \in Seq(Uttered)
    BY <1>1 DEF Utterance
  <2>4. said(p).start # NoTime
    OBVIOUS
  <2> HIDE DEF s
  <2>5. ASSUME NEW x \in STRING PROVE Name(x) \in Names
    BY DEF Name, Names
  <2>6. CASE p[2] = 0
    <3>1. said(p) = whole(s)
      BY <2>2, <2>6 DEF s
    <3>2. s.start # NoTime
      BY <2>4, <3>1
    <3>3. s.start \in Nat /\ Or(s.end, s.start) \in Nat
      BY <2>3, <3>2 DEF Or, Times
    <3> QED
      BY <2>3, <2>5, <3>1, <3>3 DEF Timed
  <2>7. CASE p[2] # 0
    <3> DEFINE w == s.words[p[2]]
    <3>1. said(p) = item(s, w)
      BY <2>2, <2>7 DEF s
    <3>2. w \in Uttered
      <4>1. p[2] \in DOMAIN s.words
        BY <2>2, <2>7 DEF s
      <4> QED
        BY <2>3, <4>1
    <3>3. w.speaker \in STRING /\ w.start \in Times /\ w.end \in Times /\ w.token \in STRING
      BY <3>2 DEF Uttered
    <3> HIDE DEF w
    <3>4. Or(w.start, s.start) # NoTime
      BY <2>4, <3>1
    <3>5. Or(w.start, s.start) \in Nat
      BY <2>3, <3>3, <3>4 DEF Or, Times
    <3>6. Or(Or(w.end, s.end), Or(w.start, s.start)) \in Nat
      BY <2>3, <3>3, <3>5 DEF Or, Times
    <3>7. Larger(Or(w.start, s.start), Or(Or(w.end, s.end), Or(w.start, s.start))) \in Nat
      BY <3>5, <3>6 DEF Larger
    <3>8. Name(IF w.speaker = "" THEN s.speaker ELSE w.speaker) \in Names
      BY <2>3, <2>5, <3>3
    <3> QED
      BY <3>1, <3>3, <3>5, <3>7, <3>8 DEF Timed
  <2> QED
    BY <2>6, <2>7
<1>6. \A p \in timed : p \in [1..2 -> Int]
  BY <1>1, <1>3, <1>4
<1>7. \A p, q \in timed : <<p, q>> \in R <=> Precedes(p, q)
  OBVIOUS
<1>8. Items(segments) = [n \in 1..Cardinality(timed) |-> said(order[n])]
  BY DEF Items, of
<1> HIDE DEF R, timed, said
<1>9. Orders(R, timed)
  <2>1. \A p \in timed : ~Precedes(p, p)
    BY <1>6, PrecedesIsStrict
  <2>2. \A p, q, r \in timed : Precedes(p, q) /\ Precedes(q, r) => Precedes(p, r)
    BY <1>6, PrecedesIsTransitive
  <2>3. \A p, q \in timed : p # q => Precedes(p, q) \/ Precedes(q, p)
    BY <1>6, PrecedesIsTotal
  <2> QED
    BY <1>7, <2>1, <2>2, <2>3 DEF Orders
<1>10. Cardinality(timed) \in Nat /\ order \in [1..Cardinality(timed) -> timed]
  BY <1>4, <1>9, ListedInOrder
<1> HIDE DEF order
<1>11. \A n \in 1..Cardinality(timed) : said(order[n]) \in Timed
  BY <1>5, <1>10
<1> QED
  BY <1>8, <1>10, <1>11

(* Lists put together.                                                     *)
FlatStates(seqs) ==
  CHOOSE flatten : flatten = [i \in 1..Len(seqs) |->
    IF i = 1 THEN seqs[i] ELSE flatten[i - 1] \o seqs[i]]

LEMMA FlattenSteps ==
  ASSUME NEW T, NEW seqs \in Seq(Seq(T)), seqs # << >>
  PROVE  LET f == FlatStates(seqs)
         IN  /\ FlattenSeq(seqs) = f[Len(seqs)]
             /\ f[1] = seqs[1]
             /\ \A n \in 2..Len(seqs) : f[n] = f[n - 1] \o seqs[n]
             /\ \A n \in 1..Len(seqs) : f[n] \in Seq(T)
<1> DEFINE N == Len(seqs)
           K == N - 1
           D == Seq(T)
           step == [n \in 1..K |-> [d \in D |-> d \o seqs[n + 1]]]
           base == seqs[1]
           body(state, n) == IF n = 1 THEN seqs[n] ELSE state[n - 1] \o seqs[n]
           f == FlatStates(seqs)
<1>1. N \in Nat /\ K \in Nat /\ N = K + 1 /\ base \in D /\ \A n \in 1..N : seqs[n] \in D
  OBVIOUS
<1> HIDE DEF N, K, base
<1>2. \A n \in 1..K : n + 1 \in 1..N
  BY <1>1
<1>3. step \in [1..K -> [D -> D]]
  <2>1. \A n \in 1..K : \A d \in D : d \o seqs[n + 1] \in D
    BY <1>1, <1>2
  <2> HIDE DEF D
  <2> QED
    BY <2>1
<1> HIDE DEF step, D
<1>4. \E g : Recursion(g, K, D, base, step)
  BY <1>1, <1>3, RecursionExists
<1>5. PICK g \in [0..K -> D] : g[0] = base /\ \A n \in 1..K : g[n] = step[n][g[n - 1]]
  BY <1>4 DEF Recursion
<1>6. ASSUME NEW n \in 1..K PROVE g[n] = g[n - 1] \o seqs[n + 1]
  <2>1. g[n - 1] \in D
    BY <1>1
  <2> QED
    BY <1>5, <2>1 DEF step
<1> DEFINE h == [i \in 1..N |-> g[i - 1]]
<1>7. \A n \in 1..N : h[n] = body(h, n) /\ h[n] \in D
  <2> TAKE n \in 1..N
  <2>1. n - 1 \in 0..K /\ h[n] = g[n - 1]
    BY <1>1
  <2>2. CASE n = 1
    BY <1>5, <2>1, <2>2 DEF base
  <2>3. CASE n # 1
    <3>1. n - 1 \in 1..K /\ n - 1 \in 1..N /\ n - 1 + 1 = n
      BY <1>1, <2>3
    <3>2. h[n - 1] = g[n - 1 - 1]
      BY <3>1
    <3>3. g[n - 1] = g[n - 1 - 1] \o seqs[n]
      BY <1>6, <3>1
    <3> QED
      BY <2>1, <2>3, <3>2, <3>3
  <2> QED
    BY <2>2, <2>3
<1>8. h = [n \in 1..N |-> h[n]]
  OBVIOUS
<1> HIDE DEF h, body
<1>9. h = [n \in 1..N |-> body(h, n)]
  BY <1>7, <1>8
<1>10. f = CHOOSE state : state = [n \in 1..N |-> body(state, n)]
  BY DEF FlatStates, body, N
<1>11. FlattenSeq(seqs) = f[N]
  <2>1. Len(seqs) # 0
    BY <1>1 DEF N, K
  <2> QED
    BY <2>1 DEF FlattenSeq, FlatStates, N
<1> HIDE DEF f
<1>12. f = [n \in 1..N |-> body(f, n)]
  BY <1>9, <1>10
<1>13. \A n \in 1..N : f[n] = body(f, n)
  BY <1>12
<1>14. f[1] = seqs[1] /\ \A n \in 2..N : f[n] = f[n - 1] \o seqs[n]
  <2>1. 1 \in 1..N /\ \A n \in 2..N : n \in 1..N /\ n # 1
    BY <1>1
  <2> QED
    BY <1>13, <2>1 DEF body
<1>15. \A n \in 1..N : f[n] \in D
  <2> DEFINE P == {n \in 0..N : n = 0 \/ f[n] \in D}
  <2>1. 0 \in P
    BY <1>1
  <2>2. ASSUME NEW n \in 1..N, n - 1 \in P PROVE n \in P
    <3>1. CASE n = 1
      BY <1>1, <1>14, <3>1
    <3>2. CASE n # 1
      <4>1. n \in 2..N /\ f[n - 1] \in D /\ seqs[n] \in D
        BY <1>1, <2>2, <3>2
      <4>2. f[n] = f[n - 1] \o seqs[n]
        BY <1>14, <4>1
      <4>3. f[n] \in D
        BY <4>1, <4>2 DEF D
      <4> QED
        BY <1>1, <4>3
    <3> QED
      BY <3>1, <3>2
  <2> HIDE DEF P
  <2>3. 0..N \subseteq P
    BY <1>1, <2>1, <2>2, InductUpTo
  <2> QED
    BY <1>1, <2>3 DEF P
<1> QED
  BY <1>11, <1>14, <1>15 DEF f, N, D

LEMMA FlattenAgrees ==
  ASSUME NEW T, NEW a \in Seq(Seq(T)), NEW b \in Seq(Seq(T)), NEW k \in Nat, k > 0,
         k <= Len(a), k <= Len(b), \A i \in 1..k : a[i] = b[i]
  PROVE  FlatStates(a)[k] = FlatStates(b)[k]
<1> DEFINE f == FlatStates(a)
           g == FlatStates(b)
           P == {n \in 0..k : n = 0 \/ f[n] = g[n]}
<1>1. a # << >> /\ b # << >> /\ 2..k \subseteq 2..Len(a) /\ 2..k \subseteq 2..Len(b)
  OBVIOUS
<1>2. f[1] = a[1] /\ \A n \in 2..k : f[n] = f[n - 1] \o a[n]
  BY <1>1, FlattenSteps
<1>3. g[1] = b[1] /\ \A n \in 2..k : g[n] = g[n - 1] \o b[n]
  BY <1>1, FlattenSteps
<1> HIDE DEF f, g
<1>4. 0 \in P
  OBVIOUS
<1>5. ASSUME NEW n \in 1..k, n - 1 \in P PROVE n \in P
  <2>1. CASE n = 1
    BY <1>2, <1>3, <2>1
  <2>2. CASE n # 1
    <3>1. n \in 2..k /\ f[n - 1] = g[n - 1] /\ a[n] = b[n] /\ n \in 0..k
      BY <1>5, <2>2
    <3> QED
      BY <1>2, <1>3, <3>1
  <2> QED
    BY <2>1, <2>2
<1> HIDE DEF P
<1>6. 0..k \subseteq P
  BY <1>4, <1>5, InductUpTo
<1> QED
  BY <1>6 DEF P, f, g

LEMMA FlattenEmpty ==
  ASSUME NEW seqs, seqs = << >>
  PROVE  FlattenSeq(seqs) = << >>
BY DEF FlattenSeq

LEMMA FlattenAppends ==
  ASSUME NEW T, NEW seqs \in Seq(Seq(T)), NEW s \in Seq(T)
  PROVE  FlattenSeq(Append(seqs, s)) = FlattenSeq(seqs) \o s /\ FlattenSeq(seqs) \in Seq(T)
<1> DEFINE out == Append(seqs, s)
           n == Len(seqs)
           f == FlatStates(seqs)
           g == FlatStates(out)
<1>1. /\ out \in Seq(Seq(T)) /\ n \in Nat /\ Len(out) = n + 1 /\ out # << >>
      /\ out[n + 1] = s /\ \A i \in 1..n : out[i] = seqs[i]
  <2> DEFINE X == Seq(T)
  <2>1. s \in X /\ seqs \in Seq(X)
    OBVIOUS
  <2> HIDE DEF X
  <2>2. /\ out \in Seq(X) /\ n \in Nat /\ Len(out) = n + 1 /\ out # << >>
        /\ out[n + 1] = s /\ \A i \in 1..n : out[i] = seqs[i]
    BY <2>1
  <2> QED
    BY <2>2 DEF X
<1> HIDE DEF out
<1>2. FlattenSeq(out) = g[n + 1] /\ g[1] = out[1] /\ \A i \in 2..(n + 1) : g[i] = g[i - 1] \o out[i]
  BY <1>1, FlattenSteps
<1>3. CASE seqs = << >>
  <2>1. n = 0 /\ FlattenSeq(seqs) = << >>
    BY <1>3, FlattenEmpty
  <2>2. FlattenSeq(out) = s
    BY <1>1, <1>2, <2>1
  <2>3. << >> \o s = s /\ << >> \in Seq(T)
    OBVIOUS
  <2> QED
    BY <2>1, <2>2, <2>3 DEF out
<1>4. CASE seqs # << >>
  <2>1. n > 0 /\ n + 1 \in 2..(n + 1) /\ n + 1 - 1 = n
    BY <1>1, <1>4
  <2>2. f[n] = g[n]
    <3>1. n <= Len(seqs) /\ n <= Len(out) /\ \A i \in 1..n : seqs[i] = out[i]
      BY <1>1
    <3> HIDE DEF n
    <3> QED
      BY <1>1, <2>1, <3>1, FlattenAgrees
  <2>3. FlattenSeq(seqs) = f[n] /\ f[n] \in Seq(T)
    <3>1. n \in 1..n
      BY <1>1, <2>1
    <3> QED
      BY <1>4, <3>1, FlattenSteps
  <2>4. g[n + 1] = g[n] \o s
    <3> DEFINE m == n + 1
    <3>1. \A i \in 2..m : g[i] = g[i - 1] \o out[i]
      BY <1>2
    <3>2. m \in 2..m /\ m - 1 = n
      BY <1>1, <2>1
    <3> HIDE DEF g, n, m
    <3>3. g[m] = g[m - 1] \o out[m]
      BY <3>1, <3>2, Zenon
    <3>4. g[m] = g[n] \o out[m]
      BY <3>2, <3>3, Zenon
    <3> QED
      BY <1>1, <3>4 DEF m
  <2> QED
    BY <1>2, <2>2, <2>3, <2>4 DEF out
<1> QED
  BY <1>3, <1>4

LEMMA FlattenIsList ==
  ASSUME NEW T, NEW seqs \in Seq(Seq(T))
  PROVE  FlattenSeq(seqs) \in Seq(T)
<1>1. << >> \in Seq(T)
  OBVIOUS
<1> QED
  BY <1>1, FlattenAppends

LEMMA LastSplit ==
  ASSUME NEW X, NEW seqs \in Seq(X), seqs # << >>
  PROVE  seqs = Append(SubSeq(seqs, 1, Len(seqs) - 1), seqs[Len(seqs)])
OBVIOUS

LEMMA LastReplaced ==
  ASSUME NEW X, NEW seqs \in Seq(X), seqs # << >>, NEW x \in X
  PROVE  /\ [seqs EXCEPT ![Len(seqs)] = x] = Append(SubSeq(seqs, 1, Len(seqs) - 1), x)
         /\ [seqs EXCEPT ![Len(seqs)] = x] \in Seq(X)
<1> DEFINE n == Len(seqs)
           out == [seqs EXCEPT ![n] = x]
           app == Append(SubSeq(seqs, 1, n - 1), x)
<1>1. n \in Nat /\ n > 0 /\ DOMAIN seqs = 1..n /\ \A i \in 1..n : seqs[i] \in X
  OBVIOUS
<1>2. out \in [1..n -> X]
  BY <1>1
<1>3. out \in Seq(X) /\ DOMAIN out = 1..n
  BY <1>1, <1>2
<1>4. DOMAIN app = 1..n /\ app \in Seq(X)
  BY <1>1
<1>5. ASSUME NEW i \in 1..n PROVE app[i] = IF i = n THEN x ELSE seqs[i]
  <2> DEFINE front == SubSeq(seqs, 1, n - 1)
  <2>1. front \in Seq(X) /\ Len(front) = n - 1 /\ \A j \in 1..(n - 1) : front[j] = seqs[j]
    BY <1>1
  <2> HIDE DEF front, n
  <2>2. CASE i = n
    BY <1>1, <2>1, <2>2 DEF front
  <2>3. CASE i # n
    <3>1. i \in 1..(n - 1)
      BY <1>1, <2>3
    <3>2. Append(front, x)[i] = front[i]
      BY <1>1, <2>1, <3>1
    <3> QED
      BY <2>1, <2>3, <3>1, <3>2 DEF front
  <2> QED
    BY <2>2, <2>3
<1>6. \A i \in 1..n : out[i] = IF i = n THEN x ELSE seqs[i]
  BY <1>1
<1>7. out = [i \in 1..n |-> out[i]]
  BY <1>2
<1>8. app = [i \in 1..n |-> app[i]]
  BY <1>4
<1> HIDE DEF out, app
<1>9. out = app
  BY <1>5, <1>6, <1>7, <1>8
<1> QED
  BY <1>3, <1>9 DEF out, app

LEMMA FlattenLonger ==
  ASSUME NEW T, NEW seqs \in Seq(Seq(T)), seqs # << >>, NEW x \in T
  PROVE  FlattenSeq([seqs EXCEPT ![Len(seqs)] = Append(@, x)]) = Append(FlattenSeq(seqs), x)
<1> DEFINE n == Len(seqs)
           last == seqs[n]
           front == SubSeq(seqs, 1, n - 1)
           out == [seqs EXCEPT ![n] = Append(@, x)]
<1>1. last \in Seq(T) /\ front \in Seq(Seq(T))
  <2> DEFINE X == Seq(T)
  <2> HIDE DEF X
  <2>1. seqs \in Seq(X) => last \in X /\ front \in Seq(X)
    OBVIOUS
  <2> QED
    BY <2>1 DEF X
<1>5. Append(last, x) \in Seq(T)
  BY <1>1
<1>2. seqs = Append(front, last)
  BY LastSplit
<1>3. out = Append(front, Append(last, x))
  <2> DEFINE X == Seq(T)
             longer == Append(last, x)
  <2>1. longer \in X /\ seqs \in Seq(X) /\ out = [seqs EXCEPT ![n] = longer]
    BY <1>5
  <2> HIDE DEF X, longer, out
  <2>2. [seqs EXCEPT ![Len(seqs)] = longer] = Append(SubSeq(seqs, 1, Len(seqs) - 1), longer)
    BY <2>1, LastReplaced
  <2> QED
    BY <2>1, <2>2 DEF longer
<1> HIDE DEF front, last, out
<1>4. FlattenSeq(seqs) = FlattenSeq(front) \o last /\ FlattenSeq(front) \in Seq(T)
  BY <1>1, <1>2, FlattenAppends
<1>6. FlattenSeq(out) = FlattenSeq(front) \o Append(last, x)
  BY <1>1, <1>3, <1>5, FlattenAppends
<1>7. \A u, v \in Seq(T) : u \o Append(v, x) = Append(u \o v, x)
  OBVIOUS
<1> QED
  BY <1>1, <1>4, <1>6, <1>7 DEF out

(* The turns, and the states they go through item by item. *)
Turn == [speaker : Names, start : Nat, end : Nat, tokens : Seq(STRING)]
Single(i) == [speaker |-> i.speaker, start |-> i.start, end |-> i.end, tokens |-> <<i.token>>]
Longer(turn, i) ==
  [speaker |-> turn.speaker, start |-> turn.start, end |-> Larger(turn.end, i.end),
   tokens |-> Append(turn.tokens, i.token)]
TurnStates(items, gap, limit) ==
  CHOOSE after : after = [n \in 0..Len(items) |->
    IF n = 0 THEN << >> ELSE Said(after[n - 1], items[n], gap, limit)]

(* An item begins a turn or makes the last one longer.                     *)
LEMMA SaidEither ==
  ASSUME NEW turns \in Seq(Turn), NEW i \in Timed, NEW gap, NEW limit
  PROVE  /\ Single(i) \in Turn
         /\ turns = << >> \/ Starts(turns[Len(turns)], i, gap, limit)
              => Said(turns, i, gap, limit) = Append(turns, Single(i))
         /\ ~(turns = << >> \/ Starts(turns[Len(turns)], i, gap, limit))
              => /\ Said(turns, i, gap, limit) = [turns EXCEPT ![Len(turns)] = Longer(turns[Len(turns)], i)]
                 /\ Longer(turns[Len(turns)], i) \in Turn
<1>1. i.speaker \in Names /\ i.start \in Nat /\ i.end \in Nat /\ i.token \in STRING
  BY DEF Timed
<1>2. Single(i) \in Turn
  BY <1>1 DEF Single, Turn
<1>3. ASSUME turns = << >> \/ Starts(turns[Len(turns)], i, gap, limit)
      PROVE  Said(turns, i, gap, limit) = Append(turns, Single(i))
  BY <1>3, Zenon DEF Said, Single, Last
<1>4. ASSUME ~(turns = << >> \/ Starts(turns[Len(turns)], i, gap, limit))
      PROVE  /\ Said(turns, i, gap, limit) = [turns EXCEPT ![Len(turns)] = Longer(turns[Len(turns)], i)]
             /\ Longer(turns[Len(turns)], i) \in Turn
  <2> DEFINE last == turns[Len(turns)]
  <2>1. turns # << >> /\ Len(turns) \in DOMAIN turns /\ last \in Turn
    BY <1>4
  <2>2. Said(turns, i, gap, limit) =
          [turns EXCEPT ![Len(turns)] =
            [last EXCEPT !.end = Larger(@, i.end), !.tokens = Append(@, i.token)]]
    BY <1>4, Zenon DEF Said, Last
  <2>3. Larger(last.end, i.end) \in Nat /\ Append(last.tokens, i.token) \in Seq(STRING)
    BY <1>1, <2>1 DEF Turn, Larger
  <2>4. Longer(last, i) \in Turn
    BY <2>1, <2>3 DEF Longer, Turn
  <2>5. [last EXCEPT !.end = Larger(@, i.end), !.tokens = Append(@, i.token)] = Longer(last, i)
    <3>1. PICK s \in Names, b \in Nat, e \in Nat, l \in Seq(STRING) :
            last = [speaker |-> s, start |-> b, end |-> e, tokens |-> l]
      BY <2>1 DEF Turn
    <3> DEFINE x == Larger(e, i.end)
               y == Append(l, i.token)
    <3>2. last.speaker = s /\ last.start = b /\ last.end = e /\ last.tokens = l
      BY <3>1
    <3> HIDE DEF last
    <3>3. Longer(last, i) = [speaker |-> s, start |-> b, end |-> x, tokens |-> y]
      BY <3>2 DEF Longer
    <3>4. [last EXCEPT !.end = Larger(@, i.end)] = [speaker |-> s, start |-> b, end |-> x, tokens |-> l]
      BY <3>1
    <3> HIDE DEF x, y
    <3>5. [[speaker |-> s, start |-> b, end |-> x, tokens |-> l] EXCEPT !.tokens = Append(@, i.token)]
            = [speaker |-> s, start |-> b, end |-> x, tokens |-> y]
      <4> DEFINE r == [speaker |-> s, start |-> b, end |-> x, tokens |-> l]
      <4>1. Append(r.tokens, i.token) = y
        BY DEF y
      <4>2. [r EXCEPT !.tokens = y] = [speaker |-> s, start |-> b, end |-> x, tokens |-> y]
        OBVIOUS
      <4> HIDE DEF r
      <4>3. [r EXCEPT !.tokens = Append(@, i.token)] = [r EXCEPT !.tokens = y]
        BY <4>1, Zenon
      <4> QED
        BY <4>2, <4>3 DEF r
    <3> QED
      BY <3>3, <3>4, <3>5
  <2> HIDE DEF last
  <2> QED
    BY <2>2, <2>4, <2>5, Zenon DEF last
<1> QED
  BY <1>2, <1>3, <1>4

LEMMA SaidIsTurns ==
  ASSUME NEW turns \in Seq(Turn), NEW i \in Timed, NEW gap, NEW limit
  PROVE  Said(turns, i, gap, limit) \in Seq(Turn)
<1> DEFINE new == turns = << >> \/ Starts(turns[Len(turns)], i, gap, limit)
<1>1. CASE new
  <2>1. Said(turns, i, gap, limit) = Append(turns, Single(i)) /\ Single(i) \in Turn
    BY <1>1, SaidEither
  <2> QED
    BY <2>1
<1>2. CASE ~new
  <2> DEFINE x == Longer(turns[Len(turns)], i)
  <2>1. Said(turns, i, gap, limit) = [turns EXCEPT ![Len(turns)] = x] /\ x \in Turn /\ turns # << >>
    BY <1>2, SaidEither
  <2> HIDE DEF x
  <2> QED
    BY <2>1, LastReplaced
<1> QED
  BY <1>1, <1>2

LEMMA TurnsSteps ==
  ASSUME NEW items \in Seq(Timed), NEW gap, NEW limit
  PROVE  LET f == TurnStates(items, gap, limit)
         IN  /\ (\E n \in DOMAIN items : items[n].speaker # "UNKNOWN")
                  => Turns(items, gap, limit) = f[Len(items)]
             /\ ~(\E n \in DOMAIN items : items[n].speaker # "UNKNOWN")
                  => Turns(items, gap, limit) = << >>
             /\ f[0] = << >>
             /\ \A n \in 1..Len(items) : f[n] = Said(f[n - 1], items[n], gap, limit)
<1> DEFINE N == Len(items)
           D == Seq(Turn)
           step == [n \in 1..N |-> [d \in D |-> Said(d, items[n], gap, limit)]]
           body(state, n) == IF n = 0 THEN << >> ELSE Said(state[n - 1], items[n], gap, limit)
           base == << >>
           f == TurnStates(items, gap, limit)
           labelled == \E n \in DOMAIN items : items[n].speaker # "UNKNOWN"
<1>1. N \in Nat /\ base \in D /\ \A n \in 1..N : items[n] \in Timed
  OBVIOUS
<1>2. \A n \in 1..N : \A d \in D : Said(d, items[n], gap, limit) \in D
  BY <1>1, SaidIsTurns
<1> HIDE DEF D
<1>3. step \in [1..N -> [D -> D]]
  BY <1>2
<1> HIDE DEF N, step, base
<1>4. \E g : Recursion(g, N, D, base, step)
  BY <1>1, <1>3, RecursionExists
<1>5. PICK g \in [0..N -> D] : g[0] = << >> /\ \A n \in 1..N : g[n] = step[n][g[n - 1]]
  BY <1>4 DEF base, Recursion
<1>6. ASSUME NEW n \in 1..N PROVE g[n] = Said(g[n - 1], items[n], gap, limit)
  <2>1. g[n - 1] \in D
    BY <1>1
  <2> QED
    BY <1>5, <2>1 DEF step
<1>7. \A n \in 0..N : g[n] = body(g, n)
  <2> TAKE n \in 0..N
  <2>1. n # 0 => n \in 1..N
    BY <1>1
  <2> QED
    BY <1>5, <1>6, <2>1
<1> HIDE DEF body
<1>8. g = [n \in 0..N |-> body(g, n)]
  BY <1>5, <1>7
<1>9. f = CHOOSE state : state = [n \in 0..N |-> body(state, n)]
  BY DEF TurnStates, body, N
<1>10. labelled => Turns(items, gap, limit) = f[N]
  BY Zenon DEF Turns, TurnStates, N
<1>11. ~labelled => Turns(items, gap, limit) = << >>
  BY Zenon DEF Turns
<1> HIDE DEF f
<1>12. f = [n \in 0..N |-> body(f, n)]
  BY <1>8, <1>9
<1>13. f[0] = << >> /\ \A n \in 1..N : f[n] = Said(f[n - 1], items[n], gap, limit)
  <2>1. \A n \in 0..N : f[n] = body(f, n)
    BY <1>12
  <2>2. 0 \in 0..N /\ \A n \in 1..N : n \in 0..N /\ n # 0
    BY <1>1
  <2> QED
    BY <2>1, <2>2 DEF body
<1> QED
  BY <1>10, <1>11, <1>13 DEF f, N

(* What holds after n items. *)
Spoken(turns) == [t \in DOMAIN turns |-> turns[t].tokens]
TellsAll(turns, n, items) ==
  /\ turns \in Seq(Turn)
  /\ n > 0 => turns # << >>
  /\ FlattenSeq(Spoken(turns)) = [i \in 1..n |-> items[i].token]
OfSpeaker(turn, token, n, items) ==
  \E i \in 1..n : items[i].token = token /\ items[i].speaker = turn.speaker
                  /\ items[i].end <= turn.end
TellsOwn(turns, n, items) ==
  \A t \in DOMAIN turns : \A k \in DOMAIN turns[t].tokens :
    OfSpeaker(turns[t], turns[t].tokens[k], n, items)
ShortOrOne(turn, n, items, limit) ==
  \/ turn.end - turn.start <= limit
  \/ \E i \in 1..n : items[i].token = turn.tokens[1] /\ items[i].end = turn.end
TellsShort(turns, n, items, limit) ==
  \A t \in DOMAIN turns :
    turns[t].tokens # << >> /\ (limit > 0 => ShortOrOne(turns[t], n, items, limit))
Parted(before, after, gap, limit) ==
  before.speaker = after.speaker =>
    \/ after.start - before.end > gap
    \/ limit > 0 /\ after.end - before.start > limit
TellsApart(turns, gap, limit) ==
  \A t \in 2..Len(turns) : Parted(turns[t - 1], turns[t], gap, limit)

(* The places of a list that is one longer, and of one whose last is new. *)
LEMMA AppendedPlaces ==
  ASSUME NEW X, NEW s \in Seq(X), NEW x \in X
  PROVE  LET out == Append(s, x)
         IN  /\ out \in Seq(X) /\ out # << >> /\ Len(out) = Len(s) + 1 /\ Len(s) \in Nat
             /\ out[Len(s) + 1] = x
             /\ \A t \in 1..Len(s) : out[t] = s[t]
             /\ DOMAIN out = 1..(Len(s) + 1) /\ DOMAIN s = 1..Len(s)
OBVIOUS

LEMMA ReplacedPlaces ==
  ASSUME NEW X, NEW s \in Seq(X), s # << >>, NEW x \in X
  PROVE  LET out == [s EXCEPT ![Len(s)] = x]
         IN  /\ out \in Seq(X) /\ out # << >> /\ Len(out) = Len(s) /\ Len(s) \in Nat \ {0}
             /\ out[Len(s)] = x /\ s[Len(s)] \in X
             /\ \A t \in 1..(Len(s) - 1) : out[t] = s[t]
             /\ DOMAIN out = 1..Len(s) /\ DOMAIN s = 1..Len(s)
<1> DEFINE n == Len(s)
           out == [s EXCEPT ![n] = x]
<1>1. n \in Nat \ {0} /\ DOMAIN s = 1..n /\ s[n] \in X
  OBVIOUS
<1>2. out \in Seq(X)
  BY LastReplaced
<1>3. DOMAIN out = 1..n /\ out[n] = x /\ \A t \in 1..(n - 1) : out[t] = s[t]
  <2>1. s \in [1..n -> X]
    BY <1>1
  <2> HIDE DEF n
  <2>2. n \in 1..n /\ \A t \in 1..(n - 1) : t \in 1..n /\ t # n
    BY <1>1
  <2> QED
    BY <2>1, <2>2
<1>4. Len(out) = n /\ out # << >>
  <2> HIDE DEF out, n
  <2> QED
    BY <1>1, <1>2, <1>3
<1> QED
  BY <1>1, <1>2, <1>3, <1>4

LEMMA SpokenLists ==
  ASSUME NEW turns \in Seq(Turn)
  PROVE  /\ Spoken(turns) \in Seq(Seq(STRING)) /\ Len(Spoken(turns)) = Len(turns)
         /\ DOMAIN Spoken(turns) = DOMAIN turns
         /\ \A t \in DOMAIN turns : Spoken(turns)[t] = turns[t].tokens
<1> DEFINE L == Len(turns)
           X == Seq(STRING)
<1>1. L \in Nat /\ DOMAIN turns = 1..L /\ \A t \in 1..L : turns[t].tokens \in X
  <2>1. L \in Nat /\ DOMAIN turns = 1..L /\ \A t \in 1..L : turns[t] \in Turn
    OBVIOUS
  <2>2. \A turn \in Turn : turn.tokens \in X
    BY DEF Turn
  <2> QED
    BY <2>1, <2>2
<1>2. Spoken(turns) = [t \in 1..L |-> turns[t].tokens]
  BY <1>1 DEF Spoken
<1> HIDE DEF X, L
<1>3. Spoken(turns) \in [1..L -> X]
  BY <1>1, <1>2
<1>4. Spoken(turns) \in Seq(X) /\ Len(Spoken(turns)) = L /\ DOMAIN Spoken(turns) = 1..L
  BY <1>1, <1>3
<1> QED
  BY <1>1, <1>2, <1>4 DEF X, L

LEMMA SpokenAppends ==
  ASSUME NEW turns \in Seq(Turn), NEW turn \in Turn
  PROVE  Spoken(Append(turns, turn)) = Append(Spoken(turns), turn.tokens)
<1> DEFINE out == Append(turns, turn)
           a == Spoken(out)
           b == Append(Spoken(turns), turn.tokens)
           L == Len(turns)
           X == Seq(STRING)
<1>1. /\ out \in Seq(Turn) /\ Len(out) = L + 1 /\ L \in Nat /\ out[L + 1] = turn
      /\ \A t \in 1..L : out[t] = turns[t]
      /\ DOMAIN out = 1..(L + 1) /\ DOMAIN turns = 1..L
  BY AppendedPlaces
<1>2. turn.tokens \in X
  BY DEF Turn
<1> HIDE DEF out, L
<1>3. /\ a \in Seq(X) /\ DOMAIN a = 1..(L + 1)
      /\ \A t \in 1..(L + 1) : a[t] = out[t].tokens
  BY <1>1, SpokenLists
<1>4. /\ Spoken(turns) \in Seq(X) /\ Len(Spoken(turns)) = L
      /\ \A t \in 1..L : Spoken(turns)[t] = turns[t].tokens
  BY <1>1, SpokenLists DEF L
<1> HIDE DEF a, X
<1>5. /\ b \in Seq(X) /\ DOMAIN b = 1..(L + 1) /\ b[L + 1] = turn.tokens
      /\ \A t \in 1..L : b[t] = turns[t].tokens
  <2> DEFINE x == turn.tokens
             s == Spoken(turns)
  <2>1. x \in X /\ s \in Seq(X) /\ Len(s) = L
    BY <1>2, <1>4
  <2> HIDE DEF x, s
  <2>2. /\ Append(s, x) \in Seq(X) /\ DOMAIN Append(s, x) = 1..(L + 1) /\ Append(s, x)[L + 1] = x
        /\ \A t \in 1..L : Append(s, x)[t] = s[t]
    BY <2>1, AppendedPlaces
  <2> QED
    BY <1>4, <2>2 DEF x, s
<1> HIDE DEF b
<1>6. \A t \in 1..(L + 1) : a[t] = b[t]
  BY <1>1, <1>3, <1>5
<1>7. a = [t \in 1..(L + 1) |-> a[t]] /\ b = [t \in 1..(L + 1) |-> b[t]]
  BY <1>3, <1>5
<1>8. a = b
  BY <1>6, <1>7
<1> QED
  BY <1>8 DEF a, b, out

LEMMA SpokenLonger ==
  ASSUME NEW turns \in Seq(Turn), turns # << >>, NEW turn \in Turn, NEW token,
         turn.tokens = Append(turns[Len(turns)].tokens, token)
  PROVE  Spoken([turns EXCEPT ![Len(turns)] = turn])
           = [Spoken(turns) EXCEPT ![Len(Spoken(turns))] = Append(@, token)]
<1> DEFINE out == [turns EXCEPT ![Len(turns)] = turn]
           s == Spoken(turns)
           a == Spoken(out)
           L == Len(turns)
           x == turn.tokens
           b == [s EXCEPT ![L] = x]
           X == Seq(STRING)
<1>1. /\ out \in Seq(Turn) /\ L \in Nat \ {0} /\ out[L] = turn
      /\ \A t \in 1..(L - 1) : out[t] = turns[t]
      /\ DOMAIN out = 1..L /\ DOMAIN turns = 1..L
  BY ReplacedPlaces
<1>2. x \in X
  BY DEF Turn
<1> HIDE DEF out, L
<1>3. /\ a \in Seq(X) /\ DOMAIN a = 1..L
      /\ \A t \in 1..L : a[t] = out[t].tokens
  BY <1>1, SpokenLists
<1>4. /\ s \in Seq(X) /\ Len(s) = L /\ DOMAIN s = 1..L
      /\ \A t \in 1..L : s[t] = turns[t].tokens
  BY <1>1, SpokenLists DEF L
<1> HIDE DEF a, X, s
<1>5. /\ DOMAIN b = 1..L /\ b[L] = x
      /\ \A t \in 1..(L - 1) : b[t] = turns[t].tokens
      /\ b = [t \in 1..L |-> b[t]]
  <2>1. s \in [1..L -> X] /\ L \in 1..L /\ \A t \in 1..(L - 1) : t \in 1..L /\ t # L
    BY <1>1, <1>4
  <2> HIDE DEF x
  <2>2. b \in [1..L -> X] /\ b[L] = x /\ \A t \in 1..(L - 1) : b[t] = s[t]
    BY <1>2, <2>1
  <2> QED
    BY <1>4, <2>1, <2>2
<1>6. s[L] = turns[L].tokens
  BY <1>1, <1>4
<1>7. [s EXCEPT ![Len(s)] = Append(@, token)] = b
  BY <1>4, <1>6, Zenon DEF L
<1> HIDE DEF b
<1>8. \A t \in 1..L : a[t] = b[t]
  <2> TAKE t \in 1..L
  <2>1. CASE t = L
    BY <1>1, <1>3, <1>5, <2>1
  <2>2. CASE t # L
    <3>1. t \in 1..(L - 1)
      BY <1>1, <2>2
    <3> HIDE DEF x
    <3> QED
      BY <1>1, <1>3, <1>5, <3>1
  <2> QED
    BY <2>1, <2>2
<1>9. a = [t \in 1..L |-> a[t]]
  BY <1>3
<1>10. a = b
  BY <1>5, <1>8, <1>9
<1> QED
  BY <1>7, <1>10 DEF a, s, out, L

LEMMA TellsAllAgain ==
  ASSUME NEW items \in Seq(Timed), NEW n \in 1..Len(items), NEW gap, NEW limit, NEW turns,
         TellsAll(turns, n - 1, items)
  PROVE  TellsAll(Said(turns, items[n], gap, limit), n, items)
<1> DEFINE i == items[n]
           out == Said(turns, i, gap, limit)
           new == turns = << >> \/ Starts(turns[Len(turns)], i, gap, limit)
           told == FlattenSeq(Spoken(turns))
<1>0. i \in Timed /\ n \in Nat /\ n > 0
  OBVIOUS
<1>1. i \in Timed /\ i.token \in STRING /\ n \in Nat /\ n > 0
  <2> HIDE DEF i
  <2> QED
    BY <1>0 DEF Timed
<1>2. turns \in Seq(Turn) /\ told = [j \in 1..(n - 1) |-> items[j].token]
  BY DEF TellsAll
<1>3. Spoken(turns) \in Seq(Seq(STRING)) /\ Len(Spoken(turns)) = Len(turns)
  BY <1>2, SpokenLists
<1>4. out \in Seq(Turn)
  BY <1>1, <1>2, SaidIsTurns
<1>5. ASSUME NEW l, l \in Seq(STRING), l = [j \in 1..(n - 1) |-> items[j].token]
      PROVE  l \o <<i.token>> = [j \in 1..n |-> items[j].token]
  <2>1. Len(l) = n - 1
    BY <1>1, <1>5
  <2> DEFINE m == l \o <<i.token>>
  <2>2. DOMAIN m = 1..n /\ m \in Seq(STRING)
    BY <1>1, <1>5, <2>1
  <2>3. ASSUME NEW j \in 1..n PROVE m[j] = items[j].token
    <3>1. CASE j = n
      BY <1>1, <1>5, <2>1, <3>1
    <3>2. CASE j # n
      <4>1. j \in 1..(n - 1) /\ j <= Len(l)
        BY <1>1, <2>1, <3>2
      <4>2. m[j] = l[j]
        BY <1>1, <1>5, <2>1, <4>1
      <4> QED
        BY <1>5, <4>1, <4>2
    <3> QED
      BY <3>1, <3>2
  <2>4. m = [j \in 1..n |-> m[j]]
    BY <2>2
  <2> HIDE DEF m
  <2>5. m = [j \in 1..n |-> items[j].token]
    BY <2>3, <2>4
  <2> QED
    BY <2>5 DEF m
<1>6. told \in Seq(STRING)
  BY <1>3, FlattenIsList
<1>7. CASE new
  <2> HIDE DEF i
  <2>0. Single(i).tokens = <<i.token>>
    BY DEF Single
  <2>1. out = Append(turns, Single(i)) /\ Single(i) \in Turn /\ Single(i).tokens = <<i.token>>
    BY <1>1, <1>2, <1>7, <2>0, SaidEither
  <2>2. out # << >>
    <3> DEFINE x == Single(i)
    <3> HIDE DEF out, x
    <3> QED
      BY <1>2, <2>1, AppendedPlaces DEF x
  <2>3. Spoken(out) = Append(Spoken(turns), <<i.token>>)
    BY <1>2, <2>1, SpokenAppends
  <2>4. <<i.token>> \in Seq(STRING)
    BY <1>1
  <2> HIDE DEF out, i
  <2>5. FlattenSeq(Spoken(out)) = told \o <<i.token>>
    BY <1>3, <2>3, <2>4, FlattenAppends
  <2> HIDE DEF told
  <2>6. FlattenSeq(Spoken(out)) = [j \in 1..n |-> items[j].token]
    BY <1>2, <1>5, <1>6, <2>5
  <2> QED
    BY <1>4, <2>2, <2>6 DEF TellsAll, out, i
<1>8. CASE ~new
  <2> DEFINE turn == Longer(turns[Len(turns)], i)
  <2> HIDE DEF i
  <2>1. out = [turns EXCEPT ![Len(turns)] = turn] /\ turn \in Turn /\ turns # << >>
    <3>1. turns \in Seq(Turn)
      BY <1>2
    <3> QED
      BY <1>0, <1>8, <3>1, SaidEither, Zenon
  <2>2. turn.tokens = Append(turns[Len(turns)].tokens, i.token)
    BY DEF Longer
  <2>3. out # << >>
    <3> HIDE DEF turn
    <3> QED
      BY <1>2, <2>1, ReplacedPlaces
  <2> HIDE DEF out, turn
  <2>4. Spoken(out) = [Spoken(turns) EXCEPT ![Len(Spoken(turns))] = Append(@, i.token)]
    BY <1>2, <2>1, <2>2, SpokenLonger
  <2>5. Spoken(turns) # << >>
    <3>1. Len(turns) # 0
      BY <1>2, <2>1
    <3> QED
      BY <1>3, <3>1
  <2>6. FlattenSeq(Spoken(out)) = Append(told, i.token)
    BY <1>1, <1>3, <2>4, <2>5, FlattenLonger
  <2>7. Append(told, i.token) = told \o <<i.token>>
    BY <1>1, <1>6
  <2> HIDE DEF told, i
  <2>8. FlattenSeq(Spoken(out)) = [j \in 1..n |-> items[j].token]
    BY <1>2, <1>5, <1>6, <2>6, <2>7
  <2> QED
    BY <1>4, <2>3, <2>8 DEF TellsAll, out, i
<1> QED
  BY <1>7, <1>8

LEMMA TellsOwnAgain ==
  ASSUME NEW items \in Seq(Timed), NEW n \in 1..Len(items), NEW gap, NEW limit, NEW turns,
         turns \in Seq(Turn), TellsOwn(turns, n - 1, items)
  PROVE  TellsOwn(Said(turns, items[n], gap, limit), n, items)
<1> DEFINE i == items[n]
           out == Said(turns, i, gap, limit)
           new == turns = << >> \/ Starts(turns[Len(turns)], i, gap, limit)
           L == Len(turns)
<1>0. i \in Timed /\ n \in Nat /\ n > 0 /\ 1..(n - 1) \subseteq 1..n /\ n \in 1..n
  OBVIOUS
<1>1. i \in Timed /\ i.end \in Nat /\ n \in Nat /\ n > 0 /\ 1..(n - 1) \subseteq 1..n /\ n \in 1..n
  <2> HIDE DEF i
  <2> QED
    BY <1>0 DEF Timed
<1>2. ASSUME NEW t \in DOMAIN turns, NEW k \in DOMAIN turns[t].tokens
      PROVE  OfSpeaker(turns[t], turns[t].tokens[k], n, items)
  BY <1>1 DEF TellsOwn, OfSpeaker
<1>3. CASE new
  <2>1. out = Append(turns, Single(i)) /\ Single(i) \in Turn
    <3> HIDE DEF i
    <3> QED
      BY <1>1, <1>3, SaidEither
  <2>2. /\ out[L + 1] = Single(i) /\ \A t \in 1..L : out[t] = turns[t]
        /\ DOMAIN out = 1..(L + 1) /\ DOMAIN turns = 1..L /\ L \in Nat
    BY <2>1, AppendedPlaces
  <2>3. \A k \in DOMAIN Single(i).tokens : OfSpeaker(Single(i), Single(i).tokens[k], n, items)
    BY <1>1 DEF Single, OfSpeaker
  <2> HIDE DEF out, L, i
  <2>4. ASSUME NEW t \in DOMAIN out, NEW k \in DOMAIN out[t].tokens
        PROVE  OfSpeaker(out[t], out[t].tokens[k], n, items)
    <3>1. CASE t = L + 1
      BY <2>2, <2>3, <3>1
    <3>2. CASE t # L + 1
      <4>1. t \in 1..L /\ out[t] = turns[t]
        BY <2>2, <3>2
      <4> QED
        BY <1>2, <2>2, <4>1
    <3> QED
      BY <3>1, <3>2
  <2> QED
    BY <2>4 DEF TellsOwn, out, i
<1>4. CASE ~new
  <2> DEFINE last == turns[L]
             turn == Longer(last, i)
  <2>1. out = [turns EXCEPT ![L] = turn] /\ turn \in Turn /\ turns # << >>
    <3> HIDE DEF i
    <3> QED
      BY <1>1, <1>4, SaidEither, Zenon
  <2>2. last.speaker = i.speaker
    BY <1>4 DEF Starts
  <2>3. last \in Turn /\ last.tokens \in Seq(STRING) /\ last.end \in Nat
    <3>1. last \in Turn
      BY <2>1
    <3> HIDE DEF last
    <3> QED
      BY <3>1 DEF Turn
  <2>4. turn.speaker = last.speaker /\ turn.end = Larger(last.end, i.end)
        /\ turn.tokens = Append(last.tokens, i.token)
    BY DEF Longer
  <2>5. last.end <= turn.end /\ i.end <= turn.end /\ turn.end \in Nat
    BY <1>1, <2>3, <2>4 DEF Larger
  <2>6. ASSUME NEW t \in 1..(L - 1) PROVE out[t] = turns[t] /\ t \in DOMAIN turns
    <3> HIDE DEF turn
    <3> QED
      BY <2>1, ReplacedPlaces
  <2>7. DOMAIN out = 1..L /\ out[L] = turn /\ L \in Nat \ {0} /\ L \in DOMAIN turns
    <3> HIDE DEF turn
    <3>1. DOMAIN out = 1..L /\ out[L] = turn /\ L \in Nat \ {0} /\ DOMAIN turns = 1..L
      BY <2>1, ReplacedPlaces
    <3> HIDE DEF out, L
    <3> QED
      BY <3>1
  <2> HIDE DEF out, turn, i
  <2>8. ASSUME NEW k \in DOMAIN turn.tokens PROVE OfSpeaker(turn, turn.tokens[k], n, items)
    <3>1. CASE k \in DOMAIN last.tokens
      <4>1. turn.tokens[k] = last.tokens[k]
        <5> HIDE DEF last
        <5> QED
          BY <2>3, <2>4, <3>1
      <4>2. OfSpeaker(last, last.tokens[k], n, items)
        BY <1>2, <2>7, <3>1
      <4>3. PICK j \in 1..n : items[j].token = last.tokens[k] /\ items[j].speaker = last.speaker
                              /\ items[j].end <= last.end
        BY <4>2 DEF OfSpeaker
      <4>4. items[j].end \in Nat
        <5>1. items[j] \in Timed
          OBVIOUS
        <5> QED
          BY <5>1 DEF Timed
      <4>5. items[j].end <= turn.end
        <5> HIDE DEF last
        <5> QED
          BY <2>3, <2>5, <4>3, <4>4
      <4> QED
        BY <2>4, <4>1, <4>3, <4>5 DEF OfSpeaker
    <3>2. CASE k \notin DOMAIN last.tokens
      <4>1. turn.tokens[k] = i.token
        <5> HIDE DEF last
        <5> QED
          BY <2>3, <2>4, <3>2
      <4> QED
        BY <1>1, <2>2, <2>4, <2>5, <4>1 DEF OfSpeaker, i
    <3> QED
      BY <3>1, <3>2
  <2> HIDE DEF L, last
  <2>9. ASSUME NEW t \in DOMAIN out, NEW k \in DOMAIN out[t].tokens
        PROVE  OfSpeaker(out[t], out[t].tokens[k], n, items)
    <3>1. CASE t = L
      BY <2>7, <2>8, <3>1
    <3>2. CASE t # L
      <4>1. t \in 1..(L - 1) /\ out[t] = turns[t] /\ t \in DOMAIN turns
        BY <2>6, <2>7, <3>2
      <4> QED
        BY <1>2, <4>1
    <3> QED
      BY <3>1, <3>2
  <2> QED
    BY <2>9 DEF TellsOwn, out, i
<1> QED
  BY <1>3, <1>4

(* What an item does to a list of turns, place by place.                   *)
LEMMA SaidPlaces ==
  ASSUME NEW turns \in Seq(Turn), NEW i \in Timed, NEW gap, NEW limit
  PROVE  LET L == Len(turns)
             new == turns = << >> \/ Starts(turns[L], i, gap, limit)
             out == Said(turns, i, gap, limit)
             turn == IF new THEN Single(i) ELSE Longer(turns[L], i)
             at == IF new THEN L + 1 ELSE L
         IN  /\ L \in Nat /\ at \in Nat \ {0} /\ DOMAIN out = 1..at /\ Len(out) = at /\ out[at] = turn
             /\ DOMAIN turns = 1..L /\ (~new => L \in DOMAIN turns /\ turns[L] \in Turn)
             /\ \A t \in 1..(at - 1) : out[t] = turns[t] /\ t \in DOMAIN turns
<1> DEFINE L == Len(turns)
           new == turns = << >> \/ Starts(turns[L], i, gap, limit)
           out == Said(turns, i, gap, limit)
<1>1. CASE new
  <2> DEFINE x == Single(i)
  <2>1. out = Append(turns, x) /\ x \in Turn
    BY <1>1, SaidEither
  <2> HIDE DEF out, x
  <2>2. /\ Len(out) = L + 1 /\ L \in Nat /\ out[L + 1] = x
        /\ \A t \in 1..L : out[t] = turns[t]
        /\ DOMAIN out = 1..(L + 1) /\ DOMAIN turns = 1..L
    BY <2>1, AppendedPlaces
  <2> HIDE DEF L
  <2>3. \A t \in 1..(L + 1 - 1) : out[t] = turns[t] /\ t \in DOMAIN turns
    BY <2>2
  <2> QED
    BY <1>1, <2>2, <2>3 DEF L, out, x
<1>2. CASE ~new
  <2> DEFINE x == Longer(turns[L], i)
  <2>1. out = [turns EXCEPT ![L] = x] /\ x \in Turn /\ turns # << >>
    BY <1>2, SaidEither, Zenon
  <2> HIDE DEF out, x
  <2>2. /\ Len(out) = L /\ L \in Nat \ {0} /\ out[L] = x /\ turns[L] \in Turn
        /\ \A t \in 1..(L - 1) : out[t] = turns[t]
        /\ DOMAIN out = 1..L /\ DOMAIN turns = 1..L
    BY <2>1, ReplacedPlaces
  <2> HIDE DEF L
  <2>3. L \in DOMAIN turns /\ \A t \in 1..(L - 1) : out[t] = turns[t] /\ t \in DOMAIN turns
    BY <2>2
  <2> QED
    BY <1>2, <2>2, <2>3 DEF L, out, x
<1> QED
  BY <1>1, <1>2

LEMMA FirstStays ==
  ASSUME NEW T, NEW l \in Seq(T), l # << >>, NEW x \in T
  PROVE  Append(l, x) # << >> /\ Append(l, x)[1] = l[1]
<1>1. Len(l) \in Nat /\ Len(l) > 0
  OBVIOUS
<1>2. Len(Append(l, x)) = Len(l) + 1
  OBVIOUS
<1>3. 1 \in 1..Len(l)
  BY <1>1
<1>4. Append(l, x)[1] = l[1]
  BY <1>1, <1>3
<1>5. Append(l, x) # << >>
  BY <1>1, <1>2
<1> QED
  BY <1>4, <1>5

LEMMA TellsShortAgain ==
  ASSUME NEW items \in Seq(Timed), NEW n \in 1..Len(items), NEW gap, NEW limit \in Int,
         NEW turns, turns \in Seq(Turn), TellsShort(turns, n - 1, items, limit)
  PROVE  TellsShort(Said(turns, items[n], gap, limit), n, items, limit)
<1> DEFINE i == items[n]
           out == Said(turns, i, gap, limit)
           L == Len(turns)
           new == turns = << >> \/ Starts(turns[L], i, gap, limit)
           turn == IF new THEN Single(i) ELSE Longer(turns[L], i)
           at == IF new THEN L + 1 ELSE L
           Short(x) == x.tokens # << >> /\ (limit > 0 => ShortOrOne(x, n, items, limit))
<1>0. i \in Timed /\ n \in Nat /\ n > 0 /\ 1..(n - 1) \subseteq 1..n /\ n \in 1..n
  OBVIOUS
<1>1. i.end \in Nat /\ i.start \in Nat /\ i.token \in STRING
  <2> HIDE DEF i
  <2> QED
    BY <1>0 DEF Timed
<1>2. \A t \in DOMAIN turns : Short(turns[t])
  <2> TAKE t \in DOMAIN turns
  <2>1. turns[t].tokens # << >> /\ (limit > 0 => ShortOrOne(turns[t], n - 1, items, limit))
    BY DEF TellsShort
  <2>2. ShortOrOne(turns[t], n - 1, items, limit) => ShortOrOne(turns[t], n, items, limit)
    BY <1>0 DEF ShortOrOne
  <2> QED
    BY <2>1, <2>2
<1>3. /\ DOMAIN out = 1..at /\ out[at] = turn /\ at \in Nat \ {0}
      /\ (~new => L \in DOMAIN turns /\ turns[L] \in Turn)
      /\ \A t \in 1..(at - 1) : out[t] = turns[t] /\ t \in DOMAIN turns
  <2> HIDE DEF i
  <2> QED
    BY <1>0, SaidPlaces
<1>4. CASE new
  <2>1. turn = Single(i)
    BY <1>4
  <2>2. turn.tokens = <<i.token>> /\ turn.end = i.end
    BY <2>1 DEF Single
  <2>3. turn.tokens # << >> /\ turn.tokens[1] = i.token
    <3>1. <<i.token>> # << >> /\ <<i.token>>[1] = i.token
      OBVIOUS
    <3> HIDE DEF turn, i
    <3> QED
      BY <2>2, <3>1
  <2>4. ShortOrOne(turn, n, items, limit)
    BY <1>0, <2>2, <2>3 DEF ShortOrOne
  <2> QED
    <3>1. Short(turn)
      BY <2>3, <2>4
    <3> HIDE DEF turn, Short, out, at
    <3>2. \A t \in DOMAIN out : Short(out[t])
      <4> TAKE t \in DOMAIN out
      <4>1. CASE t = at
        BY <1>3, <3>1, <4>1
      <4>2. CASE t # at
        <5>1. t \in 1..(at - 1)
          BY <1>3, <4>2
        <5> QED
          BY <1>2, <1>3, <5>1
      <4> QED
        BY <4>1, <4>2
    <3> QED
      BY <3>2 DEF TellsShort, Short, out, i
<1>5. CASE ~new
  <2> DEFINE last == turns[L]
  <2>1. turn = Longer(last, i) /\ last \in Turn /\ Short(last)
    BY <1>2, <1>3, <1>5
  <2> HIDE DEF turn
  <2>2. /\ last.end \in Nat /\ last.start \in Nat /\ last.tokens \in Seq(STRING)
        /\ last.tokens # << >>
    <3> HIDE DEF last
    <3> QED
      BY <2>1 DEF Turn
  <2>3. turn.start = last.start /\ turn.end = Larger(last.end, i.end)
        /\ turn.tokens = Append(last.tokens, i.token)
    BY <2>1 DEF Longer
  <2>4. limit > 0 => i.end - last.start <= limit
    <3>1. ~(limit > 0 /\ i.end - last.start > limit)
      BY <1>5 DEF Starts
    <3> HIDE DEF last, i
    <3> QED
      BY <1>1, <2>2, <3>1
  <2> HIDE DEF last, i
  <2>5. turn.tokens # << >> /\ turn.tokens[1] = last.tokens[1]
    <3> DEFINE S == STRING
    <3>1. last.tokens \in Seq(S) /\ i.token \in S /\ last.tokens # << >>
      BY <1>1, <2>2
    <3> HIDE DEF S
    <3>2. Append(last.tokens, i.token) # << >> /\ Append(last.tokens, i.token)[1] = last.tokens[1]
      BY <3>1, FirstStays, Zenon
    <3> QED
      BY <2>3, <3>2
  <2>6. ASSUME limit > 0 PROVE ShortOrOne(turn, n, items, limit)
    <3>1. CASE i.end >= last.end
      <4>1. turn.end = i.end
        BY <1>1, <2>2, <2>3, <3>1 DEF Larger
      <4> QED
        BY <2>3, <2>4, <2>6, <4>1 DEF ShortOrOne
    <3>2. CASE ~(i.end >= last.end)
      <4>1. turn.end = last.end
        BY <1>1, <2>2, <2>3, <3>2 DEF Larger
      <4>2. ShortOrOne(last, n, items, limit)
        BY <2>1, <2>6
      <4> QED
        BY <2>3, <2>5, <4>1, <4>2 DEF ShortOrOne
    <3> QED
      BY <3>1, <3>2
  <2>7. Short(turn)
    BY <2>5, <2>6
  <2> HIDE DEF Short, out, at
  <2>8. \A t \in DOMAIN out : Short(out[t])
    <3> TAKE t \in DOMAIN out
    <3>1. CASE t = at
      BY <1>3, <2>7, <3>1
    <3>2. CASE t # at
      <4>1. t \in 1..(at - 1)
        BY <1>3, <3>2
      <4> QED
        BY <1>2, <1>3, <4>1
    <3> QED
      BY <3>1, <3>2
  <2> QED
    BY <2>8 DEF TellsShort, Short, out, i
<1> QED
  BY <1>4, <1>5

LEMMA TellsApartAgain ==
  ASSUME NEW i \in Timed, NEW gap \in Int, NEW limit \in Int,
         NEW turns, turns \in Seq(Turn), TellsApart(turns, gap, limit)
  PROVE  TellsApart(Said(turns, i, gap, limit), gap, limit)
<1> DEFINE out == Said(turns, i, gap, limit)
           L == Len(turns)
           new == turns = << >> \/ Starts(turns[L], i, gap, limit)
           turn == IF new THEN Single(i) ELSE Longer(turns[L], i)
           at == IF new THEN L + 1 ELSE L
<1>1. i.end \in Nat /\ i.start \in Nat
  BY DEF Timed
<1>2. \A t \in 2..L : Parted(turns[t - 1], turns[t], gap, limit)
  BY DEF TellsApart
<1>3. /\ L \in Nat /\ Len(out) = at /\ DOMAIN turns = 1..L /\ out[at] = turn /\ at \in Nat \ {0}
      /\ (~new => L \in DOMAIN turns /\ turns[L] \in Turn)
      /\ \A t \in 1..(at - 1) : out[t] = turns[t] /\ t \in DOMAIN turns
  BY SaidPlaces
<1>4. ASSUME NEW t \in 2..at, t # at PROVE Parted(out[t - 1], out[t], gap, limit)
  <2> HIDE DEF out, turn, new, at, L
  <2>1. t \in 1..(at - 1) /\ t - 1 \in 1..(at - 1)
    BY <1>3, <1>4
  <2>2. t \in 2..L /\ out[t] = turns[t] /\ out[t - 1] = turns[t - 1]
    BY <1>3, <2>1
  <2> QED
    BY <1>2, <2>2
<1>5. ASSUME at \in 2..at PROVE Parted(out[at - 1], turn, gap, limit)
  <2>1. at - 1 \in 1..(at - 1)
    <3> HIDE DEF at
    <3> QED
      BY <1>3, <1>5
  <2>2. out[at - 1] = turns[at - 1] /\ at - 1 \in DOMAIN turns
    BY <1>3, <2>1
  <2>3. CASE new
    <3>1. at - 1 = L /\ turn = Single(i)
      BY <1>3, <2>3
    <3>2. turns # << >>
      BY <1>3, <2>2
    <3>3. Starts(turns[L], i, gap, limit)
      BY <2>3, <3>2
    <3>4. turn.speaker = i.speaker /\ turn.start = i.start /\ turn.end = i.end
      BY <3>1 DEF Single
    <3> HIDE DEF turn
    <3>5. Parted(turns[L], turn, gap, limit)
      BY <3>3, <3>4 DEF Parted, Starts
    <3> QED
      BY <2>2, <3>1, <3>5
  <2>4. CASE ~new
    <3> DEFINE before == turns[L - 1]
               last == turns[L]
    <3>1. at = L /\ turn = Longer(last, i) /\ last \in Turn
      BY <1>3, <2>4
    <3>2. L \in 2..L
      BY <1>5, <3>1
    <3>3. Parted(before, last, gap, limit)
      BY <1>2, <3>2
    <3>4. before \in Turn
      BY <2>2, <3>1
    <3> HIDE DEF before, last, turn
    <3>5. last.end \in Nat /\ before.start \in Nat
      BY <3>1, <3>4 DEF Turn
    <3>6. turn.speaker = last.speaker /\ turn.start = last.start /\ turn.end = Larger(last.end, i.end)
      BY <3>1 DEF Longer
    <3>7. turn.end >= last.end /\ turn.end \in Nat
      BY <1>1, <3>5, <3>6 DEF Larger
    <3>8. limit > 0 /\ last.end - before.start > limit => limit > 0 /\ turn.end - before.start > limit
      BY <3>5, <3>7
    <3>9. Parted(before, turn, gap, limit)
      BY <3>3, <3>6, <3>8 DEF Parted
    <3> QED
      BY <2>2, <3>1, <3>9 DEF before
  <2> QED
    BY <2>3, <2>4
<1> HIDE DEF out, turn, new, at, L
<1>6. \A t \in 2..at : Parted(out[t - 1], out[t], gap, limit)
  BY <1>3, <1>4, <1>5
<1> QED
  BY <1>3, <1>6 DEF TellsApart, out

LEMMA TurnsTell ==
  ASSUME NEW items \in Seq(Timed), NEW gap \in Int, NEW limit \in Int,
         \E n \in DOMAIN items : items[n].speaker # "UNKNOWN"
  PROVE  LET turns == Turns(items, gap, limit)
         IN  /\ turns # << >> /\ TellsAll(turns, Len(items), items)
             /\ TellsOwn(turns, Len(items), items)
             /\ TellsShort(turns, Len(items), items, limit)
             /\ TellsApart(turns, gap, limit)
<1> DEFINE N == Len(items)
           f == TurnStates(items, gap, limit)
           Tells(n) == /\ TellsAll(f[n], n, items) /\ TellsOwn(f[n], n, items)
                       /\ TellsShort(f[n], n, items, limit) /\ TellsApart(f[n], gap, limit)
           P == {n \in 0..N : Tells(n)}
<1>1. /\ Turns(items, gap, limit) = f[N] /\ f[0] = << >>
      /\ \A n \in 1..N : f[n] = Said(f[n - 1], items[n], gap, limit)
  BY TurnsSteps
<1>2. N \in Nat /\ N > 0
  OBVIOUS
<1> HIDE DEF f
<1>3. Tells(0)
  <2>1. f[0] \in Seq(Turn) /\ DOMAIN f[0] = {} /\ Len(f[0]) = 0
    BY <1>1
  <2>2. Spoken(f[0]) = << >>
    BY <1>1 DEF Spoken
  <2>3. FlattenSeq(Spoken(f[0])) = << >>
    BY <2>2, FlattenEmpty
  <2>4. TellsAll(f[0], 0, items)
    BY <2>1, <2>3 DEF TellsAll
  <2>5. TellsOwn(f[0], 0, items)
    BY <2>1 DEF TellsOwn
  <2>6. TellsShort(f[0], 0, items, limit)
    BY <2>1 DEF TellsShort
  <2>7. TellsApart(f[0], gap, limit)
    BY <2>1 DEF TellsApart
  <2> QED
    BY <2>4, <2>5, <2>6, <2>7
<1>4. ASSUME NEW n \in 1..N, Tells(n - 1) PROVE Tells(n)
  <2>1. f[n] = Said(f[n - 1], items[n], gap, limit)
    BY <1>1
  <2>2. n \in 1..Len(items) /\ items[n] \in Timed
    BY <1>2
  <2>3. f[n - 1] \in Seq(Turn)
    BY <1>4 DEF TellsAll
  <2>4. TellsAll(f[n], n, items)
    BY <1>4, <2>1, <2>2, TellsAllAgain
  <2>5. TellsOwn(f[n], n, items)
    BY <1>4, <2>1, <2>2, <2>3, TellsOwnAgain
  <2>6. TellsShort(f[n], n, items, limit)
    BY <1>4, <2>1, <2>2, <2>3, TellsShortAgain
  <2>7. TellsApart(f[n], gap, limit)
    BY <1>4, <2>1, <2>2, <2>3, TellsApartAgain
  <2> QED
    BY <2>4, <2>5, <2>6, <2>7
<1> HIDE DEF Tells
<1>5. 0..N \subseteq P
  <2>1. 0 \in P /\ \A n \in 1..N : n - 1 \in P => n \in P
    BY <1>2, <1>3, <1>4
  <2> HIDE DEF P
  <2> QED
    BY <1>2, <2>1, InductUpTo
<1>6. Tells(N)
  BY <1>2, <1>5
<1>7. f[N] # << >>
  BY <1>2, <1>6 DEF Tells, TellsAll
<1> QED
  BY <1>1, <1>6, <1>7 DEF Tells

(* Every word that has a time is said once, in order, in a turn of its own *)
(* speaker, whatever is transcribed and however long a turn may be.        *)
THEOREM WordsAreKept ==
  ASSUME NEW segments \in Seq(Utterance), Distinct(Items(segments)),
         NEW gap \in Int, NEW duration \in Int, DefaultGap \in Int, DefaultDuration \in Int
  PROVE  TurnsKeepEveryWord(segments, gap, duration)
<1> DEFINE items == Items(segments)
           limit == DurationOf(duration)
           apart == GapOf(gap)
           all == Turns(items, apart, limit)
           turns == TxtLines(segments, gap, duration)
           tokens(s) == [i \in DOMAIN s |-> s[i].token]
           N == Len(items)
           labelled == \E i \in DOMAIN items : items[i].speaker # "UNKNOWN"
<1>1. items \in Seq(Timed)
  BY ItemsAreTimed
<1>2. limit \in Int /\ apart \in Int
  BY DEF DurationOf, GapOf, Larger
<1>3. all # << >> => turns = all
  BY DEF TxtLines
<1>4. Distinct(items)
  OBVIOUS
<1> HIDE DEF items, limit, apart
<1>5. N \in Nat /\ DOMAIN items = 1..N
  BY <1>1
<1>6. CASE labelled
  <2>1. /\ all # << >> /\ TellsAll(all, N, items) /\ TellsOwn(all, N, items)
        /\ TellsShort(all, N, items, limit) /\ TellsApart(all, apart, limit)
    BY <1>1, <1>2, <1>6, TurnsTell
  <2>2. turns = all
    BY <1>3, <2>1
  <2> HIDE DEF all, turns, N
  <2>3. turns \in Seq(Turn)
    BY <2>1, <2>2 DEF TellsAll
  <2>4. FlattenSeq([t \in DOMAIN turns |-> turns[t].tokens]) = tokens(items)
    BY <1>5, <2>1, <2>2 DEF TellsAll, Spoken
  <2>5. ASSUME NEW t \in DOMAIN turns, NEW i \in DOMAIN items,
               Contains(turns[t].tokens, items[i].token)
        PROVE  turns[t].speaker = items[i].speaker /\ items[i].end <= turns[t].end
    <3>1. turns[t].tokens \in Seq(STRING)
      <4>1. turns[t] \in Turn
        BY <2>3
      <4> QED
        BY <4>1 DEF Turn
    <3>2. PICK k \in 1..Len(turns[t].tokens) : turns[t].tokens[k] = items[i].token
      BY <2>5 DEF Contains
    <3>3. k \in DOMAIN turns[t].tokens
      BY <3>1
    <3>4. OfSpeaker(turns[t], turns[t].tokens[k], N, items)
      BY <2>1, <2>2, <3>3 DEF TellsOwn
    <3>5. PICK j \in 1..N : items[j].token = turns[t].tokens[k] /\ items[j].speaker = turns[t].speaker
                            /\ items[j].end <= turns[t].end
      BY <3>4 DEF OfSpeaker
    <3>6. i = j
      BY <1>4, <1>5, <3>2, <3>5 DEF Distinct
    <3> QED
      BY <3>5, <3>6
  <2>6. ASSUME NEW t \in DOMAIN turns, limit > 0
        PROVE  \/ turns[t].end - turns[t].start <= limit
               \/ \E i \in DOMAIN items : items[i].token = turns[t].tokens[1]
                                          /\ items[i].end = turns[t].end
    BY <1>5, <2>1, <2>2, <2>6 DEF TellsShort, ShortOrOne
  <2>7. ASSUME NEW t \in 2..Len(turns), turns[t].speaker = turns[t - 1].speaker
        PROVE  \/ turns[t].start - turns[t - 1].end > apart
               \/ limit > 0 /\ turns[t].end - turns[t - 1].start > limit
    BY <2>1, <2>2, <2>7 DEF TellsApart, Parted
  <2> QED
    BY <1>6, <2>4, <2>5, <2>6, <2>7 DEF TurnsKeepEveryWord, items, limit, apart, turns
<1>7. CASE ~labelled
  <2>1. all = << >>
    BY <1>1, <1>7, TurnsSteps
  <2>2. Len(turns) = Len(segments)
    <3> DEFINE line(s) == [speaker |-> Name(s.speaker), start |-> s.start, end |-> s.end,
                  tokens |-> IF s.words = << >> THEN <<s.text>>
                             ELSE [i \in DOMAIN s.words |-> s.words[i].token]]
    <3>1. turns = [i \in DOMAIN segments |-> line(segments[i])]
      BY <2>1, Zenon DEF TxtLines, items, limit, apart
    <3> HIDE DEF line, turns
    <3> QED
      BY <3>1
  <2> QED
    BY <1>7, <2>2 DEF TurnsKeepEveryWord, items
<1> QED
  BY <1>6, <1>7

(* The diarization keeps the words, the speakers and the user's options,   *)
(* for every transcript, every sound and every choice of limits.           *)
THEOREM SpeechIsAlwaysKept == PartsSpec => []SpeechIsKept
<1>1. Asked => SpeechIsKept
  <2>0. /\ SpeakerLimits /\ SmoothSpan \in Nat /\ {MinSegments, MinShare} \subseteq Nat
        /\ DefaultGap \in Int /\ DefaultDuration \in Int /\ Labellers \in Seq(STRING)
    BY SpeechConstants DEF SpeakerLimits
  <2>1. LabelledByAllowed(input.args, Labellers, input.token, input.cached, input.works)
    BY <2>0, LabelledByWhomIsAllowed
  <2>2. ASSUME Asked, part = "speakers"
        PROVE  SpeakerLimitsHold(input.min, input.max, input.samples, input.clusters)
    <3>1. input \in Inputs.speakers
      BY <2>2 DEF Asked, Questions
    <3>2. input.min \in Nat /\ input.max \in Nat /\ input.samples \in Nat \ {0}
      BY <3>1, SpeechAssumption
    <3> QED
      BY <2>0, <3>2, SpeakerLimitsAreKept
  <2>3. ASSUME Asked, part = "heard"
        PROVE  SpeakersAreHeard(input.windows, input.labels, input.segments)
    <3>1. input \in Inputs.heard
      BY <2>3 DEF Asked, Questions
    <3>2. Sounds(input.windows, input.labels, input.segments)
      BY <3>1, SpeechAssumption
    <3> QED
      BY <2>0, <3>2, LongSpeechIsHeard
  <2>4. ASSUME Asked, part = "sparse" PROVE SparseSpeakersGone(input)
    <3>1. input \in Inputs.sparse
      BY <2>4 DEF Asked, Questions
    <3>2. input \in Seq(Labelled)
      BY <3>1, SpeechAssumption
    <3> QED
      BY <2>0, <3>2, SparseSpeakersAreGone
  <2>5. ASSUME Asked, part = "turns"
        PROVE  TurnsKeepEveryWord(input.segments, input.gap, input.duration)
    <3>1. input \in Inputs.turns
      BY <2>5 DEF Asked, Questions
    <3>2. input.gap \in Int /\ input.duration \in Int
      BY <3>1, SpeechAssumption
    <3>3. input.segments \in Seq(Utterance) /\ Distinct(Items(input.segments))
      BY <3>1, SpeechAssumption
    <3> QED
      BY <2>0, <3>2, <3>3, WordsAreKept
  <2> QED
    BY <2>1, <2>2, <2>3, <2>4, <2>5 DEF SpeechIsKept
<1> QED
  BY <1>1, AlwaysAsked, PTL

-----------------------------------------------------------------------------
(* One call of the summary client *)

(* What has been asked in a pass that is at its model: those before it at  *)
(* least once, it as often as it failed, those after it not at all.        *)
AskedInOrder ==
  pass \in Passes =>
    \A m \in 1..Models :
      /\ m < model => asked[pass][m] > 0
      /\ m = model => asked[pass][m] = attempt
      /\ m > model => asked[pass][m] = 0

NeverTooOften == \A p \in Passes, m \in 1..Models : asked[p][m] <= Retries + 1

(* The repair pass begins after the summary pass, on what it could not     *)
(* read.                                                                   *)
RepairComesSecond ==
  /\ pass \in {"idle", "summary"} =>
       first = "none" /\ \A m \in 1..Models : asked["repair"][m] = 0
  /\ pass = "idle" => \A m \in 1..Models : asked["summary"][m] = 0
  /\ pass = "repair" => first \notin Readable

CallIInv ==
  /\ TypeOK /\ AskedInOrder /\ NeverTooOften /\ RepairComesSecond
  /\ AllWereAsked /\ ReadableIsKept
  /\ (pass = "done" \/ outcome = "none")

-----------------------------------------------------------------------------
LEMMA CallInitEstablishes == Init => CallIInv
  <1> SUFFICES ASSUME Init PROVE CallIInv
    OBVIOUS
  <1> USE SomeModels, SomeRetries DEF Init, Passes
  <1>1. TypeOK
    BY DEF TypeOK, Texts, CountTo
  <1>2. AskedInOrder /\ NeverTooOften /\ RepairComesSecond
    BY DEF AskedInOrder, NeverTooOften, RepairComesSecond
  <1>3. AllWereAsked /\ ReadableIsKept
    BY DEF AllWereAsked, ReadableIsKept, Readable
  <1> QED
    BY <1>1, <1>2, <1>3 DEF CallIInv

(* What a request does to the counts.                                      *)
LEMMA AskCountsOne ==
  ASSUME CallIInv, Asking, Ask
  PROVE  /\ asked' \in [Passes -> [1..Models -> 0..CountTo]]
         /\ model \in 1..Models
         /\ asked'[pass][model] = attempt + 1
         /\ \A p \in Passes, m \in 1..Models :
              p # pass \/ m # model => asked'[p][m] = asked[p][m]
         /\ NeverTooOften'
  <1> USE SomeModels, SomeRetries
  <1>1. model \in 1..Models /\ asked[pass][model] = attempt /\ attempt \in 0..Retries
    <2>1. model \in 1..Models /\ attempt \in 0..Retries
      <3>1. model \in 1..(Models + 1) /\ attempt \in 0..Retries
        BY DEF CallIInv, TypeOK
      <3>2. model <= Models
        BY DEF Asking
      <3> QED
        BY <3>1, <3>2
    <2>2. asked[pass][model] = attempt
      BY <2>1 DEF CallIInv, AskedInOrder, Asking
    <2> QED
      BY <2>1, <2>2
  <1>2. asked \in [Passes -> [1..Models -> 0..CountTo]] /\ pass \in Passes
    BY DEF CallIInv, TypeOK, Asking
  <1>3. attempt < CountTo /\ attempt + 1 \in 0..CountTo
    BY <1>1 DEF CountTo
  <1>4. asked' = [asked EXCEPT ![pass][model] = attempt + 1]
    BY <1>1, <1>2, <1>3 DEF Ask
  <1>5. asked' \in [Passes -> [1..Models -> 0..CountTo]]
    BY <1>1, <1>2, <1>3, <1>4
  <1>6. asked'[pass][model] = attempt + 1
    BY <1>1, <1>2, <1>4
  <1>7. \A p \in Passes, m \in 1..Models :
          p # pass \/ m # model => asked'[p][m] = asked[p][m]
    BY <1>1, <1>2, <1>4
  <1>8. NeverTooOften'
    <2> SUFFICES ASSUME NEW p \in Passes, NEW m \in 1..Models
                 PROVE  asked'[p][m] <= Retries + 1
      BY DEF NeverTooOften
    <2>1. CASE p = pass /\ m = model
      BY <2>1, <1>1, <1>6
    <2>2. CASE p # pass \/ m # model
      BY <2>2, <1>7 DEF CallIInv, NeverTooOften
    <2> QED
      BY <2>1, <2>2
  <1> QED
    BY <1>1, <1>5, <1>6, <1>7, <1>8

(* A failed request. *)
LEMMA FailsPreserves ==
  ASSUME CallIInv, NEW error \in Errors, Fails(error)
  PROVE  CallIInv'
  <1> USE SomeModels, SomeRetries
  <1>1. Asking /\ Ask /\ pass \in Passes /\ UNCHANGED first
    BY DEF Fails, Asking
  <1>2. /\ asked' \in [Passes -> [1..Models -> 0..CountTo]]
        /\ model \in 1..Models
        /\ asked'[pass][model] = attempt + 1
        /\ \A p \in Passes, m \in 1..Models :
             p # pass \/ m # model => asked'[p][m] = asked[p][m]
        /\ NeverTooOften'
    BY <1>1, AskCountsOne
  <1>3. attempt \in 0..Retries /\ outcome = "none" /\ first \in Texts /\ pass # "done"
    BY <1>1 DEF CallIInv, TypeOK, Passes
  <1>4. first \notin Readable
    BY <1>1 DEF CallIInv, RepairComesSecond, Passes, Readable
  <1>5. pass = "summary" => first = "none" /\ \A m \in 1..Models : asked'["repair"][m] = 0
    BY <1>2 DEF CallIInv, RepairComesSecond, Passes
  <1>6. CASE pass' = "done"
    <2>1. outcome' = "raised" /\ UNCHANGED <<model, attempt>>
      BY <1>1, <1>3, <1>6 DEF Fails, Return
    <2>2. TypeOK'
      BY <1>1, <1>2, <1>3, <1>6, <2>1 DEF TypeOK
    <2> QED
      BY <1>1, <1>2, <1>4, <1>6, <2>1, <2>2
      DEF CallIInv, AskedInOrder, RepairComesSecond, AllWereAsked, ReadableIsKept, Passes
  <1>7. CASE pass' # "done"
    <2>1. /\ UNCHANGED <<pass, outcome>>
          /\ \/ model' = model + 1 /\ attempt' = 0
             \/ model' = model /\ attempt' = attempt + 1 /\ attempt < Retries
      BY <1>7 DEF Fails, Return
    <2>2. model' \in 1..(Models + 1) /\ attempt' \in 0..Retries
      BY <1>2, <1>3, <2>1
    <2>3. TypeOK'
      BY <1>1, <1>2, <1>3, <2>1, <2>2 DEF TypeOK
    <2>4. AskedInOrder'
      <3> SUFFICES ASSUME NEW m \in 1..Models
                   PROVE  /\ m < model' => asked'[pass][m] > 0
                          /\ m = model' => asked'[pass][m] = attempt'
                          /\ m > model' => asked'[pass][m] = 0
        BY <2>1 DEF AskedInOrder
      <3>1. /\ m < model => asked[pass][m] > 0
            /\ m > model => asked[pass][m] = 0
        BY <1>1 DEF CallIInv, AskedInOrder
      <3>2. m # model => asked'[pass][m] = asked[pass][m]
        BY <1>1, <1>2
      <3> QED
        BY <1>2, <1>3, <2>1, <3>1, <3>2
    <2>5. RepairComesSecond'
      BY <1>1, <1>4, <1>5, <2>1 DEF RepairComesSecond, Passes, Readable
    <2>6. AllWereAsked' /\ ReadableIsKept'
      BY <1>1, <1>3, <1>4, <2>1 DEF AllWereAsked, ReadableIsKept
    <2> QED
      BY <1>2, <1>3, <2>1, <2>3, <2>4, <2>5, <2>6 DEF CallIInv
  <1> QED
    BY <1>6, <1>7

(* An answered request: only an answer that cannot be read leads on. *)
LEMMA AnswersPreserves ==
  ASSUME CallIInv, NEW text \in Texts, Answers(text)
  PROVE  CallIInv'
  <1> USE SomeModels, SomeRetries
  <1>1. Asking /\ Ask /\ pass \in Passes
    BY DEF Answers, Asking
  <1>2. /\ asked' \in [Passes -> [1..Models -> 0..CountTo]]
        /\ model \in 1..Models
        /\ asked'[pass][model] = attempt + 1
        /\ \A p \in Passes, m \in 1..Models :
             p # pass \/ m # model => asked'[p][m] = asked[p][m]
        /\ NeverTooOften'
    BY <1>1, AskCountsOne
  <1>3. attempt \in 0..Retries /\ outcome = "none" /\ first \in Texts /\ pass # "done"
    BY <1>1 DEF CallIInv, TypeOK, Passes
  <1>4. first \notin Readable
    BY <1>1 DEF CallIInv, RepairComesSecond, Passes, Readable
  <1>5. pass = "summary" => \A m \in 1..Models : asked'["repair"][m] = 0
    BY <1>2 DEF CallIInv, RepairComesSecond, Passes
  <1>6. first' = IF pass = "summary" THEN text ELSE first
    BY DEF Answers
  <1>7. CASE pass' = "done"
    <2>1. /\ outcome' \in {"raised", "parsed", "coerced"} /\ UNCHANGED <<model, attempt>>
          /\ text \in Readable => outcome' = "parsed"
      BY <1>3, <1>7 DEF Answers, Return, Enter, Readable, Texts
    <2>2. TypeOK'
      <3>1. first' \in Texts
        BY <1>3, <1>6
      <3>2. model' \in 1..(Models + 1) /\ attempt' \in 0..Retries
        BY <1>2, <1>3, <2>1
      <3> QED
        BY <1>2, <1>7, <2>1, <3>1, <3>2 DEF TypeOK
    <2>3. ReadableIsKept'
      BY <1>1, <1>4, <1>5, <1>6, <2>1 DEF ReadableIsKept, Passes
    <2>4. AskedInOrder' /\ RepairComesSecond' /\ AllWereAsked'
      BY <1>7, <2>1 DEF AskedInOrder, RepairComesSecond, AllWereAsked, Passes
    <2> QED
      BY <1>2, <1>7, <2>2, <2>3, <2>4 DEF CallIInv
  <1>8. CASE pass' # "done"
    <2>1. /\ pass = "summary" /\ pass' = "repair" /\ model' = 1 /\ attempt' = 0
          /\ UNCHANGED outcome /\ text \notin Readable
      BY <1>8 DEF Answers, Return, Enter
    <2>2. TypeOK'
      BY <1>2, <1>3, <1>6, <2>1 DEF TypeOK, Passes
    <2>3. AskedInOrder'
      BY <1>5, <2>1 DEF AskedInOrder
    <2>4. RepairComesSecond' /\ AllWereAsked' /\ ReadableIsKept'
      BY <1>3, <1>6, <2>1 DEF RepairComesSecond, AllWereAsked, ReadableIsKept
    <2> QED
      BY <1>2, <1>3, <2>1, <2>2, <2>3, <2>4 DEF CallIInv
  <1> QED
    BY <1>7, <1>8

LEMMA CallStepPreserves == CallIInv /\ [Next]_vars => CallIInv'
  <1> SUFFICES ASSUME CallIInv, [Next]_vars PROVE CallIInv'
    OBVIOUS
  <1> USE SomeModels, SomeRetries
  <1>1. CASE \E direct, env \in Keys, file, opReads \in BOOLEAN : Begin(direct, file, env, opReads)
    <2>1. /\ pass = "idle" /\ UNCHANGED <<asked, first>>
          /\ \/ /\ pass' = "done" /\ outcome' \in {"no key", "raised"}
                /\ UNCHANGED <<model, attempt>>
             \/ pass' = "summary" /\ model' = 1 /\ attempt' = 0 /\ UNCHANGED outcome
      BY <1>1 DEF Begin, Return, Enter
    <2>2. first = "none" /\ outcome = "none" /\ \A p \in Passes, m \in 1..Models : asked[p][m] = 0
      BY <2>1 DEF CallIInv, RepairComesSecond, Passes
    <2>3. TypeOK'
      <3>1. model' \in 1..(Models + 1) /\ attempt' \in 0..Retries
        <4>1. model \in 1..(Models + 1) /\ attempt \in 0..Retries
          BY DEF CallIInv, TypeOK
        <4>2. 1 \in 1..(Models + 1) /\ 0 \in 0..Retries
          OBVIOUS
        <4>3. CASE UNCHANGED <<model, attempt>>
          BY <4>1, <4>3
        <4>4. CASE model' = 1 /\ attempt' = 0
          BY <4>2, <4>4
        <4> QED
          BY <2>1, <4>3, <4>4
      <3>2. asked \in [Passes -> [1..Models -> 0..CountTo]] /\ first \in Texts
        BY DEF CallIInv, TypeOK
      <3> QED
        BY <2>1, <2>2, <3>1, <3>2 DEF TypeOK, Passes
    <2>4. AskedInOrder'
      <3>1. CASE pass' = "done"
        BY <3>1 DEF AskedInOrder, Passes
      <3>2. CASE pass' = "summary" /\ model' = 1 /\ attempt' = 0
        <4> SUFFICES ASSUME NEW m \in 1..Models
                     PROVE  asked'["summary"][m] = 0 /\ ~(m < 1)
          BY <3>2 DEF AskedInOrder
        <4>1. ~(m < 1)
          OBVIOUS
        <4>2. asked' = asked
          BY <2>1
        <4> QED
          BY <2>2, <4>1, <4>2 DEF Passes
      <3> QED
        BY <2>1, <3>1, <3>2
    <2>5. NeverTooOften'
      BY <2>1 DEF CallIInv, NeverTooOften
    <2>6. RepairComesSecond' /\ AllWereAsked' /\ ReadableIsKept'
      BY <2>1, <2>2 DEF RepairComesSecond, AllWereAsked, ReadableIsKept, Readable, Passes
    <2> QED
      BY <2>1, <2>2, <2>3, <2>4, <2>5, <2>6 DEF CallIInv
  <1>2. CASE \E error \in Errors : Fails(error)
    BY <1>2, FailsPreserves
  <1>3. CASE \E text \in Texts : Answers(text)
    BY <1>3, AnswersPreserves
  <1>4. CASE NoModelLeft
    <2>1. /\ pass \in Passes /\ model > Models /\ pass' = "done" /\ outcome' = "no model"
          /\ UNCHANGED <<asked, first, model, attempt>>
      BY <1>4 DEF NoModelLeft, Return
    <2>2. TypeOK' /\ NeverTooOften'
      <3>1. TypeOK /\ NeverTooOften
        BY DEF CallIInv
      <3>2. TypeOK'
        BY <2>1, <3>1 DEF TypeOK
      <3>3. NeverTooOften'
        BY <2>1, <3>1 DEF NeverTooOften
      <3> QED
        BY <3>2, <3>3
    <2>3. ASSUME NEW m \in 1..Models PROVE asked[pass][m] > 0
      <3>1. model \in 1..(Models + 1)
        BY DEF CallIInv, TypeOK
      <3>2. model > Models /\ pass \in Passes
        BY <2>1
      <3>3. m < model
        BY <3>1, <3>2
      <3> QED
        BY <3>2, <3>3 DEF CallIInv, AskedInOrder
    <2>4. pass = "summary" => \A m \in 1..Models : asked["repair"][m] = 0
      BY DEF CallIInv, RepairComesSecond
    <2>5. AllWereAsked'
      BY <2>1, <2>3, <2>4 DEF AllWereAsked, Passes
    <2>6. ReadableIsKept' /\ AskedInOrder' /\ RepairComesSecond'
      BY <2>1 DEF CallIInv, ReadableIsKept, AskedInOrder, RepairComesSecond, Readable, Passes
    <2> QED
      BY <2>1, <2>2, <2>5, <2>6 DEF CallIInv
  <1>5. CASE UNCHANGED vars
    BY <1>5 DEF vars, CallIInv, TypeOK, AskedInOrder, NeverTooOften, RepairComesSecond,
                AllWereAsked, ReadableIsKept
  <1> QED
    BY <1>1, <1>2, <1>3, <1>4, <1>5 DEF Next, Request

-----------------------------------------------------------------------------
LEMMA AlwaysCallIInv == Spec => []CallIInv
  BY CallInitEstablishes, CallStepPreserves, PTL DEF Spec

(* The variables of the call keep their types. *)
THEOREM CallTypeCorrect == Spec => []TypeOK
  <1>1. CallIInv => TypeOK
    BY DEF CallIInv
  <1> QED
    BY <1>1, AlwaysCallIInv, PTL

(* For any number of candidates and retries: none is asked more often than *)
(* it may be or before those ahead of it are through, "no model" is said   *)
(* only when all were asked, and an answer that can be read is returned    *)
(* and never sent to be repaired.                                          *)
THEOREM CallsAreSound == Spec => []CallIsSound
  <1>1. CallIInv => CallIsSound
    BY DEF CallIInv, AskedInOrder, NeverTooOften, AskedEnough, CallIsSound
  <1> QED
    BY <1>1, AlwaysCallIInv, PTL

(* And so it is beside the other parts.                                    *)
THEOREM CallsStaySound == PartsSpec => []CallIsSound
  <1>1. PartsInit => CallIInv
    BY CallInitEstablishes DEF PartsInit
  <1>2. ASSUME CallIInv, [PartsNext]_parts PROVE CallIInv'
    <2>1. [Next]_vars
      <3>1. ASSUME NEW name \in Questions, Question(name) PROVE UNCHANGED vars
        BY <3>1 DEF Question, client
      <3>2. ASSUME ClientStep PROVE Next
        BY <3>2 DEF ClientStep
      <3>3. ASSUME DeployStep PROVE UNCHANGED vars
        BY <3>3 DEF DeployStep, client
      <3>4. ASSUME UNCHANGED parts PROVE UNCHANGED vars
        BY <3>4 DEF parts, client
      <3> QED
        BY <1>2, <3>1, <3>2, <3>3, <3>4 DEF PartsNext
    <2> QED
      BY <1>2, <2>1, CallStepPreserves
  <1>3. CallIInv => CallIsSound
    BY DEF CallIInv, AskedInOrder, NeverTooOften, AskedEnough, CallIsSound
  <1> QED
    BY <1>1, <1>2, <1>3, PTL DEF PartsSpec

-----------------------------------------------------------------------------
(* The deployment *)

Shipping == INSTANCE DeployProofs

(* Its trees and steps are the ones of its theorems. *)
LEMMA SameTrees ==
  /\ \A v : Dep!Release(v) = Shipping!Release(v)
  /\ Dep!NoTree = Shipping!NoTree /\ Dep!NoTrees = Shipping!NoTrees /\ Dep!Local = Shipping!Local
  /\ \A a, b : Dep!Merged(a, b) = Shipping!Merged(a, b)
  /\ \A a, b : Dep!Restricted(a, b) = Shipping!Restricted(a, b)
  /\ Dep!Idle = Shipping!Idle
  /\ \A e : Dep!Shipped(e) <=> Shipping!Shipped(e)
  /\ \A n : Dep!After(n) = Shipping!After(n)
BY DEF Dep!Release, Shipping!Release, Dep!NoTree, Shipping!NoTree, Dep!NoTrees, Shipping!NoTrees,
       Dep!Local, Shipping!Local, Dep!Merged, Shipping!Merged, Dep!Restricted, Shipping!Restricted,
       Dep!Idle, Shipping!Idle, Dep!Shipped, Shipping!Shipped, Dep!After, Shipping!After

LEMMA SameSteps == Dep!Next => Shipping!Next
<1>1. Dep!Build => Shipping!Build
  <2>1. Dep!Commit => Shipping!Commit
    BY DEF Dep!Commit, Shipping!Commit, Dep!applying, Shipping!applying
  <2>2. Dep!BuildStart => Shipping!BuildStart
    BY SameTrees DEF Dep!BuildStart, Shipping!BuildStart, Dep!applying, Shipping!applying
  <2>3. \A e \in 1..Entries : Dep!BuildCopy(e) => Shipping!BuildCopy(e)
    BY SameTrees DEF Dep!BuildCopy, Shipping!BuildCopy, Dep!applying, Shipping!applying
  <2>4. \A found \in BOOLEAN : Dep!BuildRules(found) => Shipping!BuildRules(found)
    BY SameTrees DEF Dep!BuildRules, Shipping!BuildRules, Dep!applying, Shipping!applying
  <2>5. Dep!BuildPack => Shipping!BuildPack
    BY SameTrees DEF Dep!BuildPack, Shipping!BuildPack, Dep!applying, Shipping!applying
  <2>6. \A n, files : Dep!PackCut(n, files) => Shipping!PackCut(n, files)
    BY SameTrees DEF Dep!PackCut, Shipping!PackCut, Dep!applying, Shipping!applying
  <2>7. Dep!BuildCrash => Shipping!BuildCrash
    BY SameTrees DEF Dep!BuildCrash, Shipping!BuildCrash, Dep!applying, Shipping!applying
  <2> QED
    BY <2>1, <2>2, <2>3, <2>4, <2>5, <2>6, <2>7 DEF Dep!Build, Shipping!Build
<1>2. Dep!Apply => Shipping!Apply
  BY SameTrees DEF Dep!Apply, Shipping!Apply, Dep!ApplyStart, Shipping!ApplyStart, Dep!RemovePath,
                   Shipping!RemovePath, Dep!CopyPath, Shipping!CopyPath, Dep!ApplyCrash,
                   Shipping!ApplyCrash, Dep!Install, Shipping!Install, Dep!applying,
                   Shipping!applying, Dep!building, Shipping!building
<1> QED
  BY <1>1, <1>2 DEF Dep!Next, Shipping!Next

(* Beside the other parts, too, install.sh runs after an update from an    *)
(* archive only in a target that has every path as it was packed, and is   *)
(* one whole release if the archive was packed to its end from a           *)
(* repository that stood still.                                            *)
THEOREM UpdatesStayWhole == PartsSpec => InstallsWhatWasPacked
<1> DEFINE right ==
             /\ \A e \in 1..Entries : Dep!Shipped(e) => target[e] = source[e]
             /\ trusted => \E v \in 1..release : \A e \in 1..Entries : target[e] = Dep!Release(v)
<1>1. Shipping!ConstantsAreRight
  BY DeployAssumption DEF Dep!ConstantsAreRight, Shipping!ConstantsAreRight
<1>2. PartsInit => Shipping!IInv
  <2>1. Dep!Init => Shipping!Init
    BY DEF Dep!Init, Shipping!Init, Dep!NoTrees, Shipping!NoTrees, Dep!NoTree, Shipping!NoTree,
           Dep!Local, Shipping!Local, Dep!Idle, Shipping!Idle
  <2> QED
    BY <1>1, <2>1, Shipping!InitEstablishes DEF PartsInit
<1>3. [PartsNext]_parts => [Dep!Next]_deployment
  BY DEF PartsNext, Question, ClientStep, DeployStep, parts, deployment
<1>4. Shipping!IInv /\ [Dep!Next]_deployment => Shipping!IInv'
  <2>1. [Dep!Next]_deployment => [Shipping!Next]_(Shipping!vars)
    BY SameSteps DEF deployment, Shipping!vars
  <2> QED
    BY <1>1, <2>1, Shipping!StepPreserves
<1>5. Shipping!IInv /\ [Dep!Next]_deployment => [Dep!Install /\ packed => right]_(Dep!vars)
  <2>1. ASSUME Shipping!IInv, Dep!Install PROVE right
    <3>1. Shipping!Install
      BY <2>1, SameTrees DEF Dep!Install, Shipping!Install, Dep!building, Shipping!building
    <3>2. Shipping!InstalledRight
      BY <1>1, <2>1, <3>1, Shipping!InstallsOnlyPassed
    <3> QED
      BY <3>2, SameTrees DEF Shipping!InstalledRight
  <2> HIDE DEF right
  <2>2. Shipping!IInv => (Dep!Install /\ packed => right)
    BY <2>1
  <2> QED
    BY <2>2
<1> QED
  BY <1>2, <1>3, <1>4, <1>5, PTL
     DEF PartsSpec, InstallsWhatWasPacked, Dep!InstallsWhatWasPacked
=============================================================================

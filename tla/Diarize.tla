------------------------------ MODULE Diarize ------------------------------
(***************************************************************************)
(* The decisions of the diarization container: who may label a transcript, *)
(* how labels of windows of sound become labels of segments, and how the   *)
(* labelled words become the turns of the written transcript. Times are    *)
(* natural numbers, NoTime where there is none.                            *)
(***************************************************************************)
EXTENDS Listing, SequencesExt

CONSTANTS
  DefaultGap, DefaultDuration,   \* of a turn
  SmoothSpan,                    \* of the label smoothing, odd
  MaxMergeGap,                   \* between two windows of one speaker
  MinSegments, MinShare,         \* of a speaker, to be kept: how many, and
                                 \* how many in a hundred
  AutoSamples,                   \* windows it takes to choose a number of speakers
  AutoMin, AutoMax, MinSilhouette,
  MinClusterWindows, MinClusterShare  \* of a cluster, likewise

NoTime == -1
Or(time, default) == IF time = NoTime THEN default ELSE time
Larger(m, n) == IF m > n THEN m ELSE n
Smaller(m, n) == IF m < n THEN m ELSE n
(* At least so many in a hundred. *)
IsShare(part, whole, share) == part * 100 >= share * whole

-----------------------------------------------------------------------------
(* Who labels. A model is tried on line when there is a token, then from   *)
(* the local cache; `works` are the attempts that would succeed.           *)
Attempts(m, token, cached) ==
  (IF token THEN {<<"pyannote", m>>} ELSE {}) \cup (IF m \in cached THEN {<<"local", m>>} ELSE {})

Embedding == <<"embedding", "">>
Nobody == <<"none", "">>
Labeller(models, token, cached, works, fallback) ==
  LET working(m) == Attempts(m, token, cached) \cap works
      useful == {i \in DOMAIN models : working(models[i]) # {}}
      m == models[CHOOSE i \in useful : \A j \in useful : i <= j]
  IN  CASE useful # {} /\ <<"pyannote", m>> \in working(m) -> <<"pyannote", m>>
        [] useful # {} /\ <<"pyannote", m>> \notin working(m) -> <<"local", m>>
        [] useful = {} /\ fallback /\ Embedding \in works -> Embedding
        [] OTHER -> Nobody

(* args: enabled, require (pyannote), embedding (the environment's         *)
(* default), noEmbedding and allow (a transcript without labels). The      *)
(* manifest, or nothing when the container fails.                          *)
Manifest(args, models, token, cached, works) ==
  LET fallback == args.embedding /\ ~args.noEmbedding /\ ~args.require
      by == IF args.enabled THEN Labeller(models, token, cached, works, fallback) ELSE Nobody
      failed == args.enabled /\ by = Nobody
  IN  IF failed /\ ~args.allow THEN << >>
      ELSE <<[by |-> by, succeeded |-> args.enabled /\ ~failed]>>

-----------------------------------------------------------------------------

(* Mutant: a range is taken for its upper end, and not cut to the windows. *)
FixedSpeakers_UpperEnd(min, max, samples) ==
  LET n == Larger(min, max)
  IN  Larger(1, n)

(* How many speakers. 0 stands for a limit that is not given; a range is   *)
(* taken for its lower end. Otherwise the partition of the best score that *)
(* has no small cluster, if it separates well enough: `clusters` gives for *)
(* each number its smallest cluster and its silhouette, in hundredths.     *)
FixedSpeakers(min, max, samples) ==
  LET n == IF min > 0 /\ max > 0 THEN Smaller(min, max) ELSE Larger(min, max)
  IN  Larger(1, Smaller(n, samples))

AutoSpeakers(clusters, samples) ==
  LET top == Smaller(AutoMax, samples)
      score(k) == clusters[k].silhouette - (k - 1)
      fit == {k \in Larger(2, Smaller(AutoMin, top))..top :
                /\ samples >= AutoSamples /\ score(k) > -100
                /\ clusters[k].smallest >= MinClusterWindows
                /\ IsShare(clusters[k].smallest, samples, MinClusterShare)}
      best == {k \in fit : \A j \in fit :
                 score(j) < score(k) \/ (score(j) = score(k) /\ k <= j)}
  IN  {k \in best : clusters[k].silhouette >= MinSilhouette}

(* A fixed number, or a set: one number, or none for the distance rule.    *)
Speakers(min, max, samples, clusters) ==
  IF min > 0 \/ max > 0 THEN {FixedSpeakers(min, max, samples)}
                        ELSE AutoSpeakers(clusters, samples)

-----------------------------------------------------------------------------
(* Labels of windows, in the order of the windows: that of time or, when   *)
(* the sound is too quiet to choose among them, the loudest first. Each    *)
(* becomes the commonest around it: itself if none is commoner, else the   *)
(* first met.                                                              *)
Around(labels, i) ==
  Larger(1, i - SmoothSpan \div 2)..Smaller(Len(labels), i + SmoothSpan \div 2)
Smooth(labels) ==
  LET count(i, l) == Cardinality({j \in Around(labels, i) : labels[j] = l})
      top(i) == {j \in Around(labels, i) : \A k \in Around(labels, i) :
                   count(i, labels[k]) <= count(i, labels[j])}
      first(i) == CHOOSE j \in top(i) : \A k \in top(i) : j <= k
  IN  IF SmoothSpan = 1 \/ Len(labels) < SmoothSpan THEN labels
      ELSE [i \in DOMAIN labels |-> IF i \in top(i) THEN labels[i] ELSE labels[first(i)]]

(* The windows with their labels are brought in order of time; then those  *)
(* of one speaker that follow each other join.                             *)
InTime(windows, labels) ==
  Sorted([i \in DOMAIN windows |->
            [start |-> windows[i].start, end |-> windows[i].end, speaker |-> labels[i]]],
         DOMAIN windows,
         [i \in DOMAIN windows |-> <<windows[i].start, windows[i].end>>])
Joined(done, w) ==
  IF done # << >> /\ Last(done).speaker = w.speaker /\ w.start - Last(done).end <= MaxMergeGap
    THEN [done EXCEPT ![Len(done)].end = Larger(@, w.end)]
    ELSE Append(done, w)
MergeWindows(windows) ==
  LET merged[i \in 0..Len(windows)] ==
        IF i = 0 THEN << >> ELSE Joined(merged[i - 1], windows[i])
  IN  merged[Len(windows)]

(* The speaker of most of an interval, else of the nearest window; times   *)
(* of middles are doubled. The earlier window wins a tie.                  *)
SpeakerFor(merged, start, end) ==
  LET overlap(w) == Larger(0, Smaller(end, w.end) - Larger(start, w.start))
      apart(w) == IF start + end > w.start + w.end THEN start + end - (w.start + w.end)
                                                    ELSE w.start + w.end - (start + end)
      covered == \E i \in DOMAIN merged : overlap(merged[i]) > 0
      better(i, j) == IF covered THEN overlap(merged[i]) > overlap(merged[j])
                                 ELSE apart(merged[i]) < apart(merged[j])
  IN  merged[CHOOSE i \in DOMAIN merged : \A j \in DOMAIN merged :
               ~better(j, i) /\ (~better(i, j) => i <= j)].speaker

LabelSegments(windows, labels, segments) ==
  LET merged == MergeWindows(InTime(windows, Smooth(labels)))
  IN  [i \in DOMAIN segments |->
         [start |-> segments[i].start, end |-> segments[i].end,
          speaker |-> SpeakerFor(merged, segments[i].start, segments[i].end)]]

(* A speaker of too few segments, or of too small a share of them, gives   *)
(* them to the nearest segment of one of enough, if there is one. Every    *)
(* segment is labelled.                                                    *)
Cleanup(segments) ==
  LET count(s) == Cardinality({i \in DOMAIN segments : segments[i].speaker = s})
      dominant == {i \in DOMAIN segments :
                     /\ count(segments[i].speaker) >= MinSegments
                     /\ IsShare(count(segments[i].speaker), Len(segments), MinShare)}
      middle(i) == segments[i].start + segments[i].end
      apart(i, j) == Larger(middle(i) - middle(j), middle(j) - middle(i))
      nearest(i) == CHOOSE j \in dominant : \A k \in dominant :
                      apart(i, j) < apart(i, k) \/ (apart(i, j) = apart(i, k) /\ j <= k)
  IN  IF MinSegments <= 1 \/ dominant = {} THEN segments
      ELSE [i \in DOMAIN segments |->
              IF i \in dominant THEN segments[i]
              ELSE [segments[i] EXCEPT !.speaker = segments[nearest(i)].speaker]]

-----------------------------------------------------------------------------
(* The written transcript. A segment has a speaker ("" for none), a start, *)
(* an end and words [speaker, start, end, token], which may be none: then  *)
(* its text is one token.                                                  *)
Name(speaker) == IF speaker = "" THEN "UNKNOWN" ELSE speaker

Items(segments) ==
  LET item(s, w) == LET start == Or(w.start, s.start)
                        end == Or(Or(w.end, s.end), start)
                    IN  [speaker |-> Name(IF w.speaker = "" THEN s.speaker ELSE w.speaker),
                         start |-> start, end |-> Larger(start, end), token |-> w.token]
      whole(s) == [speaker |-> Name(s.speaker), start |-> s.start,
                   end |-> Or(s.end, s.start), token |-> s.text]
      at(s) == IF s.words = << >> THEN {0} ELSE DOMAIN s.words
      said(p) == LET s == segments[p[1]]
                 IN  IF p[2] = 0 THEN whole(s) ELSE item(s, s.words[p[2]])
      timed == {p \in UNION {{i} \X at(segments[i]) : i \in DOMAIN segments} : said(p).start # NoTime}
      order == Listed(timed, {p \in timed \X timed : Precedes(p[1], p[2])})
  IN  [n \in 1..Cardinality(timed) |-> said(order[n])]

(* An argument of 0 means the default; a negative duration means no limit. *)
GapOf(arg) == IF arg = 0 THEN DefaultGap ELSE Larger(arg, 0)
DurationOf(arg) == IF arg = 0 THEN DefaultDuration ELSE arg

Starts(turn, i, gap, duration) ==
  \/ i.speaker # turn.speaker
  \/ i.start - turn.end > gap
  \/ duration > 0 /\ i.end - turn.start > duration
Said(turns, i, gap, duration) ==
  IF turns = << >> \/ Starts(Last(turns), i, gap, duration)
    THEN Append(turns, [speaker |-> i.speaker, start |-> i.start, end |-> i.end, tokens |-> <<i.token>>])
    ELSE [turns EXCEPT ![Len(turns)] =
            [Last(turns) EXCEPT !.end = Larger(@, i.end), !.tokens = Append(@, i.token)]]
Turns(items, gap, duration) ==
  LET after[n \in 0..Len(items)] ==
        IF n = 0 THEN << >> ELSE Said(after[n - 1], items[n], gap, duration)
  IN  IF \A n \in DOMAIN items : items[n].speaker = "UNKNOWN" THEN << >>
      ELSE after[Len(items)]

(* Without a single label there is a line for each segment. *)
TxtLines(segments, gap, duration) ==
  LET turns == Turns(Items(segments), GapOf(gap), DurationOf(duration))
      line(s) == [speaker |-> Name(s.speaker), start |-> s.start, end |-> s.end,
                  tokens |-> IF s.words = << >> THEN <<s.text>>
                             ELSE [i \in DOMAIN s.words |-> s.words[i].token]]
  IN  IF turns # << >> THEN turns ELSE [i \in DOMAIN segments |-> line(segments[i])]

-----------------------------------------------------------------------------
(* Labels come only from a backend the options allow and that worked: with *)
(* --require-pyannote never from the embedding fallback, and never from it *)
(* while a pyannote model would do; the manifest claims success exactly    *)
(* when somebody labelled, and a failure is hidden only if it was allowed. *)
LabelledByAllowed(args, models, token, cached, works) ==
  LET manifest == Manifest(args, models, token, cached, works)
      tried == {<<"pyannote", models[i]>> : i \in IF token THEN DOMAIN models ELSE {}}
               \cup {<<"local", m>> : m \in cached \cap {models[i] : i \in DOMAIN models}}
  IN  /\ manifest = << >> => args.enabled /\ ~args.allow /\ tried \cap works = {}
      /\ manifest # << >> =>
           /\ manifest[1].succeeded <=> manifest[1].by # Nobody
           /\ manifest[1].by = Embedding =>
                ~args.require /\ ~args.noEmbedding /\ tried \cap works = {}
           /\ manifest[1].by \notin {Embedding, Nobody} => manifest[1].by \in tried \cap works

(* The speaker limits of the user hold whatever the sound says (as far as  *)
(* there are windows), and without limits a number of speakers is taken    *)
(* only if each has enough windows, and enough of them all, and they are   *)
(* apart.                                                                  *)
SpeakerLimitsHold(min, max, samples, clusters) ==
  \A n \in Speakers(min, max, samples, clusters) :
    /\ n \in 1..samples
    /\ max > 0 /\ max <= samples => n <= max
    /\ min > 0 /\ min <= samples /\ (max = 0 \/ min <= max) => n >= min
    /\ min = 0 /\ max = 0 =>
         /\ clusters[n].silhouette >= MinSilhouette
         /\ clusters[n].smallest >= MinClusterWindows
         /\ IsShare(clusters[n].smallest, samples, MinClusterShare)

(* Who speaks long enough is heard: a segment is given to the only speaker *)
(* heard in the windows it meets and in those their labels are smoothed    *)
(* with (their neighbours in time or, in a quiet recording, those about as *)
(* loud), and smoothing invents no speaker.                                *)
SpeakersAreHeard(windows, labels, segments) ==
  LET labelled == LabelSegments(windows, labels, segments)
      touched(s) == {i \in DOMAIN windows :
                       windows[i].start < s.end /\ s.start < windows[i].end}
      near(s) == UNION {Around(labels, i) : i \in touched(s)}
  IN  \A n \in DOMAIN segments :
        /\ \E i \in DOMAIN labels : labelled[n].speaker = labels[i]
        /\ \A l \in {labels[i] : i \in DOMAIN labels} :
             touched(segments[n]) # {} /\ (\A i \in near(segments[n]) : labels[i] = l) =>
               labelled[n].speaker = l

(* After the cleanup every segment's speaker has enough segments and a     *)
(* large enough share of them, unless nobody had or one segment is enough; *)
(* and no segment of a speaker who had enough of both is given away.       *)
SparseSpeakersGone(segments) ==
  LET clean == Cleanup(segments)
      count(s, l) == Cardinality({i \in DOMAIN s : s[i].speaker = l})
      enough(s, l) == /\ count(s, l) >= MinSegments
                      /\ IsShare(count(s, l), Len(segments), MinShare)
  IN  \A i \in DOMAIN segments :
        /\ enough(segments, segments[i].speaker) => clean[i] = segments[i]
        /\ \/ enough(clean, clean[i].speaker) \/ MinSegments <= 1
           \/ \A j \in DOMAIN segments : ~enough(segments, segments[j].speaker)

(* The written transcript says every word that has a time once and in      *)
(* order, each in a turn of its own speaker; a turn is longer than allowed *)
(* only by a single word; and two turns of one speaker in a row are apart  *)
(* by more than the gap or would be too long together.                     *)
TurnsKeepEveryWord(segments, gap, duration) ==
  LET items == Items(segments)
      turns == TxtLines(segments, gap, duration)
      limit == DurationOf(duration)
      tokens(s) == [i \in DOMAIN s |-> s[i].token]
      labelled == \E i \in DOMAIN items : items[i].speaker # "UNKNOWN"
  IN  /\ labelled =>
           /\ FlattenSeq([t \in DOMAIN turns |-> turns[t].tokens]) = tokens(items)
           /\ \A t \in DOMAIN turns : \A i \in DOMAIN items :
                Contains(turns[t].tokens, items[i].token) =>
                  /\ turns[t].speaker = items[i].speaker
                  /\ items[i].end <= turns[t].end
           /\ \A t \in DOMAIN turns :
                Len(turns[t].tokens) > 1 /\ limit > 0 =>
                  \/ turns[t].end - turns[t].start <= limit
                  \/ \E i \in DOMAIN items : items[i].token = turns[t].tokens[1]
                                             /\ items[i].end = turns[t].end
           /\ \A t \in 2..Len(turns) :
                turns[t].speaker = turns[t - 1].speaker =>
                  \/ turns[t].start - turns[t - 1].end > GapOf(gap)
                  \/ limit > 0 /\ turns[t].end - turns[t - 1].start > limit
      /\ ~labelled => Len(turns) = Len(segments)
=============================================================================

------------------------------ MODULE Calendar ------------------------------
(***************************************************************************)
(* How a moment is turned into a meeting: the three calendar backends and  *)
(* their order, and the three ways an event is picked from the list.       *)
(* An event is [title, start, end, canceled]; times are whole minutes, and *)
(* a title is a number, of which only the order matters.                   *)
(***************************************************************************)
EXTENDS Listing

CONSTANTS
  None,                  \* no event
  Unavailable, Error,    \* replies of a backend that gave no list
  MaxCandidates          \* how many candidates a resolution looks at

Abs(n) == IF n < 0 THEN -n ELSE n
AtLeast0(n) == IF n < 0 THEN 0 ELSE n
Lesser(m, n) == IF m < n THEN m ELSE n

FirstOf(s) == IF s = << >> THEN None ELSE s[1]
Kept(s) == SubSeq(s, 1, Lesser(Len(s), MaxCandidates))

-----------------------------------------------------------------------------
(* The backends. A reply is a sequence of events, or one of two failures:  *)
(* the backend is not there, or it went wrong.                             *)
Failed(reply) == reply \in {Unavailable, Error}
Found(reply) == ~Failed(reply) /\ reply # << >>

(* env: the helper configured ("none", "given": a path in the environment, *)
(* "default": the script in the tree), its mode, its reply, and that of    *)
(* the framework. A default helper that fails is passed over, unless the   *)
(* mode insists on it.                                                     *)
EventKit(env) ==
  CASE env.helper = "given" -> env.helped
    [] env.helper = "default" /\ env.mode # "off"
         /\ (~Failed(env.helped) \/ env.mode = "helper") -> env.helped
    [] OTHER -> env.framework

(* jxa and ical are the replies the two would give if they were asked.     *)
FetchEvents(eventkit, jxa, ical) ==
  LET gone == eventkit = Unavailable
      events == IF gone THEN << >> ELSE eventkit
      from(reply, backend) == [events |-> reply, backend |-> backend]
  IN  CASE eventkit = Error -> from(Error, "eventkit")
        [] Found(eventkit) -> from(events, "eventkit")
        [] ~Found(eventkit) /\ Found(jxa) -> from(jxa, "jxa")
        [] ~Found(eventkit) /\ ~Found(jxa) /\ Found(ical) -> from(ical, "icalbuddy")
        [] gone /\ ~Found(jxa) /\ Failed(ical) -> from(Error, "icalbuddy")
        [] gone /\ ~Found(jxa) /\ ical = << >> -> from(events, "icalbuddy")
        [] OTHER -> from(events, "eventkit")

(* The lines of icalBuddy, [title, from, to] in minutes of the day, all    *)
(* put on the day that starts at `day`; one that does not end after it     *)
(* starts ends on the next day.                                            *)
ICalBuddyEvents(lines, day, DayLength) ==
  [i \in DOMAIN lines |->
    [title    |-> lines[i].title,
     canceled |-> FALSE,
     start    |-> day + lines[i].from,
     end      |-> day + lines[i].to
                    + (IF lines[i].to <= lines[i].from THEN DayLength ELSE 0)]]

-----------------------------------------------------------------------------
(* The event to record when the user starts: one under way, else the next. *)
SelectNowOrNext(events, now, window) ==
  LET live(e) == ~e.canceled
      ongoing(e) == live(e) /\ e.start <= now /\ now < e.end
      upcoming(e) == live(e) /\ now < e.start /\ e.start <= now + window
      key == [i \in DOMAIN events |-> <<events[i].start, events[i].title>>]
      first(places) == FirstOf(Sorted(events, places, key))
      current == first({i \in DOMAIN events : ongoing(events[i])})
  IN  IF current # None THEN current ELSE first({i \in DOMAIN events : upcoming(events[i])})

(* The order in which the ingest prefers a start: now, within 5 minutes,   *)
(* within 10, then 5, 10 and 15 minutes ago; None is out of reach.         *)
MatchStage(delta, forward, backward) ==
  LET within(limit) == IF delta > 0 THEN delta <= Lesser(limit, forward)
                                    ELSE -delta <= Lesser(limit, backward)
  IN  CASE delta = 0                -> 0
        [] delta > 0 /\ within(5)   -> 1
        [] delta > 0 /\ ~within(5) /\ within(10) -> 2
        [] delta < 0 /\ within(5)   -> 3
        [] delta < 0 /\ ~within(5) /\ within(10) -> 4
        [] delta < 0 /\ ~within(10) /\ within(15) -> 5
        [] OTHER -> None

NearNowCandidates(events, now, forward, backward) ==
  LET stage(e) == MatchStage(e.start - now, AtLeast0(forward), AtLeast0(backward))
      reached == {i \in DOMAIN events : ~events[i].canceled /\ stage(events[i]) # None}
      key(e) == <<stage(e), Abs(e.start - now), e.start, e.title>>
  IN  Kept(Sorted(events, reached, [i \in reached |-> key(events[i])]))

(* The one best candidate, or none when two are as good. *)
ResolveNearNow(events, now, forward, backward) ==
  LET candidates == NearNowCandidates(events, now, forward, backward)
      stage(e) == MatchStage(e.start - now, AtLeast0(forward), AtLeast0(backward))
      asGood(e) == /\ stage(e) = stage(candidates[1])
                   /\ Abs(e.start - now) = Abs(candidates[1].start - now)
      best == Filtered(candidates, {n \in DOMAIN candidates : asGood(candidates[n])})
  IN  IF Len(best) = 1 THEN best[1] ELSE None

(* Mutant: the end belongs to the event. *)
Distance_EndIncluded(e, at) ==
  IF e.start <= at /\ at <= e.end THEN 0 ELSE Abs(e.start - at)

(* The distance of a recording taken at `at`: none while the event runs,   *)
(* else from its start. The end is excluded.                               *)
Distance(e, at) ==
  IF e.start <= at /\ at < e.end THEN 0 ELSE Abs(e.start - at)

NearTimestampCandidates(events, at, window) ==
  LET near == {i \in DOMAIN events : Distance(events[i], at) <= AtLeast0(window)}
      key(e) == <<Distance(e, at), e.start, e.title>>
  IN  Kept(Sorted(events, near, [i \in near |-> key(events[i])]))

ResolveNearTimestamp(events, at, window) ==
  LET candidates == NearTimestampCandidates(events, at, window)
      asGood(e) == Distance(e, at) = Distance(candidates[1], at)
      best == Filtered(candidates, {n \in DOMAIN candidates : asGood(candidates[n])})
  IN  IF Len(best) = 1 THEN best[1] ELSE None

-----------------------------------------------------------------------------
(* A link is the set of conferencing domains its text mentions; links come *)
(* from the event's url, location and notes in that order.                 *)
Domains == <<"teams", "zoom", "meet", "webex">>
Platform(link) ==
  IF \E i \in DOMAIN Domains : Domains[i] \in link
    THEN Domains[CHOOSE i \in DOMAIN Domains :
                   Domains[i] \in link /\ \A j \in 1..(i - 1) : Domains[j] \notin link]
    ELSE "unknown"
JoinUrl(links) ==
  LET mentions(d) == Filtered(links, {k \in DOMAIN links : d \in links[k]})
      known == Filtered(Domains, {i \in DOMAIN Domains : mentions(Domains[i]) # << >>})
  IN  IF known # << >> THEN mentions(known[1])[1] ELSE
      IF links = << >> THEN {} ELSE links[1]

-----------------------------------------------------------------------------
(* Properties. *)

(* The fallback of _fetch_events_in_range loses no event: unless EventKit  *)
(* itself goes wrong, the events come from the first backend that has any, *)
(* and an empty calendar is reported only if no backend has one.           *)
FetchFindsEvents(env, jxa, ical) ==
  LET replies == <<EventKit(env), jxa, ical>>
      has == {i \in 1..3 : Found(replies[i])}
      fetched == FetchEvents(EventKit(env), jxa, ical)
  IN  EventKit(env) # Error =>
        /\ has # {} => \E i \in has : fetched.events = replies[i] /\ \A j \in has : i <= j
        /\ has = {} => fetched.events \in {<< >>, Error}

(* A recording is filed under a meeting only if no other event fits as     *)
(* well, however many fit and however they are listed: what the candidate  *)
(* list was cut to, and its order, never settle a tie. A canceled meeting  *)
(* is not what the ingest resolves to.                                     *)
OnlyFitOrNone(events, now, forward, backward, window) ==
  LET stage(e) == MatchStage(e.start - now, AtLeast0(forward), AtLeast0(backward))
      fits == {i \in DOMAIN events : ~events[i].canceled /\ stage(events[i]) # None}
      nearer(i, j) == Precedes(<<stage(events[i]), Abs(events[i].start - now)>>,
                               <<stage(events[j]), Abs(events[j].start - now)>>)
      best == {i \in fits : \A j \in fits \ {i} : nearer(i, j)}
      runs == {i \in DOMAIN events : Distance(events[i], now) <= AtLeast0(window)}
      closest == {i \in runs : \A j \in runs \ {i} :
                     Distance(events[i], now) < Distance(events[j], now)}
      is(result, s) == IF s = {} THEN result = None ELSE \E i \in s : result = events[i]
  IN  /\ is(ResolveNearNow(events, now, forward, backward), best)
      /\ is(ResolveNearTimestamp(events, now, window), closest)

(* "Treat end as exclusive to avoid ambiguity when one meeting ends        *)
(* exactly as another starts": of meetings that do not overlap, listed by  *)
(* icalBuddy and one of them perhaps past midnight, the one under way is   *)
(* found at every minute of it, and starting the recorder finds it too.    *)
UnderWayIsFound(lines, day, dayLength, now) ==
  LET events == ICalBuddyEvents(lines, day, dayLength)
      under(e) == e.start <= now /\ now < e.end
      apart == \A i, j \in DOMAIN events : i # j =>
                 events[i].end <= events[j].start \/ events[j].end <= events[i].start
      running == {i \in DOMAIN events : day + lines[i].from <= now
                    /\ now <= day + lines[i].from
                               + ((lines[i].to - lines[i].from - 1) % dayLength)}
  IN  apart => \A i \in running :
        /\ ResolveNearTimestamp(events, now, 0) = events[i]
        /\ SelectNowOrNext(events, now, dayLength) = events[i]

(* The link a meeting is joined by is of the platform the note names, and  *)
(* a link of a preferred platform is never passed over for another.        *)
PlatformIsPreferred(links) ==
  LET ranks == {i \in DOMAIN Domains : \E k \in DOMAIN links : Domains[i] \in links[k]}
  IN  /\ ranks = {} => Platform(JoinUrl(links)) = "unknown"
      /\ \A i \in ranks : (\A j \in ranks : i <= j) => Platform(JoinUrl(links)) = Domains[i]
=============================================================================

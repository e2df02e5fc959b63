------------------------------ MODULE MCParts ------------------------------
(***************************************************************************)
(* The inputs the parts are asked about.                                   *)
(***************************************************************************)
EXTENDS Parts

(* All sequences of at most so many members of a set. *)
UpTo(n, S) == UNION {[1..k -> S] : k \in 0..n}

-----------------------------------------------------------------------------
(* Inputs. *)
Events == [title : 1..2, start : {9, 20, 26, 30}, end : {30, 31}, canceled : BOOLEAN]
Calendars == UpTo(2, Events) \cup [1..3 -> {e \in Events : e.end = 31 /\ e.start # 9}]
Reaches == [forward : {15}, backward : {15}, window : {-1, 10}]

Lines == [title : {1}, from : 0..(DayLength - 1), to : 0..(DayLength - 1)]
Minutes == 0..(2 * DayLength - 1)

Replies == {Unavailable, Error, << >>, <<"event">>}
Environments == [helper : {"none", "given", "default"}, mode : {"auto", "helper", "off"},
                 helped : Replies, framework : Replies]

Links == UpTo(3, SUBSET {"teams", "zoom", "meet", "webex"})

W(w) == Patch!Word(w)
NL == Patch!Newline
Between == {<< >>, <<NL>>, <<W("text")>>, <<NL, W("text"), NL>>}
Old == {<<NL>>, <<W("old")>>, <<NL, W("old")>>, <<NL, W("old"), NL>>, <<NL, NL>>}
Region(r, c) == <<Patch!Start(r)>> \o c \o <<Patch!End(r)>>
Note(r, c, between, q, d) ==
  <<W("head"), NL>> \o Region(r, c) \o between \o Region(q, d) \o <<NL, W("foot")>>
Contents == {<< >>, <<W("new")>>, <<W("new"), NL, NL>>, <<NL, W("new")>>}
Updates == {u \in UpTo(2, (Regions \cup {"references"}) \X Contents) :
              Len(u) = 2 => u[1][1] # u[2][1]}

Given(t) == {Text!Missing, Text!List(<< >>), Text!List(<<Text!Plain(t)>>)}
Inner == {Text!Object(m, d, i, whole) :
            m \in {Text!Missing, Text!Blank, Text!Plain("inner")},
            d \in Given("inner d"), i \in Given("inner i"), whole \in BOOLEAN}
Fields == {Text!Blank, Text!Other, Text!Plain("d"), Text!List(<<Text!Blank, Text!Plain("d")>>)}
Answered == {Text!Object(m, d, i, whole) :
              m \in Inner \cup {Text!Missing, Text!Blank, Text!Other, Text!Plain("m"),
                                Text!List(<<Text!Plain("m")>>)},
              d \in Given("d") \cup Fields, i \in Given("i") \cup Fields, whole \in BOOLEAN}
             \cup {Text!Blank, Text!Plain("prose")}
AllValues ==
  LET held(v) == IF v.is = "object" THEN {v.minutes, v.decisions, v.action_items} ELSE {}
      fields == UNION {held(v) : v \in Answered}
      lists == {v \in fields \cup UNION {held(v) : v \in fields} : v.is = "list"}
  IN  Answered \cup fields \cup UNION {held(v) : v \in fields}
      \cup UNION {{l.items[i] : i \in DOMAIN l.items} : l \in lists}

Paths == {<<"note">>, <<"name with id">>, <<"Meetings", "note">>, <<"_Work", "F", "note">>,
          <<"_Work", "F", "Clients", "C", "note">>,
          <<"_Work", "F", "Clients", "_Leads", "L", "note">>,
          <<"_Work", "F", "Clients", "_Leads", "note">>}
Plain(key) == Matter!Line(key, "scalar", <<"x">>)
Empty(key) == Matter!Line(key, "scalar", << >>)
FrontLines == {Plain(key) : key \in {"type", "meeting_id", "title", "firm", "topic", "tags"}}
              \cup {Empty("firm"), Empty("topic"), Empty("tags"), Matter!Item("x")}
TagValues == {Matter!Line("tags", form, words) :
                form \in {"scalar", "inline"}, words \in {<< >>, <<"x">>, <<"x", "y">>}}
             \cup {Matter!Line("tags", "ambiguous", <<"x">>)}
TagLines == TagValues \cup {Matter!Item("x"), Matter!Item("y"), Matter!Item(""), Plain("title"), Plain("?")}

BothModels == <<"a", "b">>
InstallFirst == <<1, 2>>

Tried == {<<"pyannote", "a">>, <<"local", "a">>, <<"pyannote", "b">>, <<"local", "b">>,
          Embedding}
Arguments == [enabled : BOOLEAN, require : BOOLEAN, embedding : BOOLEAN,
              noEmbedding : BOOLEAN, allow : BOOLEAN]
Clusters == [2..4 -> [smallest : {1, 2}, silhouette : 1..3]]
Windows == [i \in 1..7 |-> [start |-> i - 1, end |-> i]]
Loudest == [i \in 1..7 |-> Windows[<<4, 1, 7, 3, 5, 2, 6>>[i]]]
Stretches == {[start |-> a, end |-> b] : a \in 0..9, b \in 0..9} \cap
             {[start |-> a, end |-> a + n] : a \in 0..8, n \in {1, 2}}
Heard == [1..3 -> {"a", "b"}] \cup [1..4 -> {"a", "b"}] \cup [1..5 -> {"a", "b", "c"}]
OneEach(names) == [i \in DOMAIN names |-> [start |-> i, end |-> i + 1, speaker |-> names[i]]]
Spoken(token) == [speaker : {"", "a", "b"}, start : {0, 2, NoTime}, end : {1, 4, NoTime}, token : {token}]
LastSpoken == {w \in Spoken("w3") : w.start = 2 /\ w.end = 4}
Segment(speaker, words) == [speaker |-> speaker, start |-> 0, end |-> 4, words |-> words, text |-> "text"]

(* A recording without a time in its name gets the file's.                 *)
Meeting(n) == <<"old", n>>
Recording(family, ext, mtime, taken, marker, short) ==
  [family |-> family, ext |-> ext, mtime |-> mtime, taken |-> taken,
   inferred |-> IF taken = None THEN mtime ELSE taken, marker |-> marker, short |-> short]
Found == {{Recording(n, "wav", n, None, markers[n], shorts[n]) : n \in 1..3} :
            markers \in {[n \in 1..3 |-> None], <<Meeting(2), None, Meeting(2)>>},
            shorts \in {[n \in 1..3 |-> FALSE], <<TRUE, FALSE, FALSE>>}}
         \cup {{Recording(n, "wav", n, taken[n], None, FALSE) : n \in 1..3} :
                 taken \in {<<4, 7, 10>>, <<10, 4, 7>>, <<4, 5, None>>, <<9, 7, 12>>}}
         \cup {{Recording(1, "wav", m, None, None, FALSE), Recording(1, "m4a", n, None, None, FALSE),
                Recording(2, "m4a", 2, None, None, FALSE)} : m, n \in {1, 3}}
Notes == [meeting : {Meeting(1), Meeting(2)}, start : {None, 3, 5}, audio : {None, <<1, "wav">>}]
         \cup [meeting : {None}, start : {3}, audio : {<<1, "wav">>}]
         \cup [meeting : {Meeting(1)}, start : {3}, audio : {<<1, "m4a">>}]
Ends == [ok : {TRUE}, matched : {{}}, raises : {"none", "stat", "note", "copies", "promotion"}]
        \cup [ok : {FALSE}, matched : {{}, {"lightning"}, {"docker", "lightning"}}, raises : {"none"}]

-----------------------------------------------------------------------------
AllInputs == [
  match |-> [events : Calendars, now : {20}, reach : Reaches],
  underway |-> [lines : UpTo(2, Lines), now : Minutes],
  fetch |-> [env : Environments, jxa : Replies, ical : Replies],
  link |-> Links,
  patch |-> [note : {Note(r, c, between, "decisions", d) :
                       r \in Regions, between \in Between, c \in Old, d \in Old}
                    \cup {Note("decisions", <<NL>>, between, "minutes", d) :
                            between \in Between, d \in Old},
             updates : Updates],
  text |-> Answered,
  normalize |-> [parts : Paths, fm : UpTo(3, FrontLines)],
  tags |-> [fm : UpTo(4, TagLines), dropped : {{}, {"x"}}],
  labeller |-> [args : Arguments, token : BOOLEAN, cached : SUBSET {"a", "b"},
                works : SUBSET Tried],
  speakers |-> [min : 0..3, max : 0..3, samples : {1, 2, 4, 6}, clusters : Clusters],
  heard |-> [windows : {Windows, Loudest}, labels : [1..7 -> {"a", "b"}], segments : [{1} -> Stretches]],
  sparse |-> {OneEach(names) : names \in Heard},
  turns |-> [segments : {<<Segment(speaker, <<w1, w2>>), Segment("b", <<w3>>)>> :
                           speaker \in {"", "a"}, w1 \in Spoken("w1"),
                           w2 \in Spoken("w2"), w3 \in LastSpoken},
             gap : {0, 2}, duration : {-1, 0, 3}],
  filed |-> [recording : {Recording(1, "wav", 1, taken, marker, FALSE) :
                            taken \in {2, None}, marker \in {None, Meeting(2)}},
             notes : UpTo(3, Notes)],
  batch |-> [found : Found,
             notes : {<< >>, <<[meeting |-> Meeting(2), start |-> 8, audio |-> None]>>},
             transcribed : {{Meeting(2)}}, require : BOOLEAN, sidecar : [1..3 -> Ends]]
]
=============================================================================

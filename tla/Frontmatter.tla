---------------------------- MODULE Frontmatter ----------------------------
(***************************************************************************)
(* The frontmatter of a note as three tools see it: normalize-frontmatter, *)
(* fix_vault_tags and audit_vault_tags. It is a sequence of lines, each a  *)
(* key with the words of its value; an item of a block list is a line of   *)
(* key "-", and a line no tool takes for a key ("my key: x") is of key "?".*)
(***************************************************************************)
EXTENDS Listing

Line(key, form, words) == [key |-> key, form |-> form, words |-> words]
Set(key, word) == Line(key, "scalar", <<word>>)
Item(tag) == Line("-", "scalar", <<tag>>)
IsKey(line) == line.key \notin {"-", "?"}

Keys(fm) == {fm[i].key : i \in DOMAIN fm}
At(fm, key) == CHOOSE i \in DOMAIN fm :
                 fm[i].key = key /\ \A j \in 1..(i - 1) : fm[j].key # key
Ahead(fm, i) == SubSeq(fm, 1, i - 1)
From(fm, i) == SubSeq(fm, i, Len(fm))

-----------------------------------------------------------------------------
(* normalize-frontmatter *)

(* The pattern "^key:\s*.*$" runs on over the newline of an empty value:   *)
(* the line after it is replaced with it. A new key goes first, or after a *)
(* leading "type:".                                                        *)
SetValue(fm, key, word) ==
  IF key \in Keys(fm)
    THEN LET i == At(fm, key)
             next == IF fm[i].words = << >> THEN i + 2 ELSE i + 1
         IN  Ahead(fm, i) \o <<Set(key, word)>> \o From(fm, next)
    ELSE LET i == IF fm # << >> /\ fm[1].key = "type" THEN 2 ELSE 1
         IN  Ahead(fm, i) \o <<Set(key, word)>> \o From(fm, i)

Defaults == <<"note_type", "client", "firm", "engagement", "topic", "opportunity_id",
              "project_id", "team", "related_notes">>

EnsureDefaults(fm) ==
  LET after[i \in 0..Len(Defaults)] ==
        IF i = 0 THEN fm
        ELSE IF Defaults[i] \in Keys(after[i - 1]) THEN after[i - 1]
        ELSE SetValue(after[i - 1], Defaults[i], "default")
  IN  after[Len(Defaults)]

(* parts is the path of the note under the vault, its own name last. *)
InferWorkContext(parts) ==
  IF Len(parts) < 2 \/ parts[1] # "_Work" THEN << >>
  ELSE LET firm == <<"firm", parts[2]>>
           clients == Len(parts) >= 4 /\ parts[3] = "Clients"
       IN  CASE ~clients -> <<firm>>
             [] clients /\ parts[4] # "_Leads" ->
                  <<firm, <<"client", parts[4]>>, <<"engagement", "Client">>>>
             [] clients /\ parts[4] = "_Leads" /\ Len(parts) >= 5 ->
                  <<firm, <<"client", parts[5]>>, <<"engagement", "Lead">>>>
             [] OTHER -> <<firm, <<"engagement", "Lead">>>>

LooksLikeMeeting(parts, fm) ==
  "meeting_id" \in Keys(fm) \/ parts[1] = "Meetings" \/ parts[Len(parts)] = "name with id"

(* What is set on a note: where it lies, and what its name says. *)
Settings(parts, fm) ==
  InferWorkContext(parts) \o
    (IF LooksLikeMeeting(parts, fm)
       THEN <<<<"note_type", "meeting">>, <<"title", parts[Len(parts)]>>>> ELSE << >>)

Normalized(parts, fm) ==
  LET filled == EnsureDefaults(fm)
      settings == Settings(parts, filled)
      after[i \in 0..Len(settings)] ==
        IF i = 0 THEN filled ELSE SetValue(after[i - 1], settings[i][1], settings[i][2])
  IN  after[Len(settings)]

-----------------------------------------------------------------------------
(* fix_vault_tags and audit_vault_tags. The value of `tags` is a scalar    *)
(* (one word or several), an inline list, or of a form the fixer leaves.   *)

(* The items under a key: every line up to the next key is taken away. A   *)
(* dash with nothing after it is an item to the fixer, the tag "".         *)
BlockEnd(fm, i) ==
  LET keys == {j \in (i + 1)..Len(fm) : IsKey(fm[j])}
  IN  IF keys = {} THEN Len(fm) + 1 ELSE CHOOSE j \in keys : \A k \in keys : j <= k
Items(fm, i) ==
  LET items == Filtered(fm, {j \in (i + 1)..(BlockEnd(fm, i) - 1) : fm[j].key = "-"})
  IN  [n \in DOMAIN items |-> items[n].words[1]]

Tags(fm) ==
  LET i == At(fm, "tags")
  IN  IF fm[i].words = << >> /\ fm[i].form = "scalar" THEN Items(fm, i) ELSE fm[i].words

(* Left as it is: no tags, an empty value, or a form it cannot split.      *)
Ambiguous(fm) ==
  LET line == fm[At(fm, "tags")]
  IN  line.form = "ambiguous" \/ (line.form = "scalar" /\ Tags(fm) = << >>)

Kept(tags, dropped) == Filtered(tags, {n \in DOMAIN tags : tags[n] \notin dropped})
FixTags(fm, dropped) ==
  IF "tags" \notin Keys(fm) \/ Ambiguous(fm) THEN fm
  ELSE LET i == At(fm, "tags")
           kept == Kept(Tags(fm), dropped)
           rest == IF fm[i].form = "scalar" /\ fm[i].words = << >> THEN BlockEnd(fm, i) ELSE i + 1
       IN  Ahead(fm, i) \o <<Line("tags", "scalar", << >>)>>
             \o [n \in DOMAIN kept |-> Item(kept[n])] \o From(fm, rest)

(* The audit asks for a word after the dash.                               *)
Worded(tags) == \E n \in DOMAIN tags : tags[n] # ""
Audit(fm) ==
  IF "tags" \notin Keys(fm) THEN "missing"
  ELSE LET i == At(fm, "tags")
       IN  IF fm[i].form = "inline" \/ (fm[i].words = << >> /\ Worded(Items(fm, i))
                                        /\ fm[i].form = "scalar")
             THEN "list" ELSE "scalar"

-----------------------------------------------------------------------------
(* Items stand only under a key without a value of its own. *)
Readable(fm) ==
  \A i \in DOMAIN fm : fm[i].key = "-" =>
    \E j \in 1..(i - 1) : /\ IsKey(fm[j]) /\ fm[j].form = "scalar" /\ fm[j].words = << >>
                          /\ \A k \in (j + 1)..i : ~IsKey(fm[k])
Others(fm, keys) == Filtered(fm, {i \in DOMAIN fm : fm[i].key \notin keys})
KeysBeside(fm, key) == Filtered(fm, {i \in DOMAIN fm : IsKey(fm[i]) /\ fm[i].key # key})

(* Normalising a note sets what its place and name say, adds the defaults  *)
(* that are missing, keeps every other line in its place, and done again   *)
(* changes nothing: provided that no key it sets stands there with an      *)
(* empty value, for then the line after that key is lost.                  *)
NormalizeKeepsTheRest(parts, fm) ==
  LET out == Normalized(parts, fm)
      settings == Settings(parts, fm)
      set == {settings[i][1] : i \in DOMAIN settings}
      added == {Defaults[i] : i \in DOMAIN Defaults} \ Keys(fm)
      empty == \E i \in DOMAIN fm : fm[i].key \in set /\ fm[i].words = << >>
  IN  ~empty =>
        /\ Others(out, set \cup added) = Others(fm, set \cup added)
        /\ \A i \in DOMAIN settings : out[At(out, settings[i][1])] = Set(settings[i][1], settings[i][2])
        /\ Normalized(parts, out) = out

(* The tag fixer loses no tag but those it was told to drop, keeps every   *)
(* key and its order, and settles in one run. A note it has rewritten is a *)
(* list to the audit exactly when one of the tags it kept has a word: an   *)
(* empty `tags` and one over blank items only are scalars to the audit,    *)
(* run after run, and the fixer has nothing more to do. A line it takes    *)
(* for no key is lost when it stands under an empty `tags`, which a first  *)
(* run leaves where there was a value.                                     *)
FixerAgreesWithAudit(fm, dropped) ==
  LET out == FixTags(fm, dropped)
      strayed == \E i \in DOMAIN fm : fm[i].key = "tags" /\
                   \E j \in (i + 1)..(BlockEnd(fm, i) - 1) : fm[j].key = "?"
      once == Cardinality({i \in DOMAIN fm : fm[i].key = "tags"}) = 1
  IN  once /\ Readable(fm) =>
        /\ KeysBeside(out, "tags") = KeysBeside(fm, "tags")
        /\ ~Ambiguous(fm) =>
             /\ Tags(out) = Kept(Tags(fm), dropped)
             /\ Audit(out) = IF Worded(Kept(Tags(fm), dropped)) THEN "list" ELSE "scalar"
        /\ ~strayed => FixTags(out, dropped) = out
=============================================================================

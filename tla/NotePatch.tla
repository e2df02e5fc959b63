----------------------------- MODULE NotePatch -----------------------------
(***************************************************************************)
(* How the managed regions of a note are rewritten. A note is a sequence   *)
(* of tokens: the markers of its regions, newlines and words.              *)
(***************************************************************************)
EXTENDS Listing

Newline == [is |-> "newline", of |-> ""]
Word(w) == [is |-> "word", of |-> w]
Start(r) == [is |-> "start", of |-> r]
End(r) == [is |-> "end", of |-> r]
IsMarker(token) == token.is \in {"start", "end"}

(* The place of the first such token from a place on; 0 if there is none. *)
Find(note, token, from) ==
  LET places == {i \in from..Len(note) : note[i] = token}
  IN  IF places = {} THEN 0 ELSE CHOOSE i \in places : \A j \in places : i <= j

Ahead(note, i) == SubSeq(note, 1, i - 1)
From(note, i) == SubSeq(note, i, Len(note))

TrailingDropped(content) ==
  LET words == {i \in DOMAIN content : content[i] # Newline}
  IN  IF words = {} THEN << >>
      ELSE SubSeq(content, 1, CHOOSE i \in words : \A j \in words : j <= i)

Opens(note, r) == Find(note, Start(r), 1)
Closes(note, r) == IF Opens(note, r) = 0 THEN 0 ELSE Find(note, End(r), Opens(note, r) + 1)
HasRegion(note, r) == Closes(note, r) # 0

(* Mutant: the old content is left. *)
ReplaceRegion_Appends(note, r, content) ==
  LET close == Closes(note, r)
      innerEnd == IF note[close - 1] = Newline THEN close - 1 ELSE close
  IN  Ahead(note, innerEnd) \o TrailingDropped(content) \o <<Newline>> \o From(note, innerEnd)

(* One newline after the start marker is kept, and one before the end.     *)
ReplaceRegion(note, r, content) ==
  LET open == Opens(note, r)
      close == Closes(note, r)
      innerStart == IF note[open + 1] = Newline THEN open + 2 ELSE open + 1
      innerEnd == IF note[close - 1] = Newline THEN close - 1 ELSE close
  IN  Ahead(note, innerStart) \o TrailingDropped(content) \o <<Newline>> \o From(note, innerEnd)

(* updates is a sequence of <<region, content>>; the patch is refused as a *)
(* whole when a marker is missing, and then nothing is written.            *)
Patched(note, updates) ==
  LET after[i \in 0..Len(updates)] ==
        IF i = 0 THEN note
        ELSE IF HasRegion(after[i - 1], updates[i][1])
               THEN ReplaceRegion(after[i - 1], updates[i][1], updates[i][2])
               ELSE after[i - 1]
      refused == \E i \in DOMAIN updates : ~HasRegion(after[i - 1], updates[i][1])
  IN  IF refused THEN note ELSE after[Len(updates)]

-----------------------------------------------------------------------------
(* Every region once, its start before its end, none inside another. *)
WellFormed(note, regions) ==
  /\ \A r \in regions :
       /\ Cardinality({i \in DOMAIN note : note[i] = Start(r)}) = 1
       /\ Cardinality({i \in DOMAIN note : note[i] = End(r)}) = 1
       /\ HasRegion(note, r)
  /\ \A q, r \in regions :
       q # r => Closes(note, q) < Opens(note, r) \/ Closes(note, r) < Opens(note, q)

Within(note, r, i) == Opens(note, r) < i /\ i < Closes(note, r)
Inside(note, r) == SubSeq(note, Opens(note, r) + 1, Closes(note, r) - 1)
Outside(note, given) ==
  Filtered(note, {i \in DOMAIN note : \A r \in given : ~Within(note, r, i)})
Words(s) == Filtered(s, {i \in DOMAIN s : s[i] # Newline})

(* Patching a note whose regions are in order, in the order of a template  *)
(* or another, with content that holds no marker: a note that misses a     *)
(* region is not changed at all; else what is outside the patched regions, *)
(* the user's own text and other regions with it, is kept as it was; each  *)
(* patched region says what it was given; and patching once more with the  *)
(* same content (a job that is run again) changes nothing, though the      *)
(* first time moves newlines about: provided that the markers stand on     *)
(* lines of their own, as those of a template do. A patch never takes two  *)
(* newlines before an end, but adds one where there was none.              *)
PatchTouchesItsRegions(note, updates, regions) ==
  LET once == Patched(note, updates)
      given == {updates[i][1] : i \in DOMAIN updates}
      marked == \E i \in DOMAIN updates : \E j \in DOMAIN updates[i][2] : IsMarker(updates[i][2][j])
      onLines == \A r \in given : /\ note[Opens(note, r) + 1] = Newline
                                  /\ note[Closes(note, r) - 1] = Newline
  IN  WellFormed(note, regions) /\ ~marked =>
        IF ~(given \subseteq regions) THEN once = note ELSE
        /\ WellFormed(once, regions)
        /\ Outside(once, given) = Outside(note, given)
        /\ \A i \in DOMAIN updates : Words(Inside(once, updates[i][1])) = Words(updates[i][2])
        /\ onLines => Patched(once, updates) = once
=============================================================================

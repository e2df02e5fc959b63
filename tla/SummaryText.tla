---------------------------- MODULE SummaryText ----------------------------
(***************************************************************************)
(* What becomes of the fields of a summary. A value is missing, a text, a  *)
(* list of values or something else; a text is blank, plain, or itself     *)
(* holds an object with the three fields, which may be cut off.            *)
(***************************************************************************)
EXTENDS Listing

Missing == [is |-> "missing"]
Other == [is |-> "other"]
List(items) == [is |-> "list", items |-> items]
Blank == [is |-> "blank"]
Plain(t) == [is |-> "plain", t |-> t]
Object(minutes, decisions, items, whole) ==
  [is |-> "object", minutes |-> minutes, decisions |-> decisions,
   action_items |-> items, whole |-> whole]

NoSummary == Plain("Summary unavailable.")
Repr == Plain("str()")     \* str() of a value that is no string

IsText(v) == v.is \in {"blank", "plain", "object"}
NonBlank(v) == v.is \in {"plain", "object"}

(* The "minutes" of an object inside a text, found even when it is cut off; *)
(* Missing when there is none or it is no string or blank.                 *)
ExtractMinutes(text) ==
  IF text.is = "object" /\ NonBlank(text.minutes) THEN text.minutes ELSE Missing

HoldsSummary(text) ==
  text.is = "object" /\ text.whole /\ text.minutes # Missing

Either(v, w) == IF v # Missing THEN v ELSE w

CoerceMinutes(value, fallback) ==
  CASE NonBlank(value) -> Either(ExtractMinutes(value), value)
    [] value.is \in {"list", "other"} -> Repr
    [] OTHER -> IF NonBlank(fallback) THEN Either(ExtractMinutes(fallback), fallback)
                                      ELSE NoSummary

Strings(v) == IF IsText(v) THEN v ELSE Repr
CoerceList(value) ==
  CASE value.is = "list" ->
         LET texts == [i \in DOMAIN value.items |-> Strings(value.items[i])]
         IN  Filtered(texts, {i \in DOMAIN texts : NonBlank(texts[i])})
    [] value.is = "other" -> <<Repr>>
    [] OTHER -> IF NonBlank(value) THEN <<value>> ELSE << >>

(* A mapping among the action items ("other") is kept if it names a task;  *)
(* here it does. Anything but a list or a text is dropped.                 *)
CoerceItems(value) == IF value.is = "other" THEN << >> ELSE CoerceList(value)

(* Mutant: an inner object replaces the lists of the outer. *)
Normalize_InnerWins(payload) ==
  IF IsText(payload.minutes) /\ HoldsSummary(payload.minutes)
    THEN [minutes |-> CoerceMinutes(payload.minutes.minutes, payload.minutes),
          decisions |-> CoerceList(payload.minutes.decisions),
          action_items |-> CoerceItems(payload.minutes.action_items)]
    ELSE [minutes |-> CoerceMinutes(payload.minutes, Blank),
          decisions |-> CoerceList(payload.decisions),
          action_items |-> CoerceItems(payload.action_items)]

Normalize(payload) ==
  LET own == CoerceMinutes(payload.minutes, Blank)
      inner == IF IsText(payload.minutes) /\ HoldsSummary(payload.minutes)
                 THEN payload.minutes
               ELSE IF HoldsSummary(own) THEN own ELSE Missing
      orInner(mine, theirs) == IF mine = << >> /\ inner # Missing THEN theirs ELSE mine
  IN  [minutes |-> IF inner = Missing THEN own ELSE CoerceMinutes(inner.minutes, own),
       decisions |-> orInner(CoerceList(payload.decisions),
                             IF inner = Missing THEN << >> ELSE CoerceList(inner.decisions)),
       action_items |-> orInner(CoerceItems(payload.action_items),
                             IF inner = Missing THEN << >> ELSE CoerceItems(inner.action_items))]

TextList(v) == v.is = "list" /\ \A i \in DOMAIN v.items : IsText(v.items[i])
Parses(reply) ==
  /\ reply.is = "object" /\ reply.whole
  /\ IsText(reply.minutes) /\ TextList(reply.decisions) /\ TextList(reply.action_items)

(* An answer that does not parse, after the repair pass too. *)
Coerce(reply) ==
  LET loaded == reply.is = "object" /\ reply.whole
  IN  Normalize([minutes |-> CoerceMinutes(IF loaded THEN reply.minutes ELSE Missing, reply),
                 decisions |-> List(CoerceList(IF loaded THEN reply.decisions ELSE Missing)),
                 action_items |-> List(CoerceItems(IF loaded THEN reply.action_items ELSE Missing))])

Summary(reply) == IF Parses(reply) THEN Normalize(reply) ELSE Coerce(reply)

-----------------------------------------------------------------------------
(* The innermost minutes of a reply that holds some, through two layers of *)
(* encoding.                                                               *)
Said(reply) ==
  LET outer == ExtractMinutes(reply)
      inner == IF outer.is = "object" THEN ExtractMinutes(outer) ELSE outer
  IN  IF inner.is = "plain" THEN {inner} ELSE {}

(* Whatever shape the service answers in, the note gets minutes that are   *)
(* not blank and lists without blank lines; minutes that the service wrote *)
(* reach the note as text even when the answer is an object inside a       *)
(* string of an object, or is cut off; and decisions and action items the  *)
(* answer states are not dropped for the inner object's.                   *)
SummaryIsWhole(reply) ==
  LET summary == Summary(reply)
      whole(l) == \A i \in DOMAIN l : NonBlank(l[i])
  IN  /\ NonBlank(summary.minutes)
      /\ whole(summary.decisions) /\ whole(summary.action_items)
      /\ \A text \in Said(reply) : summary.minutes = text
      /\ reply.is = "object" /\ reply.whole =>
           /\ CoerceList(reply.decisions) # << >> =>
                summary.decisions = CoerceList(reply.decisions)
           /\ CoerceItems(reply.action_items) # << >> =>
                summary.action_items = CoerceItems(reply.action_items)
=============================================================================

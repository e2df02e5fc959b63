--------------------------- MODULE SummaryClient ---------------------------
(***************************************************************************)
(* One call of generate_summary: the key, the requests to the configured   *)
(* models with their retries, and the one repair pass for an answer that   *)
(* cannot be read. Every request is answered: by a text, by an error, or   *)
(* by the client's own timeout.                                            *)
(***************************************************************************)
EXTENDS Naturals

CONSTANTS
  Models,    \* how many candidates MEETINGCTL_SUMMARY_MODEL lists
  Retries    \* _summary_request_retries

ASSUME SomeModels == Models \in Nat
ASSUME SomeRetries == Retries \in Nat

Passes == {"summary", "repair"}

(* A text is an object with the right fields, bare or inside other text;   *)
(* an object with others; no object at all; or there is no text block.     *)
Texts == {"json", "wrapped", "jsonish", "prose", "none"}
Readable == {"json", "wrapped"}
Errors == {"unknown_model", "transient", "other"}

Keys == {"", "plain", "reference"}

VARIABLES
  pass,      \* "idle", a pass, or "done"
  model,     \* the candidate being asked, Models + 1 when they have run out
  attempt,   \* failed attempts of this candidate
  asked,     \* how often each candidate was asked in each pass
  first,     \* the text the summary pass got
  outcome    \* "none" until the call returns or raises

vars == <<pass, model, attempt, asked, first, outcome>>

Init ==
  /\ pass = "idle" /\ outcome = "none" /\ first = "none"
  /\ model = 1 /\ attempt = 0
  /\ asked = [p \in Passes |-> [m \in 1..Models |-> 0]]

Return(result) ==
  /\ pass' = "done" /\ outcome' = result
  /\ UNCHANGED <<model, attempt>>

Enter(p) == pass' = p /\ model' = 1 /\ attempt' = 0

(* The argument first, then the key file, then the environment. *)
ResolveKey(direct, file, env) ==
  IF direct # "" THEN direct ELSE IF file THEN "plain" ELSE env

(* A reference is read with the 1Password client, which may fail. *)
Begin(direct, file, env, opReads) ==
  /\ pass = "idle"
  /\ LET key == ResolveKey(direct, file, env)
     IN  \/ key = "" /\ Return("no key")
         \/ key = "reference" /\ ~opReads /\ Return("raised")
         \/ key = "plain" /\ Enter("summary") /\ UNCHANGED outcome
         \/ key = "reference" /\ opReads /\ Enter("summary") /\ UNCHANGED outcome
  /\ UNCHANGED <<asked, first>>

(* Requests are counted up to one more than there may be. A request is a   *)
(* call of the client library, which is built without a limit of retries   *)
(* and may try again by its own default inside each; those do not count.   *)
CountTo == Retries + 2
Ask == asked' = [asked EXCEPT ![pass][model] = IF @ < CountTo THEN @ + 1 ELSE @]

Asking == pass \in Passes /\ model <= Models

(* Mutant: the last failure begins the candidates anew. *)
Fails_StartsOver(error) ==
  /\ Asking /\ Ask
  /\ \/ error = "unknown_model" /\ model' = model + 1 /\ attempt' = 0
     \/ error = "transient" /\ attempt < Retries /\ attempt' = attempt + 1 /\ UNCHANGED model
     \/ error # "unknown_model" /\ attempt = Retries /\ model' = 1 /\ attempt' = 0
  /\ UNCHANGED <<pass, outcome, first>>

(* An unknown model passes the turn on; a transient error is retried and,  *)
(* on the last attempt, raised, as any other error is at once.             *)
Fails(error) ==
  /\ Asking /\ Ask
  /\ \/ /\ error = "unknown_model"
        /\ model' = model + 1 /\ attempt' = 0
        /\ UNCHANGED <<pass, outcome>>
     \/ /\ error = "transient" /\ attempt < Retries
        /\ attempt' = attempt + 1
        /\ UNCHANGED <<pass, model, outcome>>
     \/ /\ error = "other" \/ (error = "transient" /\ attempt = Retries)
        /\ Return("raised")
  /\ UNCHANGED first

(* Mutant: an object inside other text is sent to be repaired. *)
Answers_BareOnly(text) ==
  /\ Asking /\ Ask
  /\ first' = IF pass = "summary" THEN text ELSE first
  /\ \/ text = "none" /\ Return("raised")
     \/ text = "json" /\ Return("parsed")
     \/ /\ text \in Texts \ {"json", "none"}
        /\ \/ pass = "summary" /\ Enter("repair") /\ UNCHANGED outcome
           \/ pass = "repair" /\ Return("coerced")

(* The summary pass repairs what it cannot read; the repair pass makes a   *)
(* summary of whatever it gets.                                            *)
Answers(text) ==
  /\ Asking /\ Ask
  /\ first' = IF pass = "summary" THEN text ELSE first
  /\ \/ text = "none" /\ Return("raised")
     \/ text \in Readable /\ Return("parsed")
     \/ /\ text \in Texts \ (Readable \cup {"none"})
        /\ \/ pass = "summary" /\ Enter("repair") /\ UNCHANGED outcome
           \/ pass = "repair" /\ Return("coerced")

NoModelLeft ==
  /\ pass \in Passes /\ model > Models
  /\ Return("no model")
  /\ UNCHANGED <<asked, first>>

Request ==
  \/ \E error \in Errors : Fails(error)
  \/ \E text \in Texts : Answers(text)
  \/ NoModelLeft

Next ==
  \/ \E direct, env \in Keys, file, opReads \in BOOLEAN : Begin(direct, file, env, opReads)
  \/ Request

Spec == Init /\ [][Next]_vars /\ WF_vars(Request)

-----------------------------------------------------------------------------
TypeOK ==
  /\ pass \in Passes \cup {"idle", "done"}
  /\ model \in 1..(Models + 1)
  /\ attempt \in 0..Retries
  /\ asked \in [Passes -> [1..Models -> 0..CountTo]]
  /\ first \in Texts
  /\ outcome \in {"none", "no key", "no model", "raised", "parsed", "coerced"}

(* Retries do not multiply: whatever comes back, a candidate is asked at   *)
(* most once and Retries times more in each pass, and only when those      *)
(* before it are through.                                                  *)
AskedEnough ==
  \A p \in Passes, m \in 1..Models :
    /\ asked[p][m] <= Retries + 1
    /\ (m > model /\ pass = p) => asked[p][m] = 0

(* "No configured summary model was available" is said only after every    *)
(* candidate was asked in the pass that ended so.                          *)
AllWereAsked ==
  LET repaired == \E m \in 1..Models : asked["repair"][m] > 0
      last == IF repaired THEN "repair" ELSE "summary"
  IN  outcome = "no model" => \A m \in 1..Models : asked[last][m] > 0

(* An answer that can be read is the summary: the repair pass, which may   *)
(* reword it, is never asked about it, and nothing is made up while one    *)
(* was there.                                                              *)
ReadableIsKept ==
  first \in Readable =>
    /\ \A m \in 1..Models : asked["repair"][m] = 0
    /\ outcome = "parsed"

(* What a call may ask for, and what it must not throw away. *)
CallIsSound == AskedEnough /\ AllWereAsked /\ ReadableIsKept

(* The call ends: retries, candidates and the repair pass run out whatever *)
(* the service does.                                                       *)
CallEnds == pass \in Passes ~> pass = "done"
=============================================================================

----------------------------- MODULE MCArtifacts -----------------------------
(***************************************************************************)
(* Small instances of Artifacts for TLC.                                   *)
(***************************************************************************)
EXTENDS Artifacts

(* The plain backends; the sidecar on a recording of the recorder's own     *)
(* name, and on one `stop` left with no baseline asked for. *)
Harmless == {{"whisperx", "inplace", "fallback"}, {"sidecar", "keep", "fallback"}, {"sidecar", "keep"},
             {"sidecar", "inplace", "fallback"}}

(* What `stop` leaves, under the default settings. *)
Defaults == {{"sidecar", "inplace", "keep", "fallback"}}
==============================================================================

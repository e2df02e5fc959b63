----------------------------- MODULE MCPipeline -----------------------------
(***************************************************************************)
(* Small instances of Pipeline for TLC.                                    *)
(***************************************************************************)
EXTENDS Pipeline, TLC

CONSTANTS t1, t2, h1, h2

OneTake == {t1}
TwoTakes == {t1, t2}
OneHandler == {h1}
TwoHandlers == {h1, h2}

(* Voice Memos keeps an m4a; a recorder that also writes a wav gives the   *)
(* family two files. WavOnly and TwoWavs are for the known defects of the    *)
(* README.                                                                 *)
WavOnly == {<<t1, "wav">>}
BothFormats == {<<t1, "wav">>, <<t1, "m4a">>}
TwoWavs == {<<t1, "wav">>, <<t2, "wav">>}
MixedTakes == {<<t1, "wav">>, <<t2, "wav">>, <<t2, "m4a">>}

FlawedWav == {<<t1, "wav">>}
FlawedSecondWav == {<<t2, "wav">>}

HandlersAlike == Permutations(TwoHandlers)
=============================================================================

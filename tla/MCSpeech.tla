------------------------------- MODULE MCSpeech -------------------------------
(***************************************************************************)
(* Small instances of SpeechRequests.                                      *)
(***************************************************************************)
EXTENDS SpeechRequests

CONSTANTS stt1, tts1, rt1

OneTranscriber == {stt1}
OneSynthesizer == {tts1}
OneTalker == {rt1}
=============================================================================

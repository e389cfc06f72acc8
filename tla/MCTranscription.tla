---------------------------- MODULE MCTranscription ----------------------------
(***************************************************************************)
(* A small instance of Transcription.                                      *)
(***************************************************************************)
EXTENDS Transcription
=============================================================================

------------------------------- MODULE MCSynth ------------------------------
(***************************************************************************)
(* memaudit-synth for TLC, with two cold buckets.                          *)
(***************************************************************************)
EXTENDS Synth

MCThresholds == <<2, 4>>
=============================================================================

----------------------------- MODULE MCAudioSettings -----------------------------
(* Two microphones, of which the system prefers the second. *)
EXTENDS AudioSettings
================================================================================

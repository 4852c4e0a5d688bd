---------------------------- MODULE MCHandshake ----------------------------
(* Handshake with two receivers, each with any of two room keys, for TLC,    *)
(* which evaluates the checks of the formats before it starts.               *)
EXTENDS Handshake, FormatsChecks
============================================================================

------------------------------- MODULE MCBeast -------------------------------
(***************************************************************************)
(* Model of Beast for TLC: two frame types of different lengths, a header  *)
(* of one byte, and a buffer limit that three undecodable frames exceed.   *)
(***************************************************************************)
EXTENDS Beast

MCPayloadLen == [short |-> 1, long |-> 2]

\* 0x1a, 0x31 and 0x33 as first bytes: formats 3, 6 and 6.
MCDf == [esc |-> "df3", short |-> "df6", long |-> "df6", other |-> "df17"]

=============================================================================

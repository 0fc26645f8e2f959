-------------------------- MODULE MCSourceStream ----------------------------
(* Short streams with what makes framing hard: noise that looks like a header, *)
(* a frame inside a frame, a wrong CRC, a payload too short for a type, and a   *)
(* frame that is cut off.  The CRC is a sum: the parser only compares it.       *)
EXTENDS SourceStream

CONSTANT viewer

MCCrc(s) == <<0, 0, FoldSeq(+, 0, s) % 256>>

Frame(payload) ==
    LET body == <<Preamble, 0, Len(payload)>> \o payload IN body \o MCCrc(body)

Position  == Frame(<<62, 208>>)          \* type 1005
Ephemeris == Frame(<<63, 176, 7>>)       \* type 1019
Untyped   == Frame(<<0, 0>>)             \* type 0

MCInputs ==
    {Position \o Ephemeris,
     <<9, Preamble, 0, 2>> \o Position \o Frame(<<1>>) \o Untyped,
     Frame(Position) \o <<Preamble, 3>>,
     <<Preamble, 0, 2, 62, 208, 0, 0, 0>> \o Ephemeris}
=============================================================================

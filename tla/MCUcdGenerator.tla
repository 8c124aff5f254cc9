--------------------------- MODULE MCUcdGenerator ---------------------------
(***************************************************************************)
(* An instance of UcdGenerator for TLC: a file of four lines with a range  *)
(* and a tail of code points without a line.                               *)
(***************************************************************************)
EXTENDS UcdGenerator, TLC

Entry(cp, cat, mark) == [cp |-> cp, cat |-> cat, mark |-> mark]

\* The last chunk of two and of three threads begins inside the range 1 .. 3.
MCUnicodeData ==
  <<Entry(0, "Lu", "single"), Entry(1, "Lo", "first"), Entry(3, "Lo", "last"),
    Entry(4, "Cc", "single")>>

MCCats == <<"Lo", "L">>

MCOptions == {[output_dir |-> TRUE, language |-> TRUE],
              [output_dir |-> FALSE, language |-> TRUE],
              [output_dir |-> TRUE, language |-> FALSE]}
=============================================================================

------------------------------- MODULE MCCard -------------------------------
(* A directory with a sub-directory and a hidden one between two files, and *)
(* a second directory after them.                                           *)
EXTENDS Card

MCContents ==
  << >> :> <<"f", "d", "h", "e", "g">>
  @@ <<"d">> :> <<"e", "f">>
  @@ <<"d", "e">> :> <<"g">>
  @@ <<"e">> :> << >>
=============================================================================

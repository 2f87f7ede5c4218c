---------------------------- MODULE MCRawString ----------------------------
(***************************************************************************)
(* The texts that TLC masks and parses: everything that opens, continues or *)
(* closes a literal or a comment, a macro name, a digit that is also a hex  *)
(* digit, and a letter that is also a delimiter.  A delimiter of two bytes  *)
(* is met in part before it is met whole.                                   *)
(***************************************************************************)
EXTENDS RawString

MCMacros == {<<"D">>, <<"R">>}

MCFragments ==
    {<<"R", "\"">>, <<"R", "\"", "a", "(">>, <<"R", "\"", "a", "1", "(">>, <<"(">>,
     <<")">>, <<")", "a", "\"">>, <<")", "a", "1", "\"">>, <<")", "\"">>, <<"\"">>, <<"'">>, <<"\\">>, <<"\\", "\\">>, <<"/", "/">>, <<"/", "*">>,
     <<"*", "/">>, <<"\n">>, <<"D">>, <<"1">>, <<"1", "'", "1">>, <<"a">>, <<" ">>}
=============================================================================

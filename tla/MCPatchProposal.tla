--------------------------- MODULE MCPatchProposal ---------------------------
(* Sources with and without a newline at the end, with repeated lines, with *)
(* lines that look like headers in a diff, and with other breaks than \n.   *)
EXTENDS PatchProposal

MCContents ==
  {<<"a", "\n", "b", "\n", "c", "\n", "d", "\n", "e", "\n">>,
   <<"a", "\n", "b", "\n", "b", "\n", "e">>,
   <<"-- ", "a", "\n", "e", "\n">>,
   <<"a", "\r", "\n", "e", "\r", "\n">>,
   <<"a", "\f", "e", "\n">>,
   <<"a", "\n">>,
   <<>>}

MCOldTexts == {<<"a">>, <<"e">>, <<"a", "\n">>, <<"b", "\n">>, <<"\n">>,
               <<"-- ">>}

MCNewTexts == {<<>>, <<"z">>, <<"\n">>, <<"++ ", "z">>, <<"z", "\n", "z">>}

MCSymbols == {"a", "b", "c", "d", "e", "z", "-- ", "++ ", "\n", "\r", "\f"}
=============================================================================

---------------------------- MODULE MC_Changelogger ----------------------------
(* The changelogger executor with a two-letter alphabet for keys and the   *)
(* release versions a write is given.                                      *)
EXTENDS Changelogger

MCLower == <<"u", "v">>
MCUpper == <<"U", "V">>

\* 8.0, 7.9 and a prerelease label.
MCValues ==
    {[int |-> 8, frac |-> <<0>>], [int |-> 7, frac |-> <<9>>], [word |-> "beta"]}

MCCodes == {0, 1}
=============================================================================

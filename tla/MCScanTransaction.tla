-------------------------- MODULE MCScanTransaction --------------------------
(***************************************************************************)
(* An instance of ScanTransaction for TLC.                                 *)
(***************************************************************************)
EXTENDS ScanTransaction

CONSTANTS word, phrase, tail, long, encoded, sqli, xss, setup

MCStrings == {word, phrase, tail, long, encoded}
MCUnreadable == {tail}
MCOutOfBounds == {long}
MCBase64 == {encoded}

\* A repeated string before and after the limit, every reason to leave one out,
\* nothing to extract, and no string at all.
MCBodies == {<<>>, <<long, tail>>, <<word, word, phrase>>,
             <<word, long, phrase, encoded, word, tail>>,
             <<encoded, phrase, word, phrase>>}

MCDetectionRules == {sqli, xss}
MCSetupRules == {setup}
=============================================================================

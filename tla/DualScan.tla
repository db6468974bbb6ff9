------------------------------ MODULE DualScan ------------------------------
(***************************************************************************)
(* What a ModSecurity scan answers and what is made of it:                 *)
(* src/modsec/pool.rs (ScanResult), src/modsec/scanner.rs                  *)
(* (DualScanResult) and src/modsec/observability.rs (the metadata).        *)
(*                                                                         *)
(* A ScanResult is abstracted to the five outcomes that enforcement,       *)
(* metadata and metrics tell apart.  "error" and "clean" are the same Rust *)
(* value (nothing blocked, nothing matched, no timeout); they are kept     *)
(* apart so that a property can say what is made of a failed scan.         *)
(***************************************************************************)

ScanAction == {"block", "alert"}
TimeoutAction == {"allow", "block"}

\* "clean"    the rules were evaluated and nothing matched
\* "logged"   a non-disruptive intervention named a rule: matched, not blocked
\* "blocked"  a disruptive intervention, or the rule log is not empty
\* "timeout"  recv_timeout expired first:  blocked = false, timed_out = true
\* "error"    the transaction failed or no worker is left: all false
ScanResult == {"clean", "logged", "blocked", "timeout", "error"}

\* The secondary result of a scanner that has no secondary ruleset.
NoResult == "no result"

DualScanResult == [primary : ScanResult, secondary : ScanResult \cup {NoResult}]

Blocked(r) == r = "blocked"
Matched(r) == r \in {"blocked", "logged"}
TimedOut(r) == r = "timeout"

-----------------------------------------------------------------------------

\* The result that is enforced: the secondary's as soon as it matched
\* anything, else the primary's.
EffectiveResult(d) == IF Matched(d.secondary) THEN d.secondary ELSE d.primary

\* Faulty variant: the action is not looked at.
ShouldBlockAlways(d, action) == Blocked(EffectiveResult(d))

ShouldBlock(d, action) == action = "block" /\ Blocked(EffectiveResult(d))

AnyTimeout(d) == TimedOut(d.primary) \/ TimedOut(d.secondary)

-----------------------------------------------------------------------------

ModsecVerdict == {"blocked", "alert", "allowed"}
ModsecMetadata == [verdict : ModsecVerdict, timed_out : BOOLEAN]

\* Everything written under modsec.request.* / modsec.response.* comes from
\* the effective result alone.
BuildMetadata(d, action) ==
    LET effective == EffectiveResult(d)
    IN  [verdict |-> IF Blocked(effective) /\ action = "block" THEN "blocked"
                     ELSE IF Matched(effective) THEN "alert" ELSE "allowed",
         timed_out |-> TimedOut(effective)]

=============================================================================

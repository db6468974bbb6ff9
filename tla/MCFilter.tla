------------------------------ MODULE MCFilter ------------------------------
(***************************************************************************)
(* Instances of Filter for TLC: sets of configurations and operations.     *)
(***************************************************************************)
EXTENDS Filter

\* Every kind of body, and one operation of either sort that can be mocked.
MCOperations == {op \in Operation : op.mockable => op.request_body \in {"none", "optional"}}

\* One operation per kind of body, none mocked.
MCPlainOperations == {op \in Operation : ~op.mockable}

Good == [path_types |-> TRUE, path |-> TRUE, query_fits |-> TRUE,
         query |-> TRUE, headers |-> TRUE]

\* Every check fails in some head; some heads fail several.
MCHeads == {Good,
            [Good EXCEPT !.path_types = FALSE],
            [Good EXCEPT !.path = FALSE, !.headers = FALSE],
            [Good EXCEPT !.query = FALSE],
            [Good EXCEPT !.path = FALSE, !.query_fits = FALSE],
            [Good EXCEPT !.path_types = FALSE, !.path = FALSE,
                         !.query = FALSE, !.headers = FALSE]}

\* A good head and a bad one.
MCFewHeads == {Good, [Good EXCEPT !.query = FALSE]}

\* The request side: every combination of its options; without validate_request
\* or scan_request the options that depend on it stay put.
MCRequestConfigs ==
    {c \in Config : /\ ~c.validate_response /\ ~c.scan_response
                    /\ ~c.fail_on_response_error /\ c.response_action = "alert"
                    /\ c.mocking
                    /\ c.validate_request \/ (c.fail_on_request_error /\ c.pool = "off")
                    /\ c.scan_request \/ (c.request_action = "block"
                           /\ c.timeout_action = "block" /\ ~c.secondary_ruleset)}

\* The response side, behind a request side that validates without scanning
\* (or does nothing at all).
MCResponseConfigs ==
    {c \in Config : /\ c.validate_response /\ ~c.scan_request /\ ~c.mocking
                    /\ c.fail_on_request_error /\ c.request_action = "block"
                    /\ c.scan_response \/ (c.response_action = "block"
                           /\ c.timeout_action = "block" /\ ~c.secondary_ruleset)}

\* Both sides of a stream.
MCStreamConfigs == MCRequestConfigs \cup MCResponseConfigs
=============================================================================

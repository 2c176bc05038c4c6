------------------------------ MODULE MCInvoke ------------------------------
(* Two runs: one fetches a web page and then edits (R1, R2 once tainted), or *)
(* plans first and has the edit behind exit_plan_mode; the other does the    *)
(* same edit, so that what is remembered for one is heard by the other.  A   *)
(* hook may turn the edit into one of a production file (R3) or into         *)
(* arguments the schema refuses; a also asks for a tool that does not exist. *)
(* A restart (R2) has an allow rule, which taint suspends.                   *)
EXTENDS Invoke, TLC

CONSTANTS a, b, web, edit, prodEdit, restart, wipe, bad, badEdit, exitPlan, alice

MCRuns == {a, b}
MCKeys == {web, edit, prodEdit, restart, wipe, bad, badEdit, exitPlan}

Tool(tier, readOnly) ==
  [tier |-> tier, readOnly |-> readOnly, blocked |-> FALSE, matched |-> {}, usable |-> TRUE,
   parallelSafe |-> FALSE, untrusted |-> FALSE, exitsPlan |-> FALSE]

MCInfo ==
  web      :> [Tool(R1, TRUE) EXCEPT !.parallelSafe = TRUE, !.untrusted = TRUE] @@
  edit     :> [Tool(R1, FALSE) EXCEPT !.parallelSafe = TRUE] @@
  prodEdit :> [Tool(R3, FALSE) EXCEPT !.parallelSafe = TRUE] @@
  restart  :> [Tool(R2, FALSE) EXCEPT !.matched = {"allow"}] @@
  wipe     :> [Tool(R1, FALSE) EXCEPT !.blocked = TRUE] @@
  bad      :> [Tool(R0, TRUE) EXCEPT !.usable = FALSE] @@
  badEdit  :> [Tool(R1, FALSE) EXCEPT !.parallelSafe = TRUE, !.usable = FALSE] @@
  exitPlan :> [Tool(R0, TRUE) EXCEPT !.exitsPlan = TRUE]

MCTurns == {a :> <<bad, web, edit>> @@ b :> <<edit>>,
            a :> <<exitPlan, edit>> @@ b :> <<>>,
            a :> <<restart, web, restart, wipe>> @@ b :> <<restart>>}
\* The second hook only ever says yes, which must not matter, and has production files asked for.
MCHooks ==
  <<[k \in MCKeys |-> IF k = edit THEN {<<NoKey, "none">>, <<NoKey, "ask">>, <<NoKey, "deny">>,
                                        <<prodEdit, "none">>, <<badEdit, "allow">>}
                      ELSE {<<NoKey, "none">>}],
    [k \in MCKeys |-> IF k = prodEdit THEN {<<NoKey, "ask">>} ELSE {<<NoKey, "allow">>}]>>
MCStartModes == a :> {"default", "strict", "plan"} @@ b :> {"default"}
MCAfterPlan == a :> "default" @@ b :> "default"
MCAuthorized == {alice}
=============================================================================

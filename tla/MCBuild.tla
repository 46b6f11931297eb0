------------------------------- MODULE MCBuild -------------------------------
\* Build with one module: the parsing of its config or script and the generation
\* of its helper are the first phase (the second of the code), the entrypoint,
\* without a condition, is the next one.
EXTENDS Build

CONSTANTS json, config, script

MCFiles == {json, config, script}
MCSteps == {"config", "script", "helper", "entry"}
MCReads == [s \in Steps |-> CASE s = "config" -> {config}
                              [] s = "script" -> {script}
                              [] s = "helper" -> {json, config}
                              [] s = "entry" -> {}]
MCPhaseOf == [s \in Steps |-> IF s = "entry" THEN 2 ELSE 1]

Quiet == [steps |-> {"helper", "entry"}, edits |-> {}, optional |-> {}, midEdits |-> {},
          reverts |-> FALSE, failures |-> FALSE, stops |-> FALSE]

\* Scripts and a config that may be missing change at any time, builds fail and
\* are stopped; or module.json and the config are restored between builds.
Fresh == [Quiet EXCEPT !.steps = @ \cup {"script"}, !.edits = {script, config},
                       !.optional = {config}, !.midEdits = {script, config},
                       !.failures = TRUE, !.stops = TRUE]
Restored == [Quiet EXCEPT !.steps = @ \cup {"config"}, !.edits = {json, config},
                          !.reverts = TRUE]
MCWorlds == {Fresh, Restored}

MidEdit == {[Quiet EXCEPT !.edits = {json}, !.midEdits = {json}]}
Delete == {[Quiet EXCEPT !.edits = {config}, !.optional = {config}, !.reverts = TRUE]}
=============================================================================

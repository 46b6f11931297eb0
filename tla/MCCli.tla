-------------------------------- MODULE MCCli --------------------------------
\* Cli with projects of one external or one or two local modules.
EXTENDS Cli

CONSTANTS a, b

MCLanes == {0, 1} \X Modules
MCRefs == {[kind |-> "rev", commit |-> 1], [kind |-> "rev", commit |-> 3],
           [kind |-> "tag", commit |-> 2], [kind |-> "main", commit |-> 1]}

Plain == [registry |-> "local", db |-> <<>>, back |-> FALSE, watch |-> FALSE,
          commands |-> {"build"}, docker |-> TRUE, versions |-> [m \in Modules |-> IF m = a THEN 2 ELSE 1],
          runs |-> 3]
GitWorld == [Plain EXCEPT !.registry = "git", !.back = TRUE,
                          !.commands = {"build", "clean"}]
UpgradeWorld == [Plain EXCEPT !.registry = "git", !.db = <<a>>, !.runs = 2,
                              !.commands = {"migrate", "clean"}]
SharedWorld == [Plain EXCEPT !.registry = "shared", !.db = <<a>>, !.watch = TRUE,
                             !.commands = {"migrate"}]
LocalWorld == [Plain EXCEPT !.db = <<a, b>>, !.versions = [m \in Modules |-> 1], !.runs = 2,
                            !.commands = {"migrate"}]
WatchWorld == [Plain EXCEPT !.db = <<a>>, !.watch = TRUE, !.runs = 2,
                            !.docker = FALSE, !.commands = {"migrate"}]
DbWorld == [Plain EXCEPT !.db = <<a>>,
                         !.commands = DbCommands \cup {"migrate", "forceDeploy"}]

\* For RegistryRef: a branch, and a tag of a commit of the default branch.
MCBranches == {[kind |-> "branch", commit |-> 3], [kind |-> "tag", commit |-> 2]}
MCGitWorlds == {GitWorld}

MCWorlds == {GitWorld, UpgradeWorld, SharedWorld, LocalWorld, WatchWorld, DbWorld}
=============================================================================

------------------------------ MODULE MCConfig ------------------------------
(* Two versions of the program and two contents of the tables, told from what *)
(* the flash held before and from junk; every command of the server and of    *)
(* the shell.  Neither a version nor a content is favoured: both are          *)
(* symmetric, and only invariants are checked.                                *)
EXTENDS Config, TLC
Orders == {"install", "coordinator", "update"}
ShellCommands == {"wbaseconfig", "wregtable", "wroutertable", "wdidi_diantable", "field", "upgrade",
                  "reboot"}
Symmetry == Permutations(Versions) \cup Permutations(Contents)
=============================================================================

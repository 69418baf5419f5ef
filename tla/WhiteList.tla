------------------------------ MODULE WhiteList ------------------------------
(***************************************************************************)
(* The client's list of commands (white_list/client/white_list_client.c):  *)
(* one system of command ids for the process, made by                      *)
(* command_system_global_init and dropped by command_system_global_cleanup,*)
(* one more for every client, and the look-up of a command by its name.    *)
(*                                                                         *)
(* The ten ids come from fixed seeds, distinct and not zero.  The branches *)
(* for an id of zero and for a name that is not in CMD_NAMES are never     *)
(* taken.                                                                  *)
(***************************************************************************)
EXTENDS Naturals, Sequences, FiniteSets

CONSTANTS
    Systems,  \* the blocks that calloc can return for an enum_system
    NoSystem,
    Names,    \* command names that callers pass, "SET" among them
    Upper     \* safe_to_upper_string of the first 31 characters of a name

ASSUME SystemsAssumption == IsFiniteSet(Systems) /\ NoSystem \notin Systems
ASSUME NamesAssumption == "SET" \in Names /\ Upper \in [Names -> STRING]

VARIABLES
    heap,          \* the systems that are allocated
    globalSystem,  \* g_global_cmd_system
    listed,        \* the entries of g_valid_commands that are filled in
    initialized    \* g_command_system_initialized

listVars == <<heap, globalSystem, listed, initialized>>

\* cmd_templates: the commands of the list.
Templates == {"GET", "SET", "DELETE", "PING", "QUIT", "AUTH"}

ListInit ==
    /\ heap = {}
    /\ globalSystem = NoSystem
    /\ listed = {}
    /\ initialized = FALSE

\* enum_system_init: calloc returns a block that is not in use, and it does not
\* matter which.
Fresh == CHOOSE s \in Systems : s \notin heap
Allocate == heap # Systems /\ heap' = heap \cup {Fresh}

---------------------------------------------------------------------------

\* Mistakes that a change to the code could make are the operators named Bug...,
\* which the specification does not use.  Here the flag is not looked at, and a
\* second call makes a second system.
BugInitAgain ==
    /\ Allocate
    /\ globalSystem' = Fresh
    /\ listed' = Templates
    /\ initialized' = TRUE

\* command_system_global_init with a seed that is not zero.  A call that finds
\* the list made, gets seed 0 or no memory changes nothing.
GlobalInit ==
    /\ ~initialized
    /\ Allocate
    /\ globalSystem' = Fresh
    /\ listed' = Templates
    /\ initialized' = TRUE

\* The flag is left as it is: the next initialisation finds the list made.
BugFlagKept ==
    /\ globalSystem # NoSystem
    /\ heap' = heap \ {globalSystem}
    /\ globalSystem' = NoSystem
    /\ listed' = {}
    /\ UNCHANGED initialized

\* command_system_global_cleanup, with enum_system_destroy.
GlobalCleanup ==
    /\ globalSystem # NoSystem
    /\ heap' = heap \ {globalSystem}
    /\ globalSystem' = NoSystem
    /\ listed' = {}
    /\ initialized' = FALSE

\* get_command_secure: the entries that were zeroed lack the two marks.
Found(name) == initialized /\ Upper[name] \in listed

\* The types of the list's variables.
ListTypeOK ==
    /\ heap \subseteq Systems
    /\ globalSystem \in Systems \cup {NoSystem}
    /\ listed \subseteq Templates
    /\ initialized \in BOOLEAN

=============================================================================

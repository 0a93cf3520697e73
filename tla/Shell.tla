------------------------------- MODULE Shell -------------------------------
(***************************************************************************)
(* The commands of shell/shell.c that keep state: `ping' and `resolve' with *)
(* the network under them (Net), `exec' (Elf), the variables and aliases    *)
(* (Env).  shell_execute runs one at a time, to its end, in the keyboard's  *)
(* interrupt.                                                               *)
(*                                                                          *)
(* These groups of commands share no state and every property is about one  *)
(* of them, so that a session (a bound) which uses one group only shows     *)
(* whatever a session of all of them would.                                 *)
(***************************************************************************)
EXTENDS Net

CONSTANTS
    NAMES, TEXTS, CUT, ENV_MAX_VARS, MAX_ALIASES, DEFAULTS, Nothing,  \* Env
    MAX_ELF_SLOTS, MAX_TASKS, FILES, MAX_LOADS, Nobody                \* Elf

VARIABLES
    session,           \* the group of commands that is used
    env, aliases, done,
    memory, elf_entries, next_elf_slot, tasks

V == INSTANCE Env
X == INSTANCE Elf

ASSUME VariablesAssumption == V!EnvAssumption
ASSUME ProgramsAssumption == X!ElfAssumption

tables == <<env, aliases, done>>
programs == <<memory, elf_entries, next_elf_slot, tasks>>
shell_vars == <<vars, session, tables, programs>>

\* In a session of "answers" no command keeps anything: module Answers.
Sessions == {"network", "variables", "aliases", "programs", "answers"}

ShellTypeOK ==
    /\ session \in Sessions
    /\ TypeOK /\ V!TypeOK /\ X!TypeOK

ShellInit ==
    /\ session \in Sessions
    /\ Init /\ V!Init /\ X!Init

-----------------------------------------------------------------------------
ShellNext ==
    /\ UNCHANGED session
    /\ \/ session = "network" /\ Next /\ UNCHANGED <<tables, programs>>
       \/ session = "variables" /\ V!NextVariables /\ UNCHANGED <<vars, programs>>
       \/ session = "aliases" /\ V!NextAliases /\ UNCHANGED <<vars, programs>>
       \/ session = "programs" /\ X!Next /\ UNCHANGED <<vars, tables>>

ShellSpec == ShellInit /\ [][ShellNext]_shell_vars

-----------------------------------------------------------------------------
(* The environment and the aliases are maps on which each command does what *)
(* it says, see Env: removing an entry moves the others (env.c:48,          *)
(* shell.c:1822) and loses or doubles none.                                 *)
ImplementsMaps == V!ImplementsMaps

(* A program that waits for its first turn keeps its entry while fewer than *)
(* MAX_ELF_SLOTS others are loaded, see Elf.                                *)
EntryKept == X!EntryKept

=============================================================================

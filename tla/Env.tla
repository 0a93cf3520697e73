-------------------------------- MODULE Env ---------------------------------
(***************************************************************************)
(* The environment variables of kernel/env.c with the commands `set' and    *)
(* `unset', and the shell's aliases with `alias', `unalias' and the         *)
(* expansion of a line's first word.  Both are tables kept as two arrays    *)
(* and a count; the strings past the count are whatever was there before.   *)
(***************************************************************************)
EXTENDS Integers, FiniteSets, Sequences

CONSTANTS
    NAMES, TEXTS,
    CUT,              \* what is left of a text in the array's element
    ENV_MAX_VARS, MAX_ALIASES,
    DEFAULTS,         \* the variables env_init sets, pairs
    Nothing

EnvAssumption ==
    /\ CUT \in [TEXTS -> TEXTS]
    /\ ENV_MAX_VARS \in Nat \ {0} /\ MAX_ALIASES \in Nat \ {0}
    /\ DEFAULTS \in Seq(NAMES \X TEXTS) /\ Len(DEFAULTS) <= ENV_MAX_VARS
    /\ \A i, j \in DOMAIN DEFAULTS : DEFAULTS[i][1] = DEFAULTS[j][1] => i = j
    /\ Nothing \notin NAMES \cup TEXTS

VARIABLES
    env, aliases,     \* the tables
    done              \* the last command: the table it was for and what it
                      \* asked; of a line of another command its first word,
                      \* after expansion

vars == <<env, aliases, done>>

Tables(max) ==
    [keys : [1 .. max -> NAMES \cup {Nothing}],
     values : [1 .. max -> TEXTS \cup {Nothing}], count : 0 .. max]

\* A command on a table, as module Maps writes it.
PutIn(table, k, v) == [table |-> table, command |-> <<"put", k, v>>]
RemoveFrom(table, k) == [table |-> table, command |-> <<"remove", k>>]
Ran(word) == [table |-> "none", command |-> word]

TypeOK ==
    /\ env \in Tables(ENV_MAX_VARS)
    /\ aliases \in Tables(MAX_ALIASES)
    /\ \/ \E word \in NAMES \cup TEXTS \cup {Nothing} : done = Ran(word)
       \/ \E table \in {"env", "aliases"}, k \in NAMES :
            \/ done = RemoveFrom(table, k)
            \/ \E v \in TEXTS : done = PutIn(table, k, v)

-----------------------------------------------------------------------------
(* The two tables work alike.                                               *)

Empty(max) ==
    [keys |-> [i \in 1 .. max |-> Nothing], values |-> [i \in 1 .. max |-> Nothing],
     count |-> 0]

Places(t, k) == {i \in 1 .. t.count : t.keys[i] = k}
FirstPlace(t, k) == CHOOSE i \in Places(t, k) : \A j \in Places(t, k) : i <= j
Lookup(t, k) == IF Places(t, k) = {} THEN Nothing ELSE t.values[FirstPlace(t, k)]

\* Update, else add, else refuse.
Stored(t, k, v) ==
    LET i == IF Places(t, k) # {} THEN FirstPlace(t, k) ELSE t.count + 1
    IN IF i \notin DOMAIN t.keys THEN t
       ELSE [keys |-> [t.keys EXCEPT ![i] = k],
             values |-> [t.values EXCEPT ![i] = CUT[v]],
             count |-> IF i > t.count THEN i ELSE t.count]

Removed_OneShort(t, k) ==
    IF Places(t, k) = {} THEN t
    ELSE LET Up(s) == [j \in DOMAIN s |->
                        IF FirstPlace(t, k) <= j /\ j < t.count - 1 THEN s[j + 1] ELSE s[j]]
         IN [keys |-> Up(t.keys), values |-> Up(t.values), count |-> t.count - 1]

\* The entries behind the removed one move up.
Removed(t, k) ==
    IF Places(t, k) = {} THEN t
    ELSE LET Up(s) == [j \in DOMAIN s |->
                        IF FirstPlace(t, k) <= j /\ j < t.count THEN s[j + 1] ELSE s[j]]
         IN [keys |-> Up(t.keys), values |-> Up(t.values), count |-> t.count - 1]

\* What the table says, as a map.
AsMap(t) == [k \in {k \in NAMES : Lookup(t, k) # Nothing} |-> Lookup(t, k)]

-----------------------------------------------------------------------------
\* The names are seven different ones: each env_set adds an entry.
env_init ==
    [keys |-> [i \in 1 .. ENV_MAX_VARS |->
                IF i \in DOMAIN DEFAULTS THEN DEFAULTS[i][1] ELSE Nothing],
     values |-> [i \in 1 .. ENV_MAX_VARS |->
                IF i \in DOMAIN DEFAULTS THEN CUT[DEFAULTS[i][2]] ELSE Nothing],
     count |-> Len(DEFAULTS)]

Init ==
    /\ env = env_init
    /\ aliases = Empty(MAX_ALIASES)
    /\ done = Ran(Nothing)

\* A name that fits its buffer: cmd_set refuses the others.
cmd_set(k, v) ==
    /\ env' = Stored(env, k, v)
    /\ done' = PutIn("env", k, v)
    /\ UNCHANGED aliases

cmd_unset(k) ==
    /\ env' = Removed(env, k)
    /\ done' = RemoveFrom("env", k)
    /\ UNCHANGED aliases

cmd_alias(n, c) ==
    /\ aliases' = Stored(aliases, n, c)
    /\ done' = PutIn("aliases", n, c)
    /\ UNCHANGED env

cmd_unalias(n) ==
    /\ aliases' = Removed(aliases, n)
    /\ done' = RemoveFrom("aliases", n)
    /\ UNCHANGED env

\* shell_execute expands the first word once, if the line then fits.
Expand(word, fits) ==
    /\ done' = Ran(IF fits /\ Lookup(aliases, word) # Nothing
                   THEN Lookup(aliases, word) ELSE word)
    /\ UNCHANGED <<env, aliases>>

NextVariables == \E n \in NAMES : cmd_unset(n) \/ \E v \in TEXTS : cmd_set(n, v)

NextAliases == \E n \in NAMES :
    \/ cmd_unalias(n)
    \/ \E c \in TEXTS : cmd_alias(n, c)
    \/ \E fits \in BOOLEAN : Expand(n, fits)

-----------------------------------------------------------------------------
(* The environment and the aliases are maps: after any sequence of          *)
(* commands a set gives its name the new value, as the only one, or is      *)
(* refused where a new name finds the table full; a removal leaves its name *)
(* without a value, not even an older one; and neither touches the value of *)
(* any other name or of the other table.                                    *)
On(table) == IF done.table = table THEN done.command ELSE Nothing
Variables == INSTANCE Maps WITH
    VALUES <- TEXTS, ROOM <- ENV_MAX_VARS, map <- AsMap(env), done <- On("env")
AliasMap == INSTANCE Maps WITH
    VALUES <- TEXTS, ROOM <- MAX_ALIASES, map <- AsMap(aliases), done <- On("aliases")
ImplementsMaps == Variables!Spec /\ AliasMap!Spec

=============================================================================

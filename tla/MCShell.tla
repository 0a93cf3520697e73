------------------------------ MODULE MCShell -------------------------------
(* A gateway, a name server, two more hosts of which one is beyond the
   gateway, and a cache of two entries; a table of three variables, one set
   by env_init, and of two aliases; the programs the kernel comes with, two
   that share an area, of which one has its second segment refused, and a
   file that is no ELF file, and fewer runners than loads; an int of four
   bits, expressions of up to three numbers, and of four where a quotient of
   the last two is the operand of an operand; texts of up to three lines,
   with and without a newline at their end.                               *)
EXTENDS Answers, TLC

CONSTANTS us, gateway, server, far,
          x, y, z, w, s, t, long

MCHosts == {us, gateway, server, far}
MCLocal == MCHosts \ {far}

Answer(name, type) == [name |-> name, type |-> type, ip |-> far]
MCAnswers ==
    {<<>>, <<Answer("pointer", "other")>>,
     <<Answer("labels", "other"), Answer("pointer", "A")>>,
     <<Answer("labels_pointer", "other"), Answer("pointer", "A")>>}

\* Link addresses are only copied and compared.
MacSymmetry == Permutations(MACS)

MCDefaults == <<<<x, s>>>>
\* One text is longer than an element of the arrays.
MCCut == [v \in TEXTS |-> IF v = long THEN s ELSE v]

Load(a) == [load |-> TRUE, vaddr |-> a]
MCFiles ==
    {[name |-> "half.elf", fails |-> {}, entry |-> "0x820000",
      segments |-> <<Load("0x820000"), [load |-> FALSE, vaddr |-> "low"], Load("low")>>],
     [name |-> "whole.elf", fails |-> {}, entry |-> "0x820000",
      segments |-> <<Load("0x820000")>>],
     [name |-> "text", fails |-> {"magic"}, entry |-> "0x820000", segments |-> <<>>]}

Leaves == {Literal(n) : n \in LITERALS}
Negated(E) == {Negation(e) : e \in E}
Grown(L, R) == {Binary(op, l, r) : op \in Operators, l \in L, r \in R}
Small == Leaves \cup Negated(Leaves)
Medium == Small \cup Grown(Small, Small)
Pairs == Grown({Literal(1)}, {Literal(0)})
MCExpressions ==
    LET Failing == Grown(Small, Pairs)
    IN  Medium \cup Grown(Medium, Leaves) \cup Grown(Leaves, Medium) \cup Negated(Medium)
        \cup Failing \cup Grown(Leaves, Failing)

MCLines == {<<>>, <<"a">>, <<"a", "b">>, <<"a", " ", "b">>, <<"a", "a", "b">>,
            <<"a", "a", "a">>, <<" ", "b", "a">>, <<"b", " ", " ", "a", "b">>}
MCDocuments ==
    {d \in [lines : UNION {[1 .. n -> MCLines] : n \in 0 .. 3}, ended : BOOLEAN] :
        d.ended \/ (d.lines # <<>> /\ d.lines[Len(d.lines)] # <<>>)}
MCPatterns == {<<"a">>, <<"a", "a">>, <<"a", "b">>, <<"b", "a">>}

=============================================================================

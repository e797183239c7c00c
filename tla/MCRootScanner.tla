---------------------------- MODULE MCRootScanner -----------------------------
EXTENDS RootScanner

MCPoisoned == {20}
MCFakeFrames == {[begin |-> 21, end |-> 26, real |-> 7]}
MCRegisters == <<4, 12>>

\* Ordinary, unaligned, wrapping, ending at the last address, at address zero
\* and the kinds that are skipped.
MCSegments ==
    {[load |-> TRUE, rw |-> TRUE, addr |-> x[1], vaddr |-> x[2], memsz |-> x[3]] :
        x \in {<<8, 4, 8>>, <<8, 5, 9>>, <<24, 12, 6>>, <<16, 12, 4>>, <<16, 12, 3>>,
               <<30, 0, 1>>, <<0, 0, 8>>, <<8, 8, 0>>}}
    \cup {[load |-> b, rw |-> ~b, addr |-> 8, vaddr |-> 4, memsz |-> 8] : b \in BOOLEAN}
===============================================================================

----------------------------- MODULE MCIoAnalysis -----------------------------
EXTENDS IoAnalysis, TLC

CONSTANTS p1, p2, c1, a

MCTids  == {p1, p2}
MCCpus  == {c1}
MCFiles == {a}

Processes == [tgid     |-> [t \in MCTids |-> t],
              cloexec  |-> TRUE,
              context  |-> FALSE,
              calls    |-> {[NoArgs EXCEPT !.op = "open", !.file = a, !.cloexec = TRUE],
                            [NoArgs EXCEPT !.op = "dup2", !.fd = 0, !.new = 0],
                            [NoArgs EXCEPT !.op = "close", !.fd = 0],
                            [NoArgs EXCEPT !.op = "read", !.fd = 0]},
              maxTs    |-> 1,
              maxBytes |-> 0,
              maxOpens |-> 2]

\* The threads of one process; with or without the context.
Threads(leader, context) ==
    [Processes EXCEPT !.tgid = [t \in MCTids |-> leader], !.context = context,
                      !.cloexec = FALSE, !.maxTs = 0, !.maxBytes = 1]

MCSettings == {Processes} \cup {Threads(t, x) : t \in MCTids, x \in BOOLEAN}

Symmetry == Permutations(MCTids)
=============================================================================

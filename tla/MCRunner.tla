------------------------------ MODULE MCRunner ------------------------------
(* Instances of Runner for TLC. *)
EXTENDS Runner, TLC

CONSTANTS m1, a1, u1, d1

\* Fully set up before the process started; set up but for the database; and
\* a fresh install.
SetUp == [ apis |-> [a \in APIs |-> u1],
           maps |-> [m \in MapId |-> IF m = m1 THEN [api |-> a1, mode |-> "once"]
                                               ELSE NoMap],
           db   |-> d1 ]

NoDatabase == [SetUp EXCEPT !.db = NoDB]

MCFirstConfigs   == {SetUp, NoDatabase, EmptyConfig}
MCSetUpOrWaiting == {SetUp, NoDatabase}

Symmetry == Permutations(Writers)
=============================================================================

------------------------------ MODULE MCReplica ------------------------------
EXTENDS Replica

\* A drive at the first path, a pool of the first name.
MCSeedDoc == [n \in {1, 2} |->
    IF n = 1 THEN [kind |-> "drive", base |-> 1, from |-> 1]
    ELSE [kind |-> "pool", base |-> 1, from |-> 2]]
MCBatches == {<< << "seed", 1 >> >>, << << "user", 1 >>, << "seed", 1 >> >>,
              << << "seed", 1 >>, << "seed", 2 >> >>}
MCWritten == {[kind |-> "drive", base |-> 1, from |-> 1]}
MCUserDoc == [n \in {1, 2} |->
    IF n = 1 THEN [kind |-> "drive", base |-> 1, from |-> 1] ELSE Absent]
=============================================================================

------------------------------ MODULE MCSingleton ------------------------------
EXTENDS Singleton

\* The abstract cell: what instance_ holds, and the objects deleted since.
Cell == INSTANCE SingletonCell WITH
            cell <- instance_,
            retired <- {o \in Objects : object[o] = "deleted" /\ o # instance_}

\* Every change of instance_ is a step of the abstract cell: two racing
\* Construct() calls never publish twice, and Destruct() never loses an object.
ImplementsCell == Cell!CellSpec
=============================================================================

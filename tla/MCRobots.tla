------------------------------ MODULE MCRobots ------------------------------
EXTENDS Robots

MCReads == {{1}, {1, 2}}
MCHome == [uid \in Uids |-> ((uid - 1) % NumVids) + 1]
=============================================================================

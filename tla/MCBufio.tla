------------------------------ MODULE MCBufio ------------------------------
EXTENDS Bufio

MCWrites == {<<0>>, <<0, 1, 1>>}
MCReads == {1, 2}
=============================================================================

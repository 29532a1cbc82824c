---------------------------- MODULE MCImmediateFile ----------------------------
\* ImmediateFile for model checking.  Descriptors and the bytes written are
\* model values; the specification compares them for equality only.
EXTENDS ImmediateFile, TLC

CONSTANTS fd1, fd2, x, y

Symmetry == Permutations(Fds) \cup Permutations(Data)

=============================================================================

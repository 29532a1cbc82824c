------------------------------ MODULE MCCpuSim ------------------------------
\* Lines of CpuSim for model checking: one burst, a burst and I/O, two CPU
\* bursts around I/O, and the same with two blanks in a row.
EXTENDS CpuSim

MCTokenLines == {<<1>>, <<3>>, <<1, 2>>, <<2, 1, 2>>, <<1, 0, 2, 1>>}

=============================================================================

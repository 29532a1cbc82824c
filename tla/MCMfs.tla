-------------------------------- MODULE MCMfs --------------------------------
\* Mfs for model checking.  Data read as zone numbers name a zone that may be in
\* use.
EXTENDS Mfs, MCImmediateFile

MCGarbage == [i \in Index |-> 1]

=============================================================================

------------------------------ MODULE MCTestRun ------------------------------
EXTENDS TestRun

MCRuns == {1, 2}

\* The user may quit, and tests may fail to launch or to do their iterations;
\* or tests may be done twice.
MCEnvironments == {{"quit", "launchFails", "refuses"}, {"again"}}
=============================================================================

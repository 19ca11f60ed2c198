------------------------------- MODULE MC_FakeRAF -------------------------------
EXTENDS FakeRAF

\* Date.now() steps back by 30 ms or forward by 20 ms between calls.
ClockStepsBack == {-30, 20}

=============================================================================

---------------------------- MODULE MCGainPlugin ----------------------------
EXTENDS GainPlugin

\* The loads and events in full, the meter in full, and some of both.
MCBudgets == {[changes |-> 3, publishes |-> 0, sessions |-> 0],
              [changes |-> 1, publishes |-> 1, sessions |-> 1],
              [changes |-> 0, publishes |-> 2, sessions |-> 2]}

=============================================================================

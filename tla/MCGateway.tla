------------------------------ MODULE MCGateway ------------------------------
EXTENDS Gateway

CONSTANTS r1, r2, s1, s2, s3

\* topic_confirm and pre_signoff stand for the gates before and after the
\* generation; experiment_design behaves like the first.
MCGates == <<"topic_confirm", "pre_signoff">>
\* The first run has two streams that compete, the second one of its own.
MCStreamOf == [s \in Streams |-> IF s = s2 THEN r2 ELSE r1]
=============================================================================

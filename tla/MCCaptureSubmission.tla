------------------------ MODULE MCCaptureSubmission ------------------------
EXTENDS CaptureSubmission, TLC

CONSTANTS c1, j1, j2, alarm, fast

MCChunks == c1 :> <<j1, j2>>
MCPolls == {<<alarm, j1>>, <<alarm, j2>>, <<fast, j2>>}
=============================================================================

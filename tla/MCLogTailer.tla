----------------------------- MODULE MCLogTailer -----------------------------
(* The instance of LogTailer for TLC: a Node error, the header of another    *)
(* without its frames, and a Python error.                                   *)
EXTENDS LogTailer, TLC

Logged(kind, err) == [kind |-> kind, err |-> err]

ThreeErrors ==
  <<Logged("head", 1), Logged("frame", 1),
    Logged("head", 2),
    Logged("trace", 3), Logged("pyframe", 3), Logged("head", 3)>>

\* What the theorem about TopFrameIsOwn assumes of a log holds of this one.
ASSUME ThreeErrorsUnmixed == Unmixed

=============================================================================

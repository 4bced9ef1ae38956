----------------------------- MODULE LogObservers -----------------------------
(***************************************************************************)
(* The two ways in which KafuOps watches a program: `kafuops agent start'  *)
(* tails its log file (LogTailer), `kafuops run' starts it and reads its   *)
(* pipes (LogWrapper).  The two share no state; observer says which of     *)
(* them is used.                                                           *)
(***************************************************************************)
EXTENDS LogTailer, LogWrapper

VARIABLE observer

observersVars == <<vars, wrapperVars, observer>>

ObserversInit ==
  /\ Init /\ WrapperInit
  /\ observer \in {"agent", "run"}

Agent == observer = "agent" /\ Next /\ UNCHANGED <<wrapperVars, observer>>
Run   == observer = "run" /\ WrapperNext /\ UNCHANGED <<vars, observer>>

ObserversNext == Agent \/ Run

\* The tailer polls for ever, a file that is there can be read now and then, and the
\* program goes on to log; Node calls the handler of a pipe that has data.  Read is possible
\* whenever ReadSucceeds, a part of it, is, and so is Data(s) whenever Take(s) is.
ObserversSpec ==
  /\ ObserversInit /\ [][ObserversNext]_observersVars
  /\ WF_vars(observer = "agent" /\ Write) /\ WF_vars(observer = "agent" /\ Stat)
  /\ SF_phase(observer = "agent" /\ ReadSucceeds) /\ WF_vars(observer = "agent" /\ Save)
  /\ \A s \in Streams : WF_pipe(observer = "run" /\ Take(s))

\* The type of the variables of both.
ObserversTypeOK == TypeOK /\ WrapperTypeOK

=============================================================================

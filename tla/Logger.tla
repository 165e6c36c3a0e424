-------------------------------- MODULE Logger --------------------------------
(***************************************************************************)
(* The Logger of tools/monorepo-utils (src/core/logger.ts) as the commands *)
(* of the monorepo tools use it: a task announces itself with startTask,   *)
(* does its work (an await), reports a failure with Logger.error (which    *)
(* is meant to stop the process) or finishes with endTask.  Several tasks  *)
(* of one process may be in progress at once when a command awaits them   *)
(* together; Sequential restricts a run to one task at a time.             *)
(*                                                                         *)
(* The spinner of a task is "none" (never started, or logging silent),     *)
(* "spinning" or "succeeded".  warn and notice only print and are left out.*)
(***************************************************************************)
EXTENDS Integers

CONSTANTS
    Tasks,       \* async tasks of one command
    Levels,      \* values LOGGER_LEVEL may have: "unset", a level name, or "other"
    None,        \* lastSpinner = null
    Sequential   \* TRUE: a task starts only when no other is in progress

VARIABLES
    level,        \* the LOGGER_LEVEL environment variable
    pc,           \* task -> "idle", "working", "done"
    spinner,      \* task -> "none", "spinning", "succeeded"
    lastSpinner,  \* Logger.lastSpinner
    fatal,        \* Logger.error( err ) with failOnErr has been called
    exited        \* process.exit has run

vars == <<level, pc, spinner, lastSpinner, fatal, exited>>

\* LOGGING_LEVELS[ getEnvVar( 'LOGGER_LEVEL' ) || 'warn' ]: undefined (-1
\* here, never compared true) for a name the table does not hold.
Undefined == -1
LoggingLevel ==
    CASE level = "unset"   -> 2
      [] level = "verbose" -> 3
      [] level = "warn"    -> 2
      [] level = "error"   -> 1
      [] level = "silent"  -> 0
      [] OTHER             -> Undefined

\* A comparison with undefined is false in JavaScript.
AtLeast(n) == LoggingLevel # Undefined /\ LoggingLevel >= n
Above(n)   == LoggingLevel # Undefined /\ LoggingLevel > n

Init ==
    /\ level \in Levels
    /\ pc = [t \in Tasks |-> "idle"]
    /\ spinner = [t \in Tasks |-> "none"]
    /\ lastSpinner = None
    /\ fatal = FALSE
    /\ exited = FALSE

\* startTask( message ): start a spinner and remember it as lastSpinner.
StartTask(t) ==
    /\ ~exited /\ pc[t] = "idle"
    /\ Sequential => \A u \in Tasks : pc[u] # "working"
    /\ pc' = [pc EXCEPT ![t] = "working"]
    /\ IF Above(0)
       THEN /\ spinner' = [spinner EXCEPT ![t] = "spinning"]
            /\ lastSpinner' = t
       ELSE UNCHANGED <<spinner, lastSpinner>>
    /\ UNCHANGED <<level, fatal, exited>>

\* endTask(): complete lastSpinner, whichever task started it, and clear it.
EndTask(t) ==
    /\ ~exited /\ pc[t] = "working"
    /\ pc' = [pc EXCEPT ![t] = "done"]
    /\ IF Above(0) /\ lastSpinner # None
       THEN /\ spinner' = [spinner EXCEPT ![lastSpinner] = "succeeded"]
            /\ lastSpinner' = None
       ELSE UNCHANGED <<spinner, lastSpinner>>
    /\ UNCHANGED <<level, fatal, exited>>

\* error( err ) with failOnErr = true, called by a task that failed: it
\* prints and exits only when the level is at least 'error'.
Error(t) ==
    /\ ~exited /\ pc[t] = "working"
    /\ pc' = [pc EXCEPT ![t] = "done"]
    /\ fatal' = TRUE
    /\ exited' = AtLeast(1)
    /\ UNCHANGED <<level, spinner, lastSpinner>>

Next == \E t \in Tasks : StartTask(t) \/ EndTask(t) \/ Error(t)

Spec == Init /\ [][Next]_vars

(***************************************************************************)
(* Properties                                                              *)
(***************************************************************************)
\* Logger.error( err ) (failOnErr defaults to true) ends the process: no
\* step of the command runs after a fatal error was reported.
FatalErrorExits == fatal => exited

=============================================================================

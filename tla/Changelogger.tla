----------------------------- MODULE Changelogger -----------------------------
(***************************************************************************)
(* The NX changelogger executor (tools/executors/changelogger/impl.ts).    *)
(*                                                                         *)
(* changelogExecutor runs synchronously up to the await: it changes to the *)
(* project directory, checks that vendor/bin/changelogger exists, and      *)
(* runChangelogger builds the arguments, spawns the script and registers   *)
(* its 'close' and 'error' handlers.  Node then delivers the child's       *)
(* events one at a time; the first of resolve and reject settles the       *)
(* promise, and the executor resumes after the await.                      *)
(*                                                                         *)
(* The environment is chosen at Init: whether the directory and the       *)
(* script exist, whether spawn succeeds, and the child's exit code (Null   *)
(* for a child killed by a signal).  A failed spawn emits 'error' and no   *)
(* 'close'; a child that ran emits 'close' when it exits.                  *)
(*                                                                         *)
(* The one extra argument is what the user typed: a kebab-case key and a   *)
(* value.  NX camel-cases the key and turns a numeric value into a Number  *)
(* before the executor sees it; the executor undoes both.  A numeric text  *)
(* is a record [int, frac] (frac the sequence of decimal digits), a Number *)
(* is held in hundredths, and any other text is a record [word].           *)
(***************************************************************************)
EXTENDS Integers, Sequences, SequencesExt

CONSTANTS
    Actions,     \* values of the action option ("write", "add", ...)
    Lower,       \* lower-case letters keys are made of
    Upper,       \* their upper-case forms, in the same order
    MaxKeyLen,   \* longest key
    Values,      \* texts the user may give as the value
    Codes,       \* exit codes the child may return
    Null         \* the code of a child killed by a signal

VARIABLES
    env,       \* [dir, script, spawns, code]: the world the executor runs in
    opts,      \* [action, key, text]: the options the user passed
    pc,        \* "start", "awaiting", "returned" or "rejected"
    child,     \* "none", "running", "exited" or "failed"
    events,    \* events the child emitted and Node has not delivered yet
    promise,   \* [state: "pending", "resolved", "rejected", code]
    args,      \* the argument list passed to the script
    result     \* what the executor returned: "none", "success" or "failure"

vars == <<env, opts, pc, child, events, promise, args, result>>

(***************************************************************************)
(* Keys.  NX turns --use-version into useVersion; the executor turns every *)
(* capital back into '-' and its lower case.                               *)
(***************************************************************************)
Up(c)  == Upper[CHOOSE i \in DOMAIN Lower : Lower[i] = c]
Low(c) == Lower[CHOOSE i \in DOMAIN Upper : Upper[i] = c]

\* Keys as typed: lower-case words joined by single dashes.
KebabKeys ==
    {k \in BoundedSeq(ToSet(Lower) \cup {"-"}, MaxKeyLen) :
        /\ k # << >>
        /\ k[1] # "-" /\ k[Len(k)] # "-"
        /\ \A i \in 1..Len(k) - 1 : ~(k[i] = "-" /\ k[i + 1] = "-")}

\* NX's camel-case expansion: drop each dash and capitalise the next letter.
RECURSIVE Camel(_)
Camel(k) ==
    IF k = << >> THEN << >>
    ELSE IF k[1] = "-" /\ Len(k) > 1 THEN <<Up(k[2])>> \o Camel(Tail(Tail(k)))
    ELSE <<k[1]>> \o Camel(Tail(k))

\* key.replace( /[A-Z]/g, ( m ) => '-' + m.toLowerCase() )
RECURSIVE Kebab(_)
Kebab(k) ==
    IF k = << >> THEN << >>
    ELSE (IF k[1] \in ToSet(Upper) THEN <<"-", Low(k[1])>> ELSE <<k[1]>>)
         \o Kebab(Tail(k))

(***************************************************************************)
(* Values.                                                                 *)
(***************************************************************************)
Numeric(t) == "int" \in DOMAIN t

\* Number( text ), in hundredths (the values have at most two decimals).
Hundredths(t) ==
    t.int * 100 + (IF Len(t.frac) >= 1 THEN t.frac[1] * 10 ELSE 0)
                + (IF Len(t.frac) >= 2 THEN t.frac[2] ELSE 0)

\* What NX hands the executor: a Number for a numeric text.
NxValue(t) == IF Numeric(t) THEN [num |-> Hundredths(t)] ELSE t

\* String( n ): the shortest decimal text of a Number.
NumText(h) ==
    LET r == h % 100 IN
    [int |-> h \div 100,
     frac |-> IF r = 0 THEN << >>
              ELSE IF r % 10 = 0 THEN <<r \div 10>>
              ELSE <<r \div 10, r % 10>>]

\* n.toFixed( 1 ): rounded to tenths, a tie going to the larger.
Fixed1(h) == LET t == (h + 5) \div 10 IN [int |-> t \div 10, frac |-> <<t % 10>>]

\* Mutant: the Number passed on as String( n ), without toFixed.
ArgValueNoFixed(action, v) ==
    IF "num" \in DOMAIN v THEN NumText(v.num) ELSE v

\* Number( value ) && action === 'write' ? value.toFixed( 1 ) : value
ArgValue(action, v) ==
    IF "num" \in DOMAIN v /\ v.num # 0 /\ action = "write"
    THEN Fixed1(v.num)
    ELSE IF "num" \in DOMAIN v THEN NumText(v.num) ELSE v

\* [ action ].concat( --key=value for each extra option )
BuildArgs(o) ==
    <<o.action, [key |-> Kebab(Camel(o.key)), value |-> ArgValue(o.action, NxValue(o.text))]>>

(***************************************************************************)
(* The executor.                                                           *)
(***************************************************************************)
Init ==
    /\ env \in [dir : BOOLEAN, script : BOOLEAN, spawns : BOOLEAN, code : Codes \cup {Null}]
    /\ opts \in [action : Actions, key : KebabKeys, text : Values]
    /\ pc = "start"
    /\ child = "none"
    /\ events = << >>
    /\ promise = [state |-> "pending", code |-> Null]
    /\ args = << >>
    /\ result = "none"

\* changelogExecutor up to the await: chdir, existsSync, then
\* runChangelogger's spawn and handler registration.
Execute ==
    /\ pc = "start"
    /\ IF ~env.dir \/ ~env.script
       THEN /\ pc' = "returned" /\ result' = "failure"
            /\ UNCHANGED <<child, events, args>>
       ELSE /\ pc' = "awaiting"
            /\ args' = BuildArgs(opts)
            /\ IF env.spawns
               THEN child' = "running" /\ events' = events
               ELSE child' = "failed" /\ events' = Append(events, "error")
            /\ UNCHANGED result
    /\ UNCHANGED <<env, opts, promise>>

\* The child exits; with stdio inherited, 'close' follows its exit.
ChildExit ==
    /\ child = "running"
    /\ child' = "exited"
    /\ events' = Append(events, "close")
    /\ UNCHANGED <<env, opts, pc, promise, args, result>>

\* Mutant: the 'close' handler resolves only on exit code 0.
DeliverResolveOnZero ==
    /\ events # << >>
    /\ events' = Tail(events)
    /\ promise' = IF promise.state = "pending" /\ Head(events) = "close" /\ env.code = 0
                  THEN [state |-> "resolved", code |-> env.code]
                  ELSE IF promise.state = "pending" /\ Head(events) = "error"
                  THEN [state |-> "rejected", code |-> 1]
                  ELSE promise
    /\ UNCHANGED <<env, opts, pc, child, args, result>>

\* Node runs the handler of the next event: 'close' resolves with the exit
\* code, 'error' rejects with code 1; a settled promise ignores both.
Deliver ==
    /\ events # << >>
    /\ events' = Tail(events)
    /\ promise' = IF promise.state # "pending" THEN promise
                  ELSE IF Head(events) = "close"
                  THEN [state |-> "resolved", code |-> env.code]
                  ELSE [state |-> "rejected", code |-> 1]
    /\ UNCHANGED <<env, opts, pc, child, args, result>>

\* Mutant: success is !code, true also for a child killed by a signal.
ResumeNotCode(p) ==
    /\ pc = "awaiting" /\ p.state # "pending"
    /\ IF p.state = "rejected"
       THEN pc' = "rejected" /\ result' = "none"
       ELSE pc' = "returned" /\ result' = IF p.code \in {0, Null} THEN "success" ELSE "failure"
    /\ UNCHANGED <<env, opts, child, events, promise, args>>

\* After the await: a rejected promise throws out of the executor (its
\* `if ( error )` branch is never reached); otherwise success is code === 0.
Resume(p) ==
    /\ pc = "awaiting" /\ p.state # "pending"
    /\ IF p.state = "rejected"
       THEN pc' = "rejected" /\ result' = "none"
       ELSE pc' = "returned" /\ result' = IF p.code = 0 THEN "success" ELSE "failure"
    /\ UNCHANGED <<env, opts, child, events, promise, args>>

Next == Execute \/ ChildExit \/ Deliver \/ Resume(promise)

\* The event loop runs every handler and continuation it has queued, and
\* the changelogger script terminates: both are weakly fair.
Spec == Init /\ [][Next]_vars /\ WF_vars(Next)

(***************************************************************************)
(* Properties                                                              *)
(***************************************************************************)

\* The executor always finishes: whatever the directory, the script, the
\* spawn and the exit, the promise it awaits settles and it returns or
\* throws (it never waits forever on an event that will not come).
ExecutorSettles == <>(pc \in {"returned", "rejected"})

\* The executor reports success only when the changelogger script really
\* ran and exited with code 0.
SuccessMeansZeroExit ==
    result = "success" => child = "exited" /\ env.code = 0

\* The changelogger receives the arguments as the user typed them: the key
\* in kebab case, and a release version such as 8.0 with its decimal
\* (NX has made it the Number 8) when writing.
ArgumentsAsTyped ==
    args # << >> =>
        /\ args[2].key = opts.key
        /\ (opts.action = "write" => args[2].value = opts.text)

=============================================================================

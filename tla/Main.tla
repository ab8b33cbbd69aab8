-------------------------------- MODULE Main --------------------------------
(***************************************************************************)
(* main.c: the process.  It reads its command line, opens what it is to    *)
(* run, has one machine interpret it program by program, and exits.  The   *)
(* lines of a REPL are the programs of its machine; a file and a string    *)
(* are one program each.                                                   *)
(***************************************************************************)
EXTENDS VM

\* Further fields of a script: args, the command line; tty, whether the input
\* is a terminal; file, what becomes of opening the file it names; and what is
\* expected of the process: printed, its standard output, and status.
Files == {"text", "empty", "missing"}
ASSUME CommandAssumption ==
    \A s \in Scripts : /\ s.args \in Seq(STRING)
                       /\ s.tty \in BOOLEAN
                       /\ s.file \in Files

VARIABLES
    phase,          \* "parse", "execute", "run" or "exit"
    opts,           \* hll_options; a str of "" is NULL
    status          \* what main returns

process == <<phase, opts, status>>
mainVars == <<vars, process>>

-----------------------------------------------------------------------------
(* The command line. *)

Dashed == {"-e", "-v", "-h", "-m", "--dump", "-x"}
Flags == {"-v", "-h", "-m", "--dump"}

Chosen(chosen, flag) ==
    CASE flag = "-v"     -> [chosen EXCEPT !.mode = "VERSION"]
      [] flag = "-h"     -> [chosen EXCEPT !.mode = "HELP"]
      [] flag = "--dump" -> [chosen EXCEPT !.mode = "DUMP_BYTECODE"]
      [] flag = "-m"     -> chosen

\* The options the arguments come to, or none.  The last one that chooses a
\* mode wins.
RECURSIVE Parsed(_, _)
Parsed(args, chosen) ==
    IF args = <<>> THEN {chosen}
    ELSE IF Head(args) = "-e" THEN
        IF Len(args) = 1 THEN {}
        ELSE Parsed(Tail(Tail(args)), [mode |-> "ESTRING", str |-> args[2]])
    ELSE IF Head(args) \in Flags THEN Parsed(Tail(args), Chosen(chosen, Head(args)))
    ELSE IF Head(args) \in Dashed THEN {}
    ELSE Parsed(Tail(args), [mode |-> "ESCRIPT", str |-> Head(args)])

parse_cli_args(args) == Parsed(args, [mode |-> "EREPL", str |-> ""])

\* read_entire_file: fread gives no item of size zero, so an empty file cannot
\* be read.
read_entire_file(str) == str # "" /\ script.file = "text"

-----------------------------------------------------------------------------
(* main *)

Exit(failed) ==
    /\ phase' = "exit"
    /\ status' = IF failed THEN "EXIT_FAILURE" ELSE "EXIT_SUCCESS"

ParseArgs ==
    /\ phase = "parse"
    /\ \E options \in parse_cli_args(script.args) :
          opts' = IF options.mode = "EREPL" /\ ~script.tty
                  THEN [options EXCEPT !.mode = "EREPL_NO_TTY"] ELSE options
    /\ phase' = "execute"
    /\ UNCHANGED <<vars, status>>

RefuseArgs ==
    /\ phase = "parse"
    /\ parse_cli_args(script.args) = {}
    /\ Exit(TRUE)
    /\ UNCHANGED <<vars, opts>>

ShowInfo ==
    /\ phase = "execute" /\ opts.mode \in {"HELP", "VERSION"}
    /\ Exit(FALSE)
    /\ UNCHANGED <<vars, opts>>

\* A machine is made and the flags are set; only scripts do not print results.
Open ==
    /\ phase = "execute"
    /\ \/ opts.mode \in {"EREPL", "EREPL_NO_TTY", "ESTRING"}
       \/ opts.mode \in {"ESCRIPT", "DUMP_BYTECODE"} /\ read_entire_file(opts.str)
    /\ vm' = [vm EXCEPT !.print_result = opts.mode # "ESCRIPT"]
    /\ phase' = "run"
    /\ UNCHANGED <<script, output, opts, status>>

OpenFails ==
    /\ phase = "execute" /\ opts.mode \in {"ESCRIPT", "DUMP_BYTECODE"}
    /\ ~read_entire_file(opts.str)
    /\ Exit(TRUE)
    /\ UNCHANGED <<vars, opts>>

\* execute_dump_bytecode: to fail to compile is no error.
Dump ==
    /\ phase = "run" /\ opts.mode = "DUMP_BYTECODE"
    /\ vm' = Compiled.vm
    /\ Exit(FALSE)
    /\ UNCHANGED <<script, output, opts>>

\* Mutant: one failed line of a REPL makes the process fail.
FinishesRemembering ==
    /\ phase = "run" /\ opts.mode # "DUMP_BYTECODE" /\ AllDone
    /\ Exit(Failed \in Range(output))
    /\ UNCHANGED <<vars, opts>>

\* The end of the file, the string or the input: the result of the last
\* program is that of the process.
Finishes ==
    /\ phase = "run" /\ opts.mode # "DUMP_BYTECODE" /\ AllDone
    /\ Exit(output # <<>> /\ Last(output) = Failed)
    /\ UNCHANGED <<vars, opts>>

Interpretation ==
    /\ phase = "run" /\ opts.mode # "DUMP_BYTECODE"
    /\ Step
    /\ UNCHANGED process

MainInit == /\ Init
            /\ phase = "parse"
            /\ opts = [mode |-> "EREPL", str |-> ""]
            /\ status = "running"

Runs == \/ ParseArgs \/ RefuseArgs \/ ShowInfo \/ Open \/ OpenFails
        \/ Dump \/ Interpretation \/ Finishes

Ended == phase = "exit" \/ vm.aborted

\* The process has ended, or an assertion has ended it.
Idle == Ended /\ UNCHANGED mainVars

Next == Runs \/ Idle

\* There is one thread, and all its input is there: WF_mainVars(Runs), with
\* what enables a step written out.
Fairness == []<>Ended \/ []<><<TRUE>>_mainVars

Spec == MainInit /\ [][Next]_mainVars /\ Fairness

-----------------------------------------------------------------------------
(* Properties. *)

(***************************************************************************)
(* The process prints what tests/test_lisp.sh expects of it and exits as   *)
(* it expects: with a failure when the command line, the file or the last  *)
(* program is at fault, whatever failed before and whenever the collector  *)
(* ran.                                                                    *)
(***************************************************************************)
ExitsAsTested ==
    phase = "exit" => /\ status = script.status
                      /\ vm.printed = script.printed

(***************************************************************************)
(* The process exits: no handler gets stuck, no assertion stops it, and no *)
(* loop of the code it runs is without an end.                             *)
(***************************************************************************)
Terminates == <>(phase = "exit")
=============================================================================

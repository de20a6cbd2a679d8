------------------------------- MODULE Judge --------------------------------
(***************************************************************************)
(* What the runner answers about programs. A program is what it does on     *)
(* each input under the limits of the problem; a checker is the pairs of    *)
(* outputs it accepts; an interactor is how it may end.                     *)
(***************************************************************************)
EXTENDS Naturals

CONSTANTS
    Inputs,     \* test inputs, numbered in the order of a stress run
    Samples,    \* those of the problem's samples, which every run includes
    Outputs,    \* what a program may print
    Expected,   \* the sample output (or the caller's) of an input
    Isolate     \* sandbox_mode() = "isolate"; the default is a plain subprocess

ASSUME InputsAssumption == Inputs \subseteq Nat \ {0} /\ Samples \subseteq Inputs
ASSUME ExpectedAssumption == Expected \in [Inputs -> Outputs]
ASSUME IsolateAssumption == Isolate \in BOOLEAN

(* out is what is read of the output; garbled output is not UTF-8.          *)
Processes ==
    [out : Outputs, garbled : BOOLEAN, code : {0, 1}, slow : BOOLEAN, flood : BOOLEAN]

(* builds is "raises" when the call of the compiler does not return: it      *)
(* needs more than 60 (90) seconds, is not installed, or has no class name. *)
Programs == [lang : {"cpp", "python", "java", "other"}, builds : {"yes", "no", "raises"},
             does : [Inputs -> Processes]]
Checkers ==
    [lang : {"python", "cpp"}, accepts : SUBSET (Outputs \X Outputs), slow : BOOLEAN,
     garbled : BOOLEAN]
Interactors ==
    [ends : {"exit 0", "exit 1", "never"}, saysWA : {"no", "stdout", "stderr"}, garbled : BOOLEAN]

Compiled(p) == p.lang \in {"cpp", "java"}

(* compile_source: a Python program is only written to a file. *)
Builds(p) == p.lang = "python" \/ (Compiled(p) /\ p.builds = "yes")

CompilerRaises(p) == Compiled(p) /\ p.builds = "raises"

(* Without isolate the first word of the command is taken for a file of the *)
(* work directory: a script that is not executable, or a file named java.   *)
Unrunnable(p) == ~Isolate /\ p.lang \in {"python", "java"}

(* Without isolate the output is decoded when the process ends in time.     *)
Raises(p, i) == Unrunnable(p) \/ (~Isolate /\ p.does[i].garbled /\ ~p.does[i].slow)

(* The verdict on a process; isolate reports a flood before a timeout.      *)
Verdict(x) ==
    IF x.slow /\ ~(Isolate /\ x.flood) THEN "TLE"
    ELSE IF x.flood THEN "OLE"
    ELSE IF x.code # 0 THEN "RTE" ELSE "OK"

(* Under isolate every argument of java is taken for a path below /box.     *)
Ran(p, i) ==
    IF Raises(p, i) THEN "error"
    ELSE IF p.lang = "java" THEN "RTE" ELSE Verdict(p.does[i])

(* run_source; "error" is an exception that nobody catches before the job.  *)
RunSource(p, i) ==
    IF CompilerRaises(p) THEN "error" ELSE IF ~Builds(p) THEN "CE" ELSE Ran(p, i)

Equal(out, answer) == IF out = answer THEN "AC" ELSE "WA"

(* run_checker: only Python checkers are run, never under isolate. *)
Checked(c, out, answer) ==
    IF c.lang # "python" THEN "CE"
    ELSE IF c.slow THEN "TLE"
    ELSE IF c.garbled THEN "error"
    ELSE IF <<out, answer>> \in c.accepts THEN "AC" ELSE "WA"

(* One round of a stress run; c = {} when there is no checker. *)
Agree(p, q, c, i) ==
    /\ Ran(p, i) = "OK" /\ Ran(q, i) = "OK"
    /\ \A k \in c : Checked(k, p.does[i].out, q.does[i].out) = "AC"
    /\ c = {} => p.does[i].out = q.does[i].out

(* How a round ends that does not agree: in an exception, or as a failure.  *)
Failure(p, q, c, i) ==
    IF "error" \in {Ran(p, i), Ran(q, i)} THEN "error"
    ELSE IF Ran(p, i) # "OK" \/ Ran(q, i) # "OK" THEN "runtime_error"
    ELSE IF c = {} THEN "wa"
    ELSE IF \E k \in c : Checked(k, p.does[i].out, q.does[i].out) = "error" THEN "error"
    ELSE "spj_wa"

(* The round at which the loop returns: the first that fails (or none). *)
Deciding(rounds, p, q, c) ==
    {i \in rounds : ~Agree(p, q, c, i) /\ \A j \in rounds : j < i => Agree(p, q, c, j)}

Raised == [reason |-> "error", round |-> 0]

(* stress_compare: a reason and a round, or "ok"; both are compiled before   *)
(* either result is looked at.                                              *)
StressReport(p, q, c, rounds) ==
    CASE CompilerRaises(p) \/ CompilerRaises(q) -> Raised
      [] ~CompilerRaises(p) /\ ~CompilerRaises(q) /\ ~Builds(p) ->
            [reason |-> "std_compile_error", round |-> 0]
      [] ~CompilerRaises(q) /\ Builds(p) /\ ~Builds(q) ->
            [reason |-> "brute_compile_error", round |-> 0]
      [] OTHER ->
            IF Deciding(rounds, p, q, c) = {} THEN [reason |-> "ok", round |-> 0]
            ELSE LET i == CHOOSE i \in Deciding(rounds, p, q, c) : TRUE IN
                 IF Failure(p, q, c, i) = "error" THEN Raised
                 ELSE [reason |-> Failure(p, q, c, i), round |-> i]

(* run_compare_pair. *)
Compared(p, q, i) ==
    CASE "error" \in {RunSource(p, i), RunSource(q, i)} -> "error"
      [] RunSource(p, i) = "OK" /\ RunSource(q, i) = "OK" /\ p.does[i].out = q.does[i].out -> "match"
      [] OTHER -> "differ"

(* run_with_expected. *)
WithExpected(p, i) ==
    IF RunSource(p, i) = "OK" THEN Equal(p.does[i].out, Expected[i]) ELSE RunSource(p, i)

(* A run judged by the checker. *)
WithChecker(c, p, i) ==
    IF RunSource(p, i) = "OK" THEN Checked(c, p.does[i].out, Expected[i]) ELSE RunSource(p, i)

(* handle_compile. *)
CompileVerdict(p) ==
    IF CompilerRaises(p) THEN "error" ELSE IF Builds(p) THEN "OK" ELSE "CE"

(* run_interactive: what the interactor prints counts even after exit 0.    *)
Interacted(t, p) ==
    IF CompileVerdict(p) # "OK" THEN CompileVerdict(p)
    ELSE IF t.ends = "never" THEN "TLE"
    ELSE IF t.garbled THEN "error"
    ELSE IF t.ends = "exit 0" THEN IF t.saysWA = "no" THEN "AC" ELSE "WA"
    ELSE IF t.saysWA = "stdout" THEN "WA" ELSE "RTE"
=============================================================================

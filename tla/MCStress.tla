------------------------------ MODULE MCStress ------------------------------
(* Values for Stress. From two starts, stress jobs overlap while programs    *)
(* are replaced; from the others one job of any kind is run (Scenarios).     *)
EXTENDS Stress, TLC

Fine(out) == [out |-> out, garbled |-> FALSE, code |-> 0, slow |-> FALSE, flood |-> FALSE]
Cpp(does) == [lang |-> "cpp", builds |-> "yes", does |-> does]

MCExpected == [i \in Inputs |-> "a"]
Right == Cpp([i \in Inputs |-> Fine("a")])
LoopsOnRandom == Cpp([i \in Inputs |-> [Fine("a") EXCEPT !.slow = i \notin Samples]])
Loops == Cpp([i \in Inputs |-> [Fine("a") EXCEPT !.slow = TRUE]])
WrongOnRandom == Cpp([i \in Inputs |-> IF i \in Samples THEN Fine("a") ELSE Fine("b")])
MCSeededBrute == [Right EXCEPT !.lang = "python"]
Tolerant == [lang |-> "python", accepts |-> {"a"} \X Outputs, slow |-> FALSE, garbled |-> FALSE]

MCStored == [std |-> {Loops}, brute |-> {WrongOnRandom}, checker |-> {Tolerant}, interactor |-> {}]
MCSubmitted == JobKinds \ {"stress"}
Replaced ==
    {[std |-> <<Right>>, brute |-> brute, checker |-> <<>>, interactor |-> <<>>] :
        brute \in {<<>>, <<WrongOnRandom>>}}

(* Programs of every kind, with an interactor. *)
Crashing == Cpp([i \in Inputs |-> [Fine("a") EXCEPT !.code = i - 1]])
Flooding == Cpp([i \in Inputs |-> [Fine("b") EXCEPT !.flood = TRUE, !.slow = i \in Samples]])
Garbling == Cpp([i \in Inputs |-> [Fine("a") EXCEPT !.garbled = i \notin Samples]])
AllPrograms ==
    {Right, LoopsOnRandom, WrongOnRandom, Crashing, Flooding, Garbling, MCSeededBrute,
     [Right EXCEPT !.builds = "no"], [Right EXCEPT !.builds = "raises"],
     [Right EXCEPT !.lang = "java"], [Right EXCEPT !.lang = "other"]}
AllCheckers ==
    {Tolerant, [Tolerant EXCEPT !.lang = "cpp"], [Tolerant EXCEPT !.slow = TRUE],
     [Tolerant EXCEPT !.garbled = TRUE]}
AllInteractors ==
    [ends : {"exit 0", "never"}, saysWA : {"no", "stdout"}, garbled : {FALSE}]
    \cup [ends : {"exit 0"}, saysWA : {"no"}, garbled : {TRUE}]
AtMostOneOf(S) == {<<>>} \cup {<<x>> : x \in S}
Varied ==
    {[std |-> std, brute |-> brute, checker |-> checker, interactor |-> <<interactor>>] :
        std \in AtMostOneOf(AllPrograms), brute \in AtMostOneOf(AllPrograms),
        checker \in AtMostOneOf(AllCheckers), interactor \in AllInteractors}
Few(start) ==
    \/ start.checker = <<>> /\ start.interactor = <<[ends |-> "never", saysWA |-> "no", garbled |-> FALSE]>>
    \/ start.std = <<Right>> /\ start.brute = <<WrongOnRandom>>
MCInitials == Replaced \cup {start \in Varied : Few(start)}

(* Either stress jobs, two of which overlap with the request or with a save, *)
(* a cancel or a retry, and one of which overlaps with both; but only one as *)
(* long as the brute has only been seeded. Or one job of any kind.          *)
Scenarios ==
    IF log["interactor"] = <<>>
    THEN /\ \A j \in DOMAIN job : job[j].kind \in StressKinds
         /\ log["brute"] = <<>> \/ log["brute"][1] = MCSeededBrute => Len(job) < 2
         /\ Len(job) = 2 /\ calls > 0 => \A r \in Requests : edit[r] = Idle
    ELSE Len(job) < 2 /\ calls = 0

Symmetry == Permutations(Workers)
=============================================================================

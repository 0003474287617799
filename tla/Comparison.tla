------------------------------- MODULE Comparison -------------------------------
(***************************************************************************)
(* The paired comparison of two evaluation runs                            *)
(* (evals/conversation_compare.py).                                        *)
(*                                                                         *)
(* A run's artifact is a function from the keys of its repetitions to      *)
(* what finalize_repetition recorded.  A dimension two runs differ in is   *)
(* one that explains a change of prompt tokens, one that explains the      *)
(* latency of the model, or neither; latencies and tokens are compared to  *)
(* "changed" and "higher".  The distributions and the review form of the   *)
(* report decide nothing and are left out.                                 *)
(***************************************************************************)
EXTENDS FiniteSets, Sequences, Naturals

Dimension == {"prompt", "model", "other"}

(* How a comparison is asked for: what the two runs differ in, what of it was declared,
   whether the cases' family is a target, and what the measurements showed. *)
Setting ==
    [differing : SUBSET Dimension, variables : SUBSET Dimension,
     confounders : SUBSET Dimension, tokensChanged : BOOLEAN, latencyUp : BOOLEAN]

IsCompatible(setting) == setting.differing \subseteq setting.variables \cup setting.confounders

\* Repetitions the comparison cannot judge.
Incomplete(baseline, candidate) ==
    (DOMAIN baseline \cup DOMAIN candidate) \ (DOMAIN baseline \cap DOMAIN candidate)

InfraPairs(baseline, candidate) ==
    {key \in DOMAIN baseline \cap DOMAIN candidate :
        baseline[key].status # "valid" \/ candidate[key].status # "valid"}

Pairs(baseline, candidate) ==
    (DOMAIN baseline \cap DOMAIN candidate) \ InfraPairs(baseline, candidate)

\* One entry of critical_findings per repetition and class.
CriticalFindings(artifact) ==
    UNION {{[key |-> key, class |-> class] : class \in artifact[key].criticals} :
           key \in DOMAIN artifact}

NewCriticals(baseline, candidate) ==
    CriticalFindings(candidate) \ CriticalFindings(baseline)

Failed(verdicts) == {name \in DOMAIN verdicts : verdicts[name] = "FAIL"}
Passed(verdicts) == {name \in DOMAIN verdicts : verdicts[name] = "PASS"}
TurnVerdicts(rep, i) == IF i \in DOMAIN rep.turns THEN rep.turns[i] ELSE <<>>

\* Mutant of NewPropertyFailures: the turns of a sequence are not compared.
NewFailuresOfTheCase(before, after) ==
    {<<0, name>> : name \in Failed(after.verdicts) \ Failed(before.verdicts)}

\* What fails now and did not before: of the case (turn 0) and of each turn.
NewPropertyFailures(before, after) ==
    {<<0, name>> : name \in Failed(after.verdicts) \ Failed(before.verdicts)}
      \cup UNION {{<<i, name>> :
                    name \in Failed(after.turns[i]) \ Failed(TurnVerdicts(before, i))} :
                  i \in DOMAIN after.turns}

FixedProperties(before, after) ==
    {<<0, name>> : name \in Failed(before.verdicts) \cap Passed(after.verdicts)}
      \cup UNION {{<<i, name>> :
                    name \in Failed(before.turns[i]) \cap Passed(TurnVerdicts(after, i))} :
                  i \in DOMAIN before.turns}

\* compare_semantics: the pairs that got worse, in a target family or not, and those that improved.
CompareSemantics(baseline, candidate) ==
    LET pairs == Pairs(baseline, candidate)
    IN  [regressed |-> {key \in pairs :
                        NewPropertyFailures(baseline[key], candidate[key]) # {}},
         improved |-> {key \in pairs :
                        FixedProperties(baseline[key], candidate[key]) # {}},
         changed |-> {key \in pairs :
                        baseline[key].classification # candidate[key].classification}]

\* compare_efficiency: a change of tokens or latency the declared change does not account for.
IsUnexplained(setting) ==
    LET accounted == setting.differing \cup setting.confounders
    IN  \/ setting.tokensChanged /\ "prompt" \notin accounted
        \/ setting.latencyUp /\ "model" \notin accounted /\ ~setting.tokensChanged

\* compare_runs: the verdict; "incompatible" when the evidence is refused.
CompareRuns(baseline, candidate, setting) ==
    IF ~IsCompatible(setting) THEN "incompatible"
    ELSE IF NewCriticals(baseline, candidate) # {} THEN "REJECT"
    ELSE IF \/ Incomplete(baseline, candidate) # {}
            \/ InfraPairs(baseline, candidate) # {}
            \/ CompareSemantics(baseline, candidate).regressed # {}
            \/ IsUnexplained(setting)
    THEN "NEEDS OWNER DECISION"
    ELSE "ACCEPT"
================================================================================

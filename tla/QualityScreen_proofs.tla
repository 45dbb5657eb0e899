------------------------ MODULE QualityScreen_proofs ------------------------
(***************************************************************************)
(* The thresholds of the quality screen are monotone.                      *)
(***************************************************************************)
EXTENDS QualityScreen, TLAPS

\* Findings only lower the score (assess): the deductions are bounded and grow
\* with the set of flaws.
LEMMA DeductionGrows ==
    ASSUME NEW flaws \in SUBSET Flaws, NEW more \in SUBSET Flaws, flaws \subseteq more
    PROVE  Deduction(flaws) \in 0 .. 187 /\ Deduction(flaws) <= Deduction(more)
BY DEF Deduction, Flaws

\* The clamped score of a source with more flaws is not higher.
LEMMA ScoreFalls ==
    ASSUME NEW flaws \in SUBSET Flaws, NEW more \in SUBSET Flaws, flaws \subseteq more
    PROVE  Score(flaws) \in Int /\ Score(more) \in Int /\ Score(more) <= Score(flaws)
BY DeductionGrows DEF Score

\* assess never treats a source better because it has more flaws, for all sets
\* of findings and at each threshold.
THEOREM WorseIsWorse == WorseIsNeverBetter
<1> SUFFICES ASSUME NEW flaws \in SUBSET Flaws, NEW more \in SUBSET Flaws, flaws \subseteq more
             PROVE  Severity[Disposition(flaws)] <= Severity[Disposition(more)]
    BY DEF WorseIsNeverBetter
<1>1. CASE "secret" \in more
    BY <1>1, DeductionGrows DEF Severity, Disposition
<1>2. CASE "secret" \notin more /\ (Grave(more) \/ Score(more) < 45)
    BY <1>2, ScoreFalls DEF Severity, Disposition
<1>3. CASE "secret" \notin more /\ ~Grave(more) /\ ~(Score(more) < 45)
    <2>1. "secret" \notin flaws /\ ~Grave(flaws) /\ ~(Score(flaws) < 45)
        BY <1>3, ScoreFalls DEF Grave
    <2>2. (flaws # {} \/ Score(flaws) < 82) => (more # {} \/ Score(more) < 82)
        BY ScoreFalls
    <2>3. CASE more # {} \/ Score(more) < 82
        <3>1. Disposition(more) = "accept_with_warnings"
            BY <1>3, <2>3 DEF Disposition
        <3>2. Disposition(flaws) \in {"accept_with_warnings", "accept"}
            BY <2>1 DEF Disposition
        <3> QED BY <3>1, <3>2 DEF Severity
    <2>4. CASE ~(more # {} \/ Score(more) < 82)
        <3>1. Disposition(more) = "accept"
            BY <1>3, <2>4 DEF Disposition
        <3>2. Disposition(flaws) = "accept"
            BY <2>1, <2>2, <2>4 DEF Disposition
        <3> QED BY <3>1, <3>2 DEF Severity
    <2> QED BY <2>3, <2>4
<1> QED BY <1>1, <1>2, <1>3, ScoreFalls
=============================================================================
